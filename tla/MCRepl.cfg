CONSTANTS
    Bytes <- AnyByte
    Keys <- AllKeys
    Commands <- CommandNames
    Entries <- DirEntries
    Clears <- ClearCommands
    NeedsContinuation <- Continuation
    FunctionHeader <- Header
    BraceDelta <- Braces
    CompoundStart <- StartsBlock
    NestingDelta <- Blocks
    OpensHereDoc <- HereDocIn
    Closes <- ClosesIt
    TmpFile <- FileName
    Stored <- FirstLines
    HistSize = 2
    IgnoreEof = FALSE
    MaxKeys = 4
    MaxAhead = 2
SPECIFICATION Spec
INVARIANTS
    EditorInBounds
    HistoryOnFile
CHECK_DEADLOCK FALSE
