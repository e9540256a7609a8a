CONSTANTS
    Files <- FileNames
    Home <- HomeDir
    Width = 15
    Output <- OutputOf
    MaxFd = 20
    Unreadable <- UnreadableNames
    Failing <- FailingNames
    Cases <- AllCases
SPECIFICATION Spec
INVARIANTS
    WordsAsQuoted
    LinesAsTyped
    
    RedirectsUndone
CHECK_DEADLOCK FALSE
