SPECIFICATION Spec
CONSTANTS
    Programs <- MCPrograms
    Functions <- MCFunctions
    Texts <- MCTexts
    Lists <- MCLists
    Code = {0, 1}
    MaxCmds = 6
    MaxSignals = 1
INVARIANTS
    MatchesReference
    LocalsScoped
    ExitTrapOnce
CHECK_DEADLOCK FALSE
