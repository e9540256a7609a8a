SPECIFICATION FairSpec
CONSTANTS
    Prefix <- MCPrefix
    Inst <- MCInst
    NoName = NoName
    NoInst = "-"
    Root <- MCRoot
    Trees <- MCTrees
    TermStops = TRUE
INVARIANTS
    OrderTopological
    DepsSettledAtStart
    TargetMeansRequired
    RescueStopsServices
PROPERTIES
    BootEnds
    
CHECK_DEADLOCK FALSE
