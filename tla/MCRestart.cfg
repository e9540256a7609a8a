SPECIFICATION Spec
CONSTANTS
    a = a
    b = b
    d = d
    once = once
    goal = goal
    c1 = c1
    p1 = p1
    p2 = p2
    p3 = p3
    NoPid = NoPid
    NoUnit = NoUnit
    Unit <- RestartUnit
    Conf <- RestartConf
    Pid = {p1, p2, p3}
    BootUnits <- RestartBoot
    Client = {c1}
    Request <- RestartRequest
    ExtTargets <- NoTimers
    Socket <- NoSocket
    HwWatchdog = FALSE
SYMMETRY Symmetry
INVARIANTS
    NoLostWakeup
    RunningHasNoRestartPending
    RestartWithinBurst
    StoppedUnitsAreDown
PROPERTIES
    OnlyStartRevives
    MainLeavesStoppedAlone
CHECK_DEADLOCK FALSE
