SPECIFICATION Spec
CONSTANTS
    a = a
    b = b
    d = d
    once = once
    goal = goal
    c1 = c1
    p1 = p1
    p2 = p2
    p3 = p3
    NoPid = NoPid
    NoUnit = NoUnit
    Unit <- OneUnit
    Conf <- OneConf
    Pid = {p1, p2}
    BootUnits <- OneBoot
    Client = {}
    Request <- NoRequests
    ExtTargets <- NoTimers
    Socket <- NoSocket
    HwWatchdog = FALSE
INVARIANTS
    AlwaysRestarts
CHECK_DEADLOCK FALSE
