SPECIFICATION FairSpec
CONSTANTS
    a = a
    b = b
    d = d
    once = once
    goal = goal
    c1 = c1
    p1 = p1
    p2 = p2
    p3 = p3
    NoPid = NoPid
    NoUnit = NoUnit
    Unit <- OneUnit
    Conf <- LiveConf
    Pid = {p1, p2}
    BootUnits <- OneBoot
    Client = {c1}
    Request <- LiveRequest
    ExtTargets <- NoTimers
    Socket <- NoSocket
    HwWatchdog = TRUE
PROPERTIES
    DaemonizeResolvesIfFed
    WatchdogEnforcedIfFed
CHECK_DEADLOCK FALSE
