SPECIFICATION FairSpec
CONSTANTS
    a = a
    b = b
    d = d
    once = once
    goal = goal
    c1 = c1
    p1 = p1
    p2 = p2
    p3 = p3
    NoPid = NoPid
    NoUnit = NoUnit
    Unit <- OneUnit
    Conf <- ForkConf
    Pid = {p1, p2}
    BootUnits <- OneBoot
    Client = {c1}
    Request <- ForkRequest
    ExtTargets <- NoTimers
    Socket <- NoSocket
    HwWatchdog = FALSE
PROPERTIES
    ZombiesCollected
    ShutdownCompletes
    RequestServed
    RestartHappens
CHECK_DEADLOCK FALSE
