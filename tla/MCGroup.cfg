SPECIFICATION Spec
CONSTANTS
    a = a
    b = b
    d = d
    once = once
    goal = goal
    c1 = c1
    p1 = p1
    p2 = p2
    p3 = p3
    NoPid = NoPid
    NoUnit = NoUnit
    Unit <- GroupUnit
    Conf <- GroupConf
    Pid = {p1, p2, p3}
    BootUnits <- GroupBoot
    Client = {c1}
    Request <- GroupRequest
    ExtTargets <- NoTimers
    Socket <- NoSocket
    HwWatchdog = FALSE
SYMMETRY Symmetry
INVARIANTS
    IsolateLeavesOnlyTarget
PROPERTIES
    FirstStartStopsConflicts
CHECK_DEADLOCK FALSE
