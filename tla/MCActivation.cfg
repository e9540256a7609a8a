SPECIFICATION Spec
CONSTANTS
    a = a
    b = b
    d = d
    once = once
    goal = goal
    c1 = c1
    p1 = p1
    p2 = p2
    p3 = p3
    NoPid = NoPid
    NoUnit = NoUnit
    Unit <- ActivationUnit
    Conf <- ActivationConf
    Pid = {p1, p2}
    BootUnits <- NoBoot
    Client = {c1}
    Request <- ActivationRequest
    ExtTargets <- ActivationTimers
    Socket <- BothSockets
    HwWatchdog = FALSE
SYMMETRY Symmetry2
CONSTRAINT TwoInstances
INVARIANTS
    LoneRunsOnce
    ChildIsOurs
CHECK_DEADLOCK FALSE
