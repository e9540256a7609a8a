SPECIFICATION FairSpec
CONSTANTS
    Pid = {1, 2, 3}
    Code = {0, 3}
    MaxCmds = 2
    MaxEvents = 4
    PidReuse = FALSE
    Pipefail = TRUE
INVARIANTS
    JobStateAccurate
    PipelineStatus
    WaitStatus
    QueueInOrder
PROPERTIES
    WaitEnds
CHECK_DEADLOCK FALSE
