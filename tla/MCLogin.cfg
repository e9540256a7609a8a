SPECIFICATION FairSpec
CONSTANTS
    Line <- MCLine
    PasswdFile <- MCPasswd
    ShadowFile <- MCShadow
    IdleTimes = {0, 2}
    PasswordTimeout = 2
    MAX_PASSWORD_LEN = 2
    MAX_USERNAME_LEN = 2
    MaxFds = 3
    MaxTyped = 4
INVARIANTS
    ShellRunsAsUser
PROPERTIES
    PromptIsClean
    ImplementsTerminal
    SessionEnds
CHECK_DEADLOCK FALSE
