SPECIFICATION FairSpec
CONSTANTS
    MAXFD = 7
    MaxPopen = 3
    PipeCap = 1
    Faults = {"fork", "fdopen", "sigpipeIgnored", "reaped"}
INVARIANTS
    TypeOK
    Tracked
    OwnPipeOnly
PROPERTIES
    PcloseReturns
CHECK_DEADLOCK FALSE
