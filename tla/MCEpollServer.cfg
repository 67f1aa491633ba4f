SPECIFICATION FairSpec
CONSTANTS
    p = p
    r1 = r1
    r2 = r2
    Conn = {p, r1, r2}
    Polite = {p}
    LISTEN = LISTEN
    MAXEPOLL = 4
    MAXLINE = 2
    MAXBACK = 2
    ProcFds = 2
    SockBuf = 2
    MaxSend <- SendBound
    Faults = TRUE
INVARIANTS
    TypeOK
    Accounting
    LimitNeverReached
    EventsAreReal
    EchoConserved
PROPERTIES
    PoliteIsServed
    PoliteIsFreed
CHECK_DEADLOCK FALSE
