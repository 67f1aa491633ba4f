SPECIFICATION Spec
CONSTANTS
    c1 = c1
    c2 = c2
    file = file
    Client = {c1}
    Path = {file}
    Byte <- MCByte
    TRANSMITSIZE = 2
    Faults = {"serverKill"}
    MaxQueue = 0
    Source <- MCSource
    DstOf <- MCDst
    MaxRuns = 1
    MaxLen = 0
    MaxCount = 0
    OldContent <- MCOld
    MaxServerRuns = 2
INVARIANTS
    DeliveredIfSuccess
CHECK_DEADLOCK FALSE
