SPECIFICATION Spec
CONSTANTS
    c1 = c1
    c2 = c2
    file = file
    Client = {c1, c2}
    Path = {file}
    Byte <- MCByte
    TRANSMITSIZE = 2
    Faults = {}
    MaxQueue = 0
    Source <- MCTwoSources
    DstOf <- MCDst
    MaxRuns = 1
    MaxLen = 0
    MaxCount = 0
    OldContent <- MCNoOld
    MaxServerRuns = 1
INVARIANTS
    DeliveredIfSuccess
CHECK_DEADLOCK FALSE
