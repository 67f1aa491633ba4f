SPECIFICATION Spec
CONSTANTS
    c1 = c1
    c2 = c2
    file = file
    Client = {c1}
    Path = {file}
    Byte <- MCByte
    TRANSMITSIZE = 2
    Faults = {"loseFrame", "loseAck", "corrupt", "send", "recv", "read", "grow", "open", "write"}
    MaxQueue = 0
    Source <- MCSource
    DstOf <- MCDst
    MaxRuns = 1
    MaxLen = 4
    MaxCount = 1
    OldContent <- MCOld
    MaxServerRuns = 1
INVARIANTS
    TypeOK
    StopAndWait
    DeliveredIfSuccess
    CountsAgree
PROPERTIES
    RefinesFileCopy
CHECK_DEADLOCK FALSE
