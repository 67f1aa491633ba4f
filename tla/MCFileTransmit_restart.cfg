SPECIFICATION Spec
CONSTANTS
    c1 = c1
    c2 = c2
    file = file
    Client = {c1}
    Path = {file}
    Byte <- MCByte
    TRANSMITSIZE = 2
    Faults = {"clientKill", "serverKill", "stray", "loseAck", "open", "write", "recv"}
    MaxQueue = 2
    Source <- MCEdits
    DstOf <- MCDst
    MaxRuns = 2
    MaxLen = 0
    MaxCount = 0
    OldContent <- MCNoOld
    MaxServerRuns = 2
INVARIANTS
    OffsetFaithful
    FirstRunNeverCrashes
CHECK_DEADLOCK FALSE
