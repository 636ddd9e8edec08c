CONSTANTS
    Empty = Empty
    NoFile = NoFile
    Junk = Junk
    k1 = k1
    v1 = v1
    f1 = f1
    DefaultBlockSize = 36
    MaxFileId = 2
    MaxAppends = 4
    Faults = {"write", "open", "crash"}
    TearAt = {0, 8, 16}
    MaxFaults = 2
SPECIFICATION Spec
INVARIANT
    AckedBeforeFaultReplayed
