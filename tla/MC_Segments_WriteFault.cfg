CONSTANTS
    Empty = Empty
    NoFile = NoFile
    Junk = Junk
    k1 = k1
    v1 = v1
    f1 = f1
    DefaultBlockSize = 36
    MaxFileId = 3
    MaxAppends = 5
    Faults = {"write", "crash"}
    TearAt = {0, 8}
    MaxFaults = 1
SPECIFICATION Spec
INVARIANT
    ReplayIsHistory
