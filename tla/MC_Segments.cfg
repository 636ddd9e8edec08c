CONSTANTS
    Empty = Empty
    NoFile = NoFile
    Junk = Junk
    k1 = k1
    v1 = v1
    f1 = f1
    DefaultBlockSize = 36
    MaxFileId = 3
    MaxAppends = 5
    Faults = {}
    TearAt = {}
    MaxFaults = 0
SPECIFICATION Spec
INVARIANTS
    TypeOK
    ReplayIsHistory
    ScanReadsWholeEntries
