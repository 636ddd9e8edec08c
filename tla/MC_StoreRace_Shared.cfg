CONSTANTS
    Empty = Empty
    NoFile = NoFile
    Junk = Junk
    k1 = k1
    k2 = k2
    v1 = v1
    f1 = f1
    hashW = hashW
    zsetW = zsetW
    Procs = {hashW, zsetW}
    Work <- SharedWork
    DefaultBlockSize = 36
    MaxFileId = 2
SPECIFICATION Spec
INVARIANT AckedStoresReplayed
