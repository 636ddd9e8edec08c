CONSTANTS
    Empty = Empty
    NoFile = NoFile
    Junk = Junk
    NoKey = NoKey
    Nil = Nil
    k1 = k1
    k2 = k2
    f1 = f1
    f2 = f2
    v1 = v1
    m1 = m1
    Keys = {k1, k2}
    Fields = {f1}
    Vals = {v1}
    Members = {m1}
    Scores = {1, 2}
    Increments = {1}
    MaxScore = 2
    MaxPairs = 2
    DefaultBlockSize = 36
    MaxFileId = 2
    MaxAppends = 4
    Faults = {"write"}
    TearAt = {0}
    MaxFaults = 1
SPECIFICATION Spec
PROPERTY
    IndexUntouchedOnFailedStore
