\* initialListSeq is math.MaxUint32 / 2 in the code: (2^SeqBits - 1) \div 2 here
CONSTANTS
    Nil = Nil
    NoTree = NoTree
    k1 = k1
    k2 = k2
    v1 = v1
    v2 = v2
    r1 = r1
    r2 = r2
    Keys = {k1, k2}
    Vals = {v1, v2}
    Readers = {r1}
    SeqBits = 2
    InitialListSeq = 1
    MaxPush = 2
    MaxLen = 2
    MaxOps = 6
    MaxFaults = 0
SPECIFICATION Spec
INVARIANT TypeOK
PROPERTY
    RefinesKeyedDeque
