CONSTANTS
    Nil = Nil
    k1 = k1
    k2 = k2
    Keys = {k1, k2}
    Vals <- SampleVals
    IncrByArgs <- IncrByEnds
    DecrByArgs <- DecrByMin
    Durations = {0, 1}
    IntBits = 3
    MaxPairs = 2
    MaxStrLen = 2
    MaxTime = 2
    MaxFaults = 0
SPECIFICATION Spec
PROPERTY
    IncrDecrByExact
