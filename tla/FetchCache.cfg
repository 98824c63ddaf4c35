CONSTANTS
    p1 = p1
    p2 = p2
    None = None
    Empty = Empty
    Procs <- TwoProcs
    TTL = 1
    Latency = 1
    MaxTime = 3
    MaxVersion = 1
    MaxBack = 1
SPECIFICATION Spec
INVARIANT
    CacheNeverFails
PROPERTIES
    FreshIsYoung
    AsksAgain
SYMMETRY ProcSymmetry
