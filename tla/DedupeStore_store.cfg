\* Four keys, two of them kept; the TTL is longer than the prune period.
CONSTANTS
    k1 = k1
    k2 = k2
    k3 = k3
    k4 = k4
    Key <- FourKeys
    Ttl = 3
    Max = 2
    PruneEvery = 1
    MaxTime = 6
SPECIFICATION Spec
INVARIANTS TypeOK HeldBound AnswerIsRight
PROPERTY ImplementsMemory
