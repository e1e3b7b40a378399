SPECIFICATION Spec
CONSTANTS
    Ops = {o1, o2}
    MaxPulls = 3
    Consumers = {}
    MaxBatch = 1
    ClaimTTL = 1
    Second = 1
    Callers = {a1, a2}
    Digests = {d1, d2}
    Guarded = TRUE
    MaxObjects = 4
    MaxCloses = 1
    MaxFaults = 1
    MaxCrashes = 1
SYMMETRY Symmetry
INVARIANT TypeOK
INVARIANT OneOpenPullPerOperation
INVARIANT CorrelatesOwnPull
PROPERTY KeepsContract
