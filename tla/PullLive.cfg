SPECIFICATION LiveSpec
CONSTANTS
    Ops = {o1}
    MaxPulls = 2
    Consumers = {c1, c2}
    MaxBatch = 1
    ClaimTTL = 3
    Second = 2
    Callers = {a1}
    Digests = {d1}
    Guarded = FALSE
    MaxObjects = 0
    MaxCloses = 0
    MaxFaults = 2
    MaxCrashes = 1
PROPERTY PullIsDelivered
PROPERTY AckedIsFinal
PROPERTY LeaseKeptToTheSecond
