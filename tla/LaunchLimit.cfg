SPECIFICATION Spec
CONSTANTS
    Runs = {r1, r2}
    Keys = {k1, k2}
    Fps = {f1}
    Versions = {v1, v2}
    Callers = {c1}
    Boot = boot
    ClientOps = {}
    MaxConcurrent = 1
    MaxFaults = 0
    MaxCrashes = 1
    Mints = FALSE
SYMMETRY Symmetry
INVARIANT WorkersWithinLimit
PROPERTY KeepsContract
