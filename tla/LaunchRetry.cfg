SPECIFICATION Spec
CONSTANTS
    Runs = {r1, r2}
    Keys = {k1}
    Fps = {f1, f2}
    Versions = {v1}
    Callers = {c1, c2}
    Boot = boot
    ClientOps = {"stop", "cleanup"}
    MaxConcurrent = 1
    MaxFaults = 1
    MaxCrashes = 1
    Mints = FALSE
INVARIANT TypeOK
INVARIANT NoSpuriousStartupFailure
INVARIANT RunningIsWatched
INVARIANT StartedOnce
PROPERTY KeepsContract
PROPERTY TerminalIntentStays
SYMMETRY Symmetry
