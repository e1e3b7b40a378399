SPECIFICATION LiveSpec
CONSTANTS
    Runs = {r1}
    Keys = {k1}
    Fps = {f1}
    Versions = {v1, v2}
    Callers = {c1}
    Boot = boot
    ClientOps = {"poll"}
    MaxConcurrent = 1
    MaxFaults = 0
    MaxCrashes = 1
    Mints = FALSE
PROPERTY EveryRunEnds
PROPERTY StartupSucceeds
INVARIANT TerminalResultAvailable
