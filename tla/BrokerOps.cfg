SPECIFICATION BrokerSpec
CONSTANTS
    r1 = r1
    r2 = r2
    Configs <- MCConfigs
    MaxReloads = 1
    Clients = {c1, c2}
    CommentKeys = {k1}
    Bodies = {t1, t2}
    Skew = 1
    Drift = 1
    Classes = {"x", "y"}
    Budget <- MCBudget
    MaxOps = 3
    MaxOpFaults = 1
    MaxHuman = 1
    MaxClock = 1
    Pushers = {g1}
    Refs = {r1, r2}
    Shas = {s1, s2}
    MaxUpdates = 2
    MaxPushes = 1
    MaxOutside = 1
    MaxGitFaults = 1
    Heads = {h1, h2}
    Apps = {"app1", "app2"}
    Definitions <- MCDefinitions
    Rules <- MCRules
    MaxEvents = 2
    MaxReads = 1
    LastCommit = 3
    Paths = {p}
    Blobs = {x, y}
    Limits <- MCLimits
    Scanners = {w1, w2}
    TripKeys = {i1, i2}
    Profiles = {f1, f2}
    Findings = {d1}
    Bindings = {b1, b2}
    HaltAllowed = {f1, f2}
    FenceAllowed = {f1}
    MaxResponds = 2
    MaxTripFaults = 1
SYMMETRY Symmetry
INVARIANTS
    OneCommentPerKey
    RecordNamesComment
    IssuesWithinBudget
    MovedWithinPolicy
    GuardedPushIsFresh
    SuccessWasGreen
    MaterialCoversPush
    FencedIsConfirmed
CHECK_DEADLOCK FALSE
