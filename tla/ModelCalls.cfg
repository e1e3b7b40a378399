SPECIFICATION Spec
CONSTANTS
    Handles = {h1}
    Runs = {r1, r2}
    Models = {m1, m2}
    Policies <- MCPolicies
    MaxTime = 2
    Handlers = {p1, p2}
    CodexModels = {m1}
    DefaultOut = 1
    Sizes = {0, 1}
    Outs = {0, 1, 2, 3}
    MaxInt = 3
    MaxCallsPerRun = 2
    MaxTokensPerRun = 3
    MaxUsage = 2
    MaxRequests = 3
    MaxFaults = 1
SYMMETRY Symmetry
INVARIANT LegacyWithinBudget
PROPERTY KeepsBudget
CHECK_DEADLOCK FALSE
