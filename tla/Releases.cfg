SPECIFICATION Spec
CONSTANTS
    d1 = d1
    d2 = d2
    d3 = d3
    t1 = t1
    t2 = t2
    t3 = t3
    linux = linux
    other = other
    AgentTypes = {t1, t2, t3}
    Digests = {d1, d2, d3}
    ImagePlatform <- MCPlatform
    Policy <- MCPolicy
    Publishers = {p1, p2}
    MaxGenerations = 3
    MaxRemovals = 1
    MaxRestarts = 1
    MaxFaults = 1
SYMMETRY Symmetry
INVARIANT OneActive
INVARIANT OnlyVerifiedRuns
INVARIANT ResolvedIsPresent
CHECK_DEADLOCK FALSE
