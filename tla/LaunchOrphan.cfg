SPECIFICATION Spec
CONSTANTS
    Runs <- MCRuns
    MaxConcurrent = 1
    Deliverables = {"lesson"}
    Products <- MCProducts
    Policies <- MCPolicies
    MaxTime = 1
    CallsFail = FALSE
    MaxFaults = 1
CHECK_DEADLOCK FALSE
INVARIANT OrphansReconciled
