SPECIFICATION Spec
CONSTANTS
    Runs <- MCRuns
    MaxConcurrent = 1
    Deliverables = {"lesson"}
    Products <- MCProducts
    Policies <- MCPolicies
    MaxTime = 1
    CallsFail = TRUE
    MaxFaults = 1
INVARIANT SlotsWithinLimit
INVARIANT EndedHasResult
PROPERTY RetentionSparesLiveRuns
 
CHECK_DEADLOCK FALSE
