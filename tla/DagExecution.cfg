SPECIFICATION FairSpec
CONSTANTS
    Workflows <- AllGraphs
    MaxRetries = 2
    MaxFaults = 2
INVARIANTS
    TypeOK
    AbortBoundsWork
    OffBranchNeverRuns
    DeadBranchStaysDead
    VerdictMatchesSteps
PROPERTIES
    FailureStopsTheWorkflow
    InputsAreReady
    RunEnds
CHECK_DEADLOCK FALSE
