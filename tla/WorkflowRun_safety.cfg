SPECIFICATION Spec
CONSTANTS
    Runs = {r1, r2}
    Servers = {s1, s2}
    NoRun = NoRun
    NoServer = NoServer
    BrokenRuns = {r2}
    CancellableRuns = {r1}
    NodeCount = 2
    MaxStalledCount = 1
    MaxCrashes = 1
    MaxBlocks = 1
    MaxFaults = 2
INVARIANTS
    TypeOK
    NodesRunAtMostOnce
    SuccessWasExecuted
    CompletedJobLeavesFinishedRun
    TimelyAbortDecides
PROPERTIES
    UndisturbedRunLivesOnce
SYMMETRY ServerSymmetry
CHECK_DEADLOCK FALSE
