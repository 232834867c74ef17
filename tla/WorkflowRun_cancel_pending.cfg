SPECIFICATION Spec
CONSTANTS
    Runs = {r1}
    Servers = {s1, s2}
    NoRun = NoRun
    NoServer = NoServer
    BrokenRuns = {}
    CancellableRuns = {r1}
    NodeCount = 1
    MaxStalledCount = 1
    MaxCrashes = 0
    MaxBlocks = 0
    MaxFaults = 0
INVARIANTS
    AcceptedCancelCancels
CHECK_DEADLOCK FALSE
