SPECIFICATION FairSpec
CONSTANTS
    Runs = {r1}
    Servers = {s1, s2}
    NoRun = NoRun
    NoServer = NoServer
    BrokenRuns = {}
    CancellableRuns = {r1}
    NodeCount = 2
    MaxStalledCount = 1
    MaxCrashes = 1
    MaxBlocks = 1
    MaxFaults = 1
PROPERTIES
    JobSettles
    EnqueuedRunEnds
CHECK_DEADLOCK FALSE
