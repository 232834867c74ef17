SPECIFICATION FairSpec
CONSTANTS
    Runs = {r1}
    Servers = {s1, s2}
    NoRun = NoRun
    NoServer = NoServer
    BrokenRuns = {}
    CancellableRuns = {}
    NodeCount = 1
    MaxStalledCount = 1
    MaxCrashes = 1
    MaxBlocks = 0
    MaxFaults = 0
PROPERTIES
    NoDroppedRun
CHECK_DEADLOCK FALSE
