SPECIFICATION FairSpec
CONSTANTS
    Nodes <- PairNodes
    Edges <- PairEdges
    Source <- PairSource
    Target <- PairTarget
    Entry <- InEntry
    Mergers = {}
    Routers = {}
    Outputs <- Out
    Single <- Out
    Required <- Out
    WaitKinds <- PairWaits
    Workers = {w1}
    MaxAttempts = 4
    MaxActivations = 9
    MaxTotal = 9
    MaxPending = 9
    MaxRetries <- PairRetry
    MaxReconciles <- PairZero
    Timeout <- PairSlow
    LeaseLen = 9
    Backoff = 1
    WaitTime = 1
    RunDeadline = 4
    Horizon = 4
    MaxEpoch = 0
    MaxCrashes = 0
PROPERTIES
    RunEnds
CHECK_DEADLOCK FALSE
