SPECIFICATION Spec
CONSTANTS
    Nodes <- PairNodes
    Edges <- PairEdges
    Source <- PairSource
    Target <- PairTarget
    Entry <- InEntry
    Mergers = {}
    Routers = {}
    Outputs <- Out
    Single <- Out
    Required <- Out
    WaitKinds <- PairWaits
    Workers = {w1}
    MaxAttempts = 3
    MaxActivations = 9
    MaxTotal = 9
    MaxPending = 9
    MaxRetries <- PairZero
    MaxReconciles <- PairZero
    Timeout <- PairNever
    LeaseLen = 9
    Backoff = 1
    WaitTime = 1
    RunDeadline = 2
    Horizon = 2
    MaxEpoch = 2
    MaxCrashes = 0
INVARIANTS
    ProjectionIsSound
CHECK_DEADLOCK FALSE
