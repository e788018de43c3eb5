SPECIFICATION Spec
CONSTANTS
    Nodes <- PairNodes
    Edges <- PairEdges
    Source <- PairSource
    Target <- PairTarget
    Entry <- InEntry
    Mergers = {}
    Routers = {}
    Outputs <- Out
    Single <- Out
    Required <- Out
    WaitKinds <- PairNone
    Workers = {w1}
    MaxAttempts = 3
    MaxActivations = 9
    MaxTotal = 9
    MaxPending = 9
    MaxRetries <- PairZero
    MaxReconciles <- PairZero
    Timeout <- PairNever
    LeaseLen = 1
    Backoff = 1
    WaitTime = 1
    RunDeadline = 9
    Horizon = 2
    MaxEpoch = 0
    MaxCrashes = 1
INVARIANTS
    NoStalledRun
