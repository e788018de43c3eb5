SPECIFICATION Spec
CONSTANTS
    Nodes <- ChainNodes
    Edges <- ChainEdges
    Source <- ChainSource
    Target <- ChainTarget
    Entry <- InEntry
    Mergers = {}
    Routers <- Route
    Outputs <- Out
    Single <- Out
    Required <- Out
    WaitKinds <- ChainNone
    Workers = {w1}
    MaxAttempts = 3
    MaxActivations = 9
    MaxTotal = 9
    MaxPending = 9
    MaxRetries <- ChainRetry
    MaxReconciles <- ChainOnce
    Timeout <- ChainSlow
    LeaseLen = 1
    Backoff = 1
    WaitTime = 1
    RunDeadline = 4
    Horizon = 4
    MaxEpoch = 0
    MaxCrashes = 2
INVARIANTS
    Inv
    NoLostWork
