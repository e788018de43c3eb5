SPECIFICATION Spec
CONSTANTS
    Nodes <- FanNodes
    Edges <- FanEdges
    Source <- FanSource
    Target <- FanTarget
    Entry <- InEntry
    Mergers <- Merge
    Routers <- Route
    Outputs <- FanOut
    Single = {}
    Required <- Out
    WaitKinds <- FanNone
    Workers = {w1}
    MaxAttempts = 2
    MaxActivations = 9
    MaxTotal = 9
    MaxPending = 9
    MaxRetries <- FanZero
    MaxReconciles <- FanOnce
    Timeout <- FanNever
    LeaseLen = 9
    Backoff = 1
    WaitTime = 1
    RunDeadline = 2
    Horizon = 2
    MaxEpoch = 1
    MaxCrashes = 0
INVARIANTS
    InterruptingDrains
