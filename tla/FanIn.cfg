SPECIFICATION Spec
CONSTANTS
    Nodes <- FanNodes
    Edges <- FanEdges
    Source <- FanSource
    Target <- FanTarget
    Entry <- InEntry
    Mergers <- Merge
    Routers <- Route
    Outputs <- FanOut
    Single = {}
    Required <- Out
    WaitKinds <- FanNone
    Workers = {w1}
    MaxAttempts = 2
    MaxActivations = 6
    MaxTotal = 9
    MaxPending = 3
    MaxRetries <- FanZero
    MaxReconciles <- FanZero
    Timeout <- FanNever
    LeaseLen = 9
    Backoff = 1
    WaitTime = 1
    RunDeadline = 1
    Horizon = 0
    MaxEpoch = 0
    MaxCrashes = 0
INVARIANTS
    WorkGoesOn
    CompletedIsDrained
    CountersMatchProjection
PROPERTIES
    ImplementsDataflow
