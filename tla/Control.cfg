SPECIFICATION FairSpec
CONSTANTS
    Nodes <- PairNodes
    Edges <- PairEdges
    Source <- PairSource
    Target <- PairTarget
    Entry <- InEntry
    Mergers = {}
    Routers = {}
    Outputs <- Out
    Single <- Out
    Required <- Out
    WaitKinds <- PairNone
    Workers = {w1}
    MaxAttempts = 3
    MaxActivations = 9
    MaxTotal = 9
    MaxPending = 9
    MaxRetries <- PairRetry
    MaxReconciles <- PairZero
    Timeout <- PairSlow
    LeaseLen = 1
    Backoff = 1
    WaitTime = 1
    RunDeadline = 3
    Horizon = 3
    MaxEpoch = 2
    MaxCrashes = 1
INVARIANTS
    HeldIsFenced
    InterruptingDrains
PROPERTIES
    HaltedStartsNothing
    RunEnds
