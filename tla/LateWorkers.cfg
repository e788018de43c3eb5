SPECIFICATION Spec
CONSTANTS
    Nodes <- VeeNodes
    Edges <- VeeEdges
    Source <- VeeSource
    Target <- VeeTarget
    Entry <- VeeEntry
    Mergers = {}
    Routers = {}
    Outputs <- Out
    Single <- Out
    Required <- Out
    WaitKinds <- VeeNone
    Workers = {w1, w2}
    MaxAttempts = 3
    MaxActivations = 9
    MaxTotal = 9
    MaxPending = 9
    MaxRetries <- VeeZero
    MaxReconciles <- VeeZero
    Timeout <- VeeNever
    LeaseLen = 1
    Backoff = 1
    WaitTime = 1
    RunDeadline = 2
    Horizon = 2
    MaxEpoch = 0
    MaxCrashes = 0
INVARIANTS
    OneOwner
PROPERTIES
    TerminalIsFinal
    ImplementsDataflow
