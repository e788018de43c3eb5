SPECIFICATION FairSpec
CONSTANTS
    MaxAttempts = 3
    MaxModelCalls = 2
    MaxCounts = 2
    MaxRepairs = 1
    MaxTries = 2
    ModelClass = "idempotent"
    Batches <- AllBatches
    RetryTimeouts = FALSE
    Alone = TRUE
    LateExecutors = FALSE
    ProviderCounts = TRUE
    MaxEpoch = 0
INVARIANTS
    LedgerIsConsistent
    NoBlindRepeat
    NeverRefused
PROPERTIES
    LoopEnds
CHECK_DEADLOCK FALSE
