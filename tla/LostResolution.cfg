SPECIFICATION Spec
CONSTANTS
    MaxAttempts = 3
    MaxModelCalls = 2
    MaxCounts = 1
    MaxRepairs = 0
    MaxTries = 2
    ModelClass = "idempotent"
    Batches <- OneWriter
    RetryTimeouts = FALSE
    Alone = FALSE
    LateExecutors = FALSE
    ProviderCounts = FALSE
    MaxEpoch = 0
INVARIANTS
    ReadyIsWoken
CHECK_DEADLOCK FALSE
