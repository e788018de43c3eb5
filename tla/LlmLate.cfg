SPECIFICATION Spec
CONSTANTS
    MaxAttempts = 3
    MaxModelCalls = 1
    MaxCounts = 1
    MaxRepairs = 0
    MaxTries = 2
    ModelClass = "idempotent"
    Batches <- WriterOrSearch
    RetryTimeouts = TRUE
    Alone = FALSE
    LateExecutors = TRUE
    ProviderCounts = FALSE
    MaxEpoch = 2
PROPERTIES
    OnlyOwnersSend
CHECK_DEADLOCK FALSE
