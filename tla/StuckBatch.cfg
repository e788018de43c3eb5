SPECIFICATION Spec
CONSTANTS
    MaxAttempts = 3
    MaxModelCalls = 2
    MaxCounts = 1
    MaxRepairs = 0
    MaxTries = 2
    ModelClass = "idempotent"
    Batches <- MixedBatches
    RetryTimeouts = FALSE
    Alone = TRUE
    LateExecutors = FALSE
    ProviderCounts = FALSE
    MaxEpoch = 0
INVARIANTS
    BatchResumes
CHECK_DEADLOCK FALSE
