SPECIFICATION FairSpec
CONSTANTS
    Expands <- LeftRight
    Joins <- Join
    Aggregators <- Collect1
    Edges <- JoinEdges
    Source <- JoinSource
    Target <- JoinTarget
    Entry <- FirstTwo
    Items <- Keys
    BadItems <- Bad
    Refused <- Odd
    Arrays <- JoinArrays
    MaxItems = 2
    Count = 2
    MaxBuffered = 4
    MaxOpenKeys = 2
    MaxPerKeyPort = 2
    MaxPending = 5
    MaxTotal = 9
    MaxActivations = 7
    MaxAttempts = 1
    Workers = 1
    MaxDisturbances = 1
INVARIANTS
    RowsAreConsistent
    JoinPairsInOrder
    WindowsPartitionTheQueue
    NothingReadyIsStranded
PROPERTIES
    WindowsClose
CHECK_DEADLOCK FALSE
