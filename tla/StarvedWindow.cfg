SPECIFICATION Spec
CONSTANTS
    Expands <- Left
    Joins <- None0
    Aggregators <- Collect1
    Edges <- FeedEdges
    Source <- FeedSource
    Target <- FeedTarget
    Entry <- First
    Items <- Keys
    BadItems <- Bad
    Refused <- Odd
    Arrays <- FeedArrays
    MaxItems = 2
    Count = 2
    MaxBuffered = 4
    MaxOpenKeys = 2
    MaxPerKeyPort = 2
    MaxPending = 5
    MaxTotal = 9
    MaxActivations = 7
    MaxAttempts = 1
    Workers = 1
    MaxDisturbances = 0
INVARIANTS
    OpenWindowIsFed
CHECK_DEADLOCK FALSE
