SPECIFICATION ContextsSpec
CONSTANTS
    Branches <- Triple
    Main = 1
    Scalars <- OneScalar
    Lists <- OneList
    Initial <- Empty
    Proposals <- Submitted
    MaxCommits = 5
    MaxSnapshots = 1
    Places = {"a", "b"}
    Else = "somebody else"
    Records = {"m"}
    MaxAttempts = 3
    MaxReadReconciles = 1
    MaxEdits = 1
    MaxChanges = 2
INVARIANTS
    HeadsReplay
    StaleWritesRefused
    MergesKeepBothSides
PROPERTIES
    ResultsRestOnReads
\* Everything is done on a command; when the bounds are reached there is none left.
CHECK_DEADLOCK FALSE
