SPECIFICATION Spec
CONSTANTS
    Branches <- Pair
    Main = 1
    Scalars <- OneScalar
    Lists <- OneList
    Initial <- Empty
    Proposals <- Appends
    MaxCommits = 6
    MaxSnapshots = 0
INVARIANTS
    AppendOnce
\* Everything is done on a command; when the bounds are reached there is none left.
CHECK_DEADLOCK FALSE
