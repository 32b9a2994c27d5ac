CONSTANTS
    Origins = {1, 2}
    Targets = {1, 2, 3}
    MaxList = 2
SPECIFICATION Spec
INVARIANTS
    TypeOK
    BacklinksMatchLinks
    NoDanglingLinks
    ReplicaMatchesLinks
\* With every target removed and every link null nothing is left to do.
CHECK_DEADLOCK FALSE
