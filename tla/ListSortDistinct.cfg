CONSTANTS
    Vals = {"null", "mz", "pz", "one"}
    MaxList = 3
    ReuseDistinct = FALSE
SPECIFICATION Spec
INVARIANTS
    TypeOK
    SortYieldsPermutation
    SortOrdersValues
    DistinctKeepsFirst
    ReplicaMatchesList
