CONSTANTS
    Vals = {"null", "nan", "pz", "one"}
    MaxList = 3
    ReuseDistinct = FALSE
SPECIFICATION Spec
INVARIANT
    SortOrdersValues
