CONSTANTS
    N = 3
    K = 2
SPECIFICATION Spec
INVARIANT TypeOK
INVARIANT KnownRangeExact
INVARIANT FindFirstLocalSound
INVARIANT FindFirstIsFirstCommon
PROPERTY ConjunctionRefinesFindFirst
