CONSTANTS
    N = 4
    K = 2
    MaxLocal = 2
    Limit = 2
SPECIFICATION Spec
INVARIANT TypeOK
INVARIANT ReportsFirstCommonRows
PROPERTY ScanTerminates
CHECK_DEADLOCK FALSE
