CONSTANTS
    Chars = {"a"}
    Digits = {"0", "1", "2"}
    L = 5
    MaxValues = 2
    W = 16
SPECIFICATION Spec
\* format returns or aborts on its REALM_ASSERTs; either way the call ends.
CHECK_DEADLOCK FALSE
INVARIANTS
    TypeOK
    FormatMatchesReference
