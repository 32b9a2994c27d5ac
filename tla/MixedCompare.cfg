CONSTANTS
    IntBits = 2
    ByteVals = {0, 1, 2}
    MaxBinary = 2
SPECIFICATION Spec
INVARIANTS
    TypeOK
    CompareIsTotalPreorder
    CompareMatchesDesign
