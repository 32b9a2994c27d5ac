CONSTANTS
    Hops = 2
    Objs = {1, 2}
    MaxList = 2
SPECIFICATION Spec
INVARIANTS
    TypeOK
    EvaluateYieldsAllPaths
    OriginsInvertTraversal
