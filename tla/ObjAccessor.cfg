CONSTANTS
    Accessors = {a1, a2}
    W = 2
    NullInt = NullInt
    Null = Null
    Y = Y
    MaxAddr = 3
SPECIFICATION Spec
INVARIANTS
    TypeOK
    IndexMatchesValue
    ReadsAreCurrent
    ReplicaMatchesObj
PROPERTY
    ObjRefinesAbstract
