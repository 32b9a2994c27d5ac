CONSTANT Layout <- MCLayout
SPECIFICATION Spec
INVARIANT TypeOK
INVARIANT IndexedFindFirstExact
