SPECIFICATION Spec
CONSTANTS
    N = 4
    MaxBases = 3
    Class <- MCClass
    Null = Null
    Programs <- MCPrograms
INVARIANTS
    PointersFollowConstruction
CHECK_DEADLOCK FALSE
