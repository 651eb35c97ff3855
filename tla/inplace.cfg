SPECIFICATION Spec
CONSTANTS
    N = 5
    MaxBases = 3
    Class <- MCClass
    Null = Null
    Programs <- MCPrograms
INVARIANTS
    PointersFollowConstructionUpToTwo
    BodiesSeeTheirClass
CHECK_DEADLOCK FALSE
