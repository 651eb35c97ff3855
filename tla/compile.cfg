SPECIFICATION Spec
CONSTANTS
    N = 4
    Class <- MCClass
    Module = {"exe", "dll"}
    Param <- MCParam
    Programs <- MCPrograms
    NoClass = NoClass
    Unassigned = Unassigned
    NoLattice = NoLattice
INVARIANTS
    TypeOK
    WellFormedHandover
    UnknownClassDetected
    RelationsSound
    BasesExact
    DerivedComplete
    TypeIdsKept
CHECK_DEADLOCK FALSE
