SPECIFICATION Spec
CONSTANTS
    N = 4
    Class <- MCClass
    Module = {"exe"}
    Param <- MCParam
    Programs <- ForkPrograms
    NoClass = NoClass
    Unassigned = Unassigned
    NoLattice = NoLattice
INVARIANTS
    NoSlotClash
CHECK_DEADLOCK FALSE
