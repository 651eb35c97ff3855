SPECIFICATION SpecGlobals
CONSTANTS
    N = 4
    Class <- MCClass
    Param <- MCParam
    Module = {"exe"}
    Layouts <- GapLayouts
    Programs <- MCWellTyped
    NoClass = NoClass
    Unassigned = Unassigned
    NoLattice = NoLattice
    not_implemented = not_implemented
    ambiguous = ambiguous
    Null = Null
    Garbage = Garbage
INVARIANTS
    CallsRunDocumented
CHECK_DEADLOCK FALSE
