SPECIFICATION Spec
CONSTANTS
    A = A
    B = B
    C = C
    D = D
    fa = fa
    fb = fb
    fc = fc
    fd = fd
    Class <- MCClass
    Root = A
    Derived <- MCDerived
    Overrider <- MCOverrider
    ClassOf <- MCClassOf
    not_implemented = not_implemented
    ambiguous = ambiguous
    Garbage = Garbage
    MaxDepth = 2
SYMMETRY MCSymmetry
INVARIANTS
    ArgumentsAccepted
    NextAscends
    CallsCurrent
PROPERTIES
    UndefinedOnlyIfStale
CHECK_DEADLOCK FALSE
