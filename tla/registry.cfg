SPECIFICATION SpecPtrs
CONSTANTS
    A = A
    B = B
    a1 = a1
    a2 = a2
    b1 = b1
    Null = Null
    Node <- MCNode
    Class <- MCClass
    ClassOf <- MCClassOf
    TypeOf <- MCTypeOf
    Stranger <- MCStranger
    Multipliers <- MCMultipliers
    Configs <- MCConfigs
    p = p
    q = q
    Ptr <- MCPtr
    Object <- MCObject
    Width = 6
    NoType = 63
    MaxAttempts = 1
    MaxEpoch = 2
INVARIANTS
    PtrsTypeOK
    LookupsCurrent
    UnknownReported
    LookupsInBounds
    IndirectStaysValid
    HeapOwned
    SoleOwner
PROPERTIES
    ImplementsCatalogue
    InitializeEnds
    ValidUntilInitialize
CHECK_DEADLOCK FALSE
