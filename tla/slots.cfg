SPECIFICATION Spec
CONSTANTS
    N = 4
    M = 3
    Class <- MCClass
    Param <- MCParam
    NoClass = NoClass
    Unassigned = Unassigned
    Lattices <- MCLattices
INVARIANTS
    TypeOK
    NoSlotClash
    SlotInv
    EntriesInBounds
    UsedSlotsJustified
PROPERTIES
    ImplementsColouring
CHECK_DEADLOCK FALSE
