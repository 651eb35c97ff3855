SPECIFICATION Spec
CONSTANTS
    Instance = "diamond"
    Class <- MCClass
    Methods <- MCMethods
    not_implemented = not_implemented
    ambiguous = ambiguous
    Null = Null
    crash = crash
INVARIANTS
    NextDocumented
CHECK_DEADLOCK FALSE
