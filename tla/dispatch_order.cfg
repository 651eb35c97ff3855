SPECIFICATION Spec
CONSTANTS
    Instance = "pentagon"
    Class <- MCClass
    Methods <- MCMethods
    not_implemented = not_implemented
    ambiguous = ambiguous
    Null = Null
    crash = crash
INVARIANTS
    CallsDocumented
CHECK_DEADLOCK FALSE
