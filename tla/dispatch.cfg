SPECIFICATION Spec
CONSTANTS
    Instance = "all"
    Class <- MCClass
    Methods <- MCMethods
    not_implemented = not_implemented
    ambiguous = ambiguous
    Null = Null
    crash = crash
INVARIANTS
    CallsDocumentedIfTransitive
    BestOverriderCalled
    NextDocumentedIfSimple
    NextChainsEnd
    N2216Documented
    CrashOnlyWithThree
    ReportFaithful
CHECK_DEADLOCK FALSE
