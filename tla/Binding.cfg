CONSTANTS
    Threads = {t1, t2}
    Search <- MCSearch
    BuildPlace = "out"
    Installed <- MCInstalled
    MaxItems = 1
    None = None

SPECIFICATION Spec
CHECK_DEADLOCK FALSE

INVARIANTS
    TypeOK
    DeclaredWhenUsed
    ReadyWhenUsed
    HandlesGivenUp
    Balanced

PROPERTIES
    InitialisesAtFirst
    Recovers
