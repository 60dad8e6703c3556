CONSTANTS
    Procs = {a, b}
    Ops = {x, y}
    None = None
    MaxTokens = 2
    MaxHomes = 1
    MaxCrashes = 1
SYMMETRY Symmetry
SPECIFICATION Spec
INVARIANTS
    TypeOK
    TokenIsCurrent
    KeyKept
    OneRuntime
    ChildHasProfile
PROPERTIES
    OvertakenSignInStoresNothing
CHECK_DEADLOCK TRUE
