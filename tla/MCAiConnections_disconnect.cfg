CONSTANTS
    Procs = {a}
    Ops = {x, y}
    None = None
    MaxTokens = 2
    MaxHomes = 0
    MaxCrashes = 0
SYMMETRY Symmetry
SPECIFICATION Spec
INVARIANTS
    DisconnectStopsRequests
CHECK_DEADLOCK TRUE
