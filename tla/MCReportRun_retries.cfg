CONSTANTS
    MaxGen = 2
    MaxLosses = 2
    Prints = {x, y}
    Retries = 0
    Tries = 2
    None = None
SYMMETRY Symmetry
SPECIFICATION Spec
INVARIANTS
    TypeOK
    TerminalStepsSettled
    ReportFromOneCohort
    AcceptedRetryHasPlan
PROPERTIES
    NothingPaidTwice
    OutcomeStands
CHECK_DEADLOCK FALSE
