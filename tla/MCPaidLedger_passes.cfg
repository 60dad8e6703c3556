SPECIFICATION Spec
CONSTANTS
    j1 = j1
    p1 = p1
    p2 = p2
    Jobs = {j1}
    Passes = {p1, p2}
    Requests = {}
    PerRequest = FALSE
    PassUsd = 2
    RequestUsd = 2
    Bills = {2}
    JobCap = 3
    RollingCap = 4
    Window = 4
    MaxCalls = 2
    MaxJobs = 1
    JobTtl = 1
    PaidTtl = 1
    Reports = {1}
    MaxTime = 2
    MaxGen = 2
    None = None
SYMMETRY Symmetry
INVARIANTS
    NoAncestorOverlap
PROPERTIES
    JobCapHeld
    ReconciledWithinReport
CHECK_DEADLOCK FALSE
