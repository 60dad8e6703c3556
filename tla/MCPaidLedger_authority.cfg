SPECIFICATION Spec
CONSTANTS
    j1 = j1
    p1 = p1
    r1 = r1
    r2 = r2
    Jobs = {j1}
    Passes = {p1}
    Requests = {r1, r2}
    PerRequest = TRUE
    PassUsd = 2
    RequestUsd = 2
    Bills = {1, 2}
    JobCap = 4
    RollingCap = 4
    Window = 4
    MaxCalls = 1
    MaxJobs = 1
    JobTtl = 2
    PaidTtl = 2
    Reports = {}
    MaxTime = 4
    MaxGen = 1
    None = None
INVARIANT
    AuthorityKept
CHECK_DEADLOCK FALSE
