SPECIFICATION LiveSpec
CONSTANTS
    pA = pA
    pB = pB
    j1 = j1
    Procs = {pA, pB}
    Jobs = {j1}
    MaxJobs = 1
    MaxGen = 1
    MaxCrashes = 1
    MaxFaults = 1
    None = None
INVARIANTS
    TypeOK
    Attended
PROPERTIES
    FailedClaimEndsNoOther
    Served
    Recovered
CHECK_DEADLOCK FALSE
