CONSTANTS
    MaxJobs = 2
    MaxProgress = 1
    MaxRevision = 2
    MaxRequests = 2
    MaxTroubles = 2
    ReadRetries = 1
SPECIFICATION Spec
INVARIANTS
    TypeOK
    OutcomeIsOfThisRun
    MessageIsOfOutcome
PROPERTIES
    NobodyWaitsForever
CHECK_DEADLOCK FALSE
