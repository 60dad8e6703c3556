CONSTANTS
    MaxGen = 1
    MaxLosses = 0
    Prints = {x}
    Retries = 0
    Tries = 1
    None = None
SPECIFICATION Spec
INVARIANTS
    RetryEndsWithItsOwnReport
CHECK_DEADLOCK FALSE
