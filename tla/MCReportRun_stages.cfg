CONSTANTS
    MaxGen = 1
    MaxLosses = 1
    Prints = {x}
    Retries = 1
    Tries = 2
    None = None
SPECIFICATION LiveSpec
PROPERTIES
    Concludes
CHECK_DEADLOCK FALSE
