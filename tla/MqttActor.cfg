SPECIFICATION LiveSpec
CONSTANTS
    Asks = {a1}
    None = None
    MaxStarts = 3
    MaxLoad = 3
INVARIANTS
    WaitIsBacked
PROPERTIES
    Promise
    ConnectionReplaced
CHECK_DEADLOCK FALSE
