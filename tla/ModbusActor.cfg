SPECIFICATION LiveSpec
CONSTANTS
    Reads = {r1, r2}
    Sets = {s1, s2}
    Checks = {h1}
    None = None
    MaxStarts = 2
INVARIANTS
    OnePlace
    ResultAwaited
    DelayNotCutShort
    ReadsWaitForDelay
PROPERTIES
    SetsPromise
    AllAnswered
CHECK_DEADLOCK FALSE
