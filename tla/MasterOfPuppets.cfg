SPECIFICATION LiveSpec
CONSTANTS
    Actors = {modbus, mqtt}
    HealthRequests = {h1, h2}
    Commands = {c1}
    Valid = {c1}
    MaxRestarts = 1
    None = None
INVARIANTS
    VerdictTrueUnlessCutShort
PROPERTIES
    Promise
    AllServed
    TerminationNoticed
CHECK_DEADLOCK FALSE
