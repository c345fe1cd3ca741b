SPECIFICATION Spec
CONSTANTS
    Actors = {modbus, mqtt, powerflow}
    HealthRequests = {h1, h2, h3}
    Commands = {}
    Valid = {}
    MaxRestarts = 0
    None = None
INVARIANT SilentActorIsUnhealthy
CHECK_DEADLOCK FALSE
