SPECIFICATION Spec
CONSTANTS
    HealthRequests = {r1}
    MaxUnread = 1
INVARIANT BatteryMonitored
