SPECIFICATION LiveSpec
CONSTANTS
    HealthRequests = {r1}
    MaxUnread = 2
INVARIANTS
    OneTickLoop
    WaitIsBacked
PROPERTIES
    AllAnswered
    StatesPolled
