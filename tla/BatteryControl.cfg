SPECIFICATION LiveSpec
CONSTANTS
    SoCs <- MCSoCs
    Powers <- MCPowers
    LimitKnown = FALSE
    MaxRestarts = 1
    MaxLoad = 2
INVARIANTS
    TypeOk
    StashOnlyWhileWaiting
    WaitIsBacked
    LoopAlive
    SwitchesMatchState
PROPERTIES
    CommandedMatchesState
    ImplementsController
    StashDrains
    ControlGoesOn
CHECK_DEADLOCK FALSE
