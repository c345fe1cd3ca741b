SPECIFICATION Spec
CONSTANTS
    SoCs <- MCSoCs
    Powers <- MCPowers
    LimitKnown = FALSE
    MaxRestarts = 1
    MaxLoad = 2
INVARIANT HoldBlocksDischarge
CHECK_DEADLOCK FALSE
