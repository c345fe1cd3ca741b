SPECIFICATION LiveSpec
CONSTANTS
    StartPowerThreshold = 1
    MaxRatePowerIncrease = 3
    PowerImportSafetyMargin = 1
    MaxImportPower = 10
    MaxCapacityWatt = 14
    Houses <- MCHouses
    PVs <- MCPVs
    Acceptances <- MCAcceptances
    MaxChanges = 3
INVARIANTS
    TypeOk
PROPERTIES
    GridLimit
    RateLimited
    Settles
CHECK_DEADLOCK FALSE
