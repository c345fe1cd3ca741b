SPECIFICATION SystemLiveSpec
CONSTANTS
    Controls <- MCControls
    Release <- MCRelease
    NoSet <- MCNoSet
    Capacity = 100
    Steps = 1
    Inexact <- MCInexact
    ControlIntervalMillis = 20000
    MaxAsked = 2
    MaxZombies = 1
INVARIANTS
    QuietMeansFollowed
PROPERTIES
    ChargedOnlyWhenAsked
    InverterFollows
    IdleFreesBattery
CHECK_DEADLOCK FALSE
