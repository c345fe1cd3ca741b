SPECIFICATION LiveDiscovery
CONSTANTS
    NoMeter = NoMeter
    InverterDevices <- MCInverters
    MeterDevices <- MCMeters
INVARIANTS
    OneAnswerEach
    EveryEntityIsFed
    SurveyFindsBlocks
    BatteryAnnouncedRight
    CommandsUnderstood
PROPERTY AnnouncedInTheEnd
