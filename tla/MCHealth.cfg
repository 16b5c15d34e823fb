SPECIFICATION HealthSpec
CONSTANTS
    Feeds <- MCFeeds
    Threshold = 4
    CheckTimeout = 3
    MaxDelay = 2
    MaxShift = 1
    Wrap = 32
PROPERTIES
    HealthyMeansRecent
    AlarmsExplained
    TroubleReported
