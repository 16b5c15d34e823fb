SPECIFICATION ClientSpec
CONSTANTS
    Typed <- MCTyped
    FormDefault = 80000000
    StartRatio = 2005
    MaxRows = 2
    MaxInFlight = 2
    MaxInputs = 3
INVARIANTS
    ClientTypeOK
    FormNeverJunk
    OrdersConfirmed
PROPERTIES
    FormConverges
    BannerClears
CHECK_DEADLOCK FALSE
