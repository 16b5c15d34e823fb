SPECIFICATION LifeSpec
INVARIANTS
    JoinedInOrder
    OneLateTick
PROPERTIES
    FeedsGoOn
    ShutdownReturns
CHECK_DEADLOCK FALSE
