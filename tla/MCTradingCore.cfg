SPECIFICATION CoreSpec
CONSTANTS
    Qtys <- MCQtys
    Prices <- MCPrices
    LimitPrices <- MCLimitPrices
    Equity = 10
    DayLoss = 0
    StartRisks <- MCStartRisks
    ValidRisks <- MCValidRisks
    MaxSeq = 3
INVARIANTS
    TypeOK
    SettledOrders
    NoLeverage
    PositionLedger
PROPERTIES
    OverLimitFreezes
    ImplementsGate
