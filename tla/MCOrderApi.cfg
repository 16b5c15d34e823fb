SPECIFICATION ApiSpec
CONSTANTS
    Qtys <- MCQtys
    Prices <- MCPrices
    LimitPrices <- MCLimitPrices
    Equity = 6
    DayLoss = 0
    StartRisks <- MCStartRisks
    ValidRisks <- MCValidRisks
    MaxSeq = 3
    MaxOrders = 2
    TrimBatches = {2, 3}
    DryRun = FALSE
    QtyUnit = 2
    PriceUnit = 1
    MaxRestarts = 1
    CrashBy = 1
INVARIANTS
    GatedExchange
    ExposureCovered
    CacheWindow
