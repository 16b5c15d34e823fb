SPECIFICATION GridSpec
CONSTANTS
    StartConfigs <- MCStartConfigs
    ApiConfigs <- MCApiConfigs
    Ticks <- MCTicks
    MaxRebuilds = 3
    MaxWorking = 3
INVARIANTS
    LevelsMirrorMarket
    EdgeNeverBought
    ExitsMatchHoldings
