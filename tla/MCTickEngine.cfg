SPECIFICATION EngineSpec
CONSTANTS
    ws = ws
    rest = rest
    control = control
    Feeds <- MCFeeds
    Control = control
    Prices <- MCPrices
    Config <- MCConfig
    NextConfig <- MCNextConfig
    MaxEvents = 2
    MaxRebuilds = 3
INVARIANTS
    EngineTypeOK
    LateIntents
    IntentsInOrder
PROPERTIES
    HandlersFinish
