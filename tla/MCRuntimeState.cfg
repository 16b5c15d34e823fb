SPECIFICATION StateSpec
CONSTANTS
    StartRisk <- MCStartRisk
    StartEnabled = TRUE
    RiskRequests <- MCRiskRequests
    MaxRequests = 3
    MaxRestarts = 2
INVARIANTS
    StateTypeOK
    CopiesAgree
    SavedStateCurrent
    NothingInvented
CHECK_DEADLOCK FALSE
