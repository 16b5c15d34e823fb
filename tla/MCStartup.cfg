SPECIFICATION StartSpec
CONSTANTS
    Truths <- MCTruths
    Falsities <- MCFalsities
    Numbers <- MCNumbers
    Writable <- MCWritable
    Setups <- MCSetups
    MaxUpdates = 2
INVARIANTS
    ConfigHonoured
    LiveOnlyIfNamed
    KeysOfOneAccount
    StatusForetellsStart
