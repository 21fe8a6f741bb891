SPECIFICATION ReadersSpec
CONSTANTS
    ChainId = 1
    Plan <- MCPlan
    MaxCuts = 1
    MaxRetries = 1
    Fees <- MCFees
    MaxChanges = 3
INVARIANTS
    ReadersTypeOK
    WiredAtTheEnd
    KeptStillHolds
    OnlyKnownReverts
    NothingLeftOut
    EffectiveInForce
    FrozenRowsHold
    DiesOnlyOf
PROPERTIES
    OthersCanBeRepeated
    Completes
CHECK_DEADLOCK FALSE
