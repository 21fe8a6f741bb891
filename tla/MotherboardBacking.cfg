\* Orders, recovery burns and price moves, without an initiative.
SPECIFICATION Spec
CONSTANTS
    ONE = 4
    RewardPercentages = {}
    MinCollateralRatios = {}
    MaxHealthViolations = {}
    InitiativeDurations = {}
    MaxRewardPercentage = 2
    MaxMaxHealthViolations = 0
    MinInitiativeDuration = 1
    PenaltyFactor = 1
    DayLength = 2
    Genesis = 2
    MaxTime = 2
    InitialSupply = 5
    InitialReserve = 6
    InitialBootstrapping = 1
    VaultAmounts = {1, 2, 3, 5}
    GydAmounts = {1, 2, 3, 4}
    BurnAmounts = {1}
    RecoveryAmounts = {1, 4}
    BootstrappingAmounts = {1}
    VaultPrices = {2, 3, 4, 5}
    MintFee = 0
    RedeemFee = 1
    RedeemDiscountRatio = 1
    GlobalSupplyCap = 10
    MaxReserve = 14
    MaxBootstrapping = 2
    MaxPartialBurnFactor = 1
    TriggerCR = 3
    TargetCR = 4
    MaxTriggerCR = 4
INVARIANT
    ParBacked
PROPERTY
    BackingKept
    ImplementsBackedSupply
