\* An initiative over several days, its supply changed by orders only, under fairness of time.
SPECIFICATION LiveSpec
CONSTANTS
    ONE = 2
    RewardPercentages = {1, 2}
    MinCollateralRatios = {1, 2, 3}
    MaxHealthViolations = {0, 1, 2}
    InitiativeDurations = {2, 3, 4}
    MaxRewardPercentage = 1
    MaxMaxHealthViolations = 1
    MinInitiativeDuration = 3
    PenaltyFactor = 1
    DayLength = 2
    Genesis = 2
    MaxTime = 7
    InitialSupply = 2
    InitialReserve = 4
    InitialBootstrapping = 0
    VaultAmounts = {2}
    GydAmounts = {2}
    BurnAmounts = {}
    RecoveryAmounts = {2}
    BootstrappingAmounts = {}
    VaultPrices = {1, 2}
    MintFee = 0
    RedeemFee = 0
    RedeemDiscountRatio = 0
    GlobalSupplyCap = 6
    MaxReserve = 6
    MaxBootstrapping = 2
    MaxPartialBurnFactor = 1
    TriggerCR = 2
    TargetCR = 2
    MaxTriggerCR = 2
INVARIANTS
    TypeOK
    AggSupplyExact
PROPERTIES
    RewardsGoodHealth
    ImplementsBackedSupply
    OrdersResume
