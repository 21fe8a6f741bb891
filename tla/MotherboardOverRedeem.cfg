\* A redemption larger than what the burn it triggers leaves minted.
SPECIFICATION Spec
CONSTANTS
    ONE = 4
    RewardPercentages = {}
    MinCollateralRatios = {}
    MaxHealthViolations = {}
    InitiativeDurations = {}
    MaxRewardPercentage = 2
    MaxMaxHealthViolations = 0
    MinInitiativeDuration = 1
    PenaltyFactor = 1
    DayLength = 2
    Genesis = 2
    MaxTime = 2
    InitialSupply = 5
    InitialReserve = 6
    InitialBootstrapping = 4
    VaultAmounts = {1}
    GydAmounts = {4}
    BurnAmounts = {}
    RecoveryAmounts = {4}
    BootstrappingAmounts = {}
    VaultPrices = {2, 3, 4, 5}
    MintFee = 0
    RedeemFee = 1
    RedeemDiscountRatio = 0
    GlobalSupplyCap = 12
    MaxReserve = 10
    MaxBootstrapping = 2
    MaxPartialBurnFactor = 1
    TriggerCR = 3
    TargetCR = 4
    MaxTriggerCR = 4
INVARIANT
    MintedSupplyDefined
