\* A vault of one stablecoin and a vault of it and another, without fees.
SPECIFICATION Spec
CONSTANTS
    ONE = 8
    usdc = usdc
    dai = dai
    stable = stable
    pool = pool
    Vaults = {stable, pool}
    Configurations <- MCConfigurations
    TokensOf <- TwoVaults
    VaultPrice <- MeanPrice
    Scale <- OneScale
    VaultDustThreshold = 1
    StableTokens = {usdc, dai}
    Floor <- PegFloor
    Ceiling <- PegCeiling
    Amounts = {0, 1, 2}
    Prices <- MCPrices
    Deviations = {1, 3}
    MinTokenPrices = {1}
    RedeemFees = {0}
    MaxFee = 1
    MaxTime = 3
    MaxBalance = 3
INVARIANTS
    TypeOK
    TargetsAddUp
PROPERTIES
    OrdersRebalance
    RedeemLeavesValue
    
    ScheduleIsSmooth
