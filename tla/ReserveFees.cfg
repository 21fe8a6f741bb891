\* Two vaults at par, with fees of 0% or 20% and room to redeem three quarters of each.
SPECIFICATION Spec
CONSTANTS
    ONE = 20
    usdc = usdc
    dai = dai
    stable = stable
    pool = pool
    Vaults = {stable, pool}
    Configurations <- EvenConfigurations
    TokensOf <- TwoVaults
    VaultPrice <- MeanPrice
    Scale <- OneScale
    VaultDustThreshold = 1
    StableTokens = {usdc, dai}
    Floor <- PegFloor
    Ceiling <- PegCeiling
    Amounts = {0, 10, 30, 40}
    Prices <- ParPrices
    Deviations = {2}
    MinTokenPrices = {1}
    RedeemFees = {0, 4}
    MaxFee = 4
    MaxTime = 1
    MaxBalance = 40
PROPERTY
    OrdersRebalance
