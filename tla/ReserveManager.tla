--------------------------- MODULE ReserveManager ---------------------------
(***************************************************************************)
(* ReserveManager.sol: the value and the weights of the vaults of the      *)
(* reserve, and the registration of vaults.                                *)
(*                                                                         *)
(* The prices of tokens come from the root oracle and move freely, and     *)
(* VaultPrice(v, prices) is the price of a vault's token that its oracle   *)
(* makes of them.                                                          *)
(* Scale[v] is what scaleFrom multiplies an amount of a vault by, one for  *)
(* a vault of 18 decimals.                                                 *)
(***************************************************************************)
EXTENDS VaultRegistry

CONSTANTS
    TokensOf,               \* the tokens of a vault
    VaultPrice(_, _),
    Scale,
    VaultDustThreshold      \* VAULT_DUST_THRESHOLD of the configuration

Tokens == UNION {TokensOf[v] : v \in Vaults}

ASSUME ReserveAssumption ==
    /\ Scale \in [Vaults -> Nat \ {0}]
    /\ VaultDustThreshold \in Nat

VARIABLES
    reserveBalance,         \* vault tokens that the reserve holds
    price                   \* prices of the tokens

VaultPrices == [v \in Vaults |-> VaultPrice(v, price)]

-----------------------------------------------------------------------------
(* getReserveState                                                         *)

\* The values of amounts of the registered vaults.
UsdValues(amounts) ==
    LET prices == VaultPrices
    IN  [v \in Registered |-> MulDown(prices[v], amounts[v] * Scale[v])]

\* The sum of a function of the registered vaults.
SumOf(f) == MapThenSumSet(LAMBDA v : f[v], DOMAIN f)

ReserveUSDValue == SumOf(UsdValues(reserveBalance))

CurrentWeights ==
    LET values == UsdValues(reserveBalance)
        total == SumOf(values)
    IN  [v \in Registered |->
            IF total = 0 THEN ScheduleWeight(vaultsMetadata[v]) ELSE DivDown(values[v], total)]

\* The scheduled weights, moved by the returns of the vaults since the calibration.
WeightedReturns ==
    LET prices == VaultPrices
    IN  [v \in Registered |->
            MulDown(DivDown(prices[v], vaultsMetadata[v].priceAtCalibration),
                    ScheduleWeight(vaultsMetadata[v]))]

\* mutant: normalised weights are rounded down
TargetWeightsDown ==
    LET returns == WeightedReturns
        sum == SumOf(returns)
    IN  [v \in Registered |-> IF sum = 0 THEN 0 ELSE DivDown(returns[v], sum)]

\* The normalised returns, rounded up: the one that would take the total above ONE takes
\* the rest.
TargetWeights ==
    LET returns == WeightedReturns
        sum == SumOf(returns)
        total[i \in 0..Len(vaultAddresses)] ==
            IF i = 0 THEN 0
            ELSE MinOf(total[i-1] + DivUp(returns[vaultAddresses[i]], sum), ONE)
        position(v) == CHOOSE i \in DOMAIN vaultAddresses : vaultAddresses[i] = v
    IN  [v \in Registered |->
            IF sum = 0 THEN 0 ELSE total[position(v)] - total[position(v) - 1]]

-----------------------------------------------------------------------------
(* setVaults                                                               *)

\* A vault that may not be dropped.  Its balance is not scaled here.
Valuable(v) == MulDown(VaultPrices[v], reserveBalance[v]) >= VaultDustThreshold

SetVaults(config, supported) ==
    /\ \A v \in Registered :
            Valuable(v) => \E i \in DOMAIN config : config[i].vaultAddress = v
    /\ RegisterVaults(config, supported)

=============================================================================
