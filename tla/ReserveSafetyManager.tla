------------------------ MODULE ReserveSafetyManager ------------------------
(***************************************************************************)
(* safety/ReserveSafetyManager.sol: whether an order keeps the weights of  *)
(* the vaults near their targets and no stablecoin that lost its peg is    *)
(* taken in.  An order is a function from the registered vaults to         *)
(* amounts; the parameters are variables since governance sets them.       *)
(***************************************************************************)
EXTENDS ReserveManager

CONSTANTS
    StableTokens,           \* tokens that the asset registry declares stable
    Floor, Ceiling          \* their price range

VARIABLES
    maxAllowedVaultDeviation,
    minTokenPrice

safetyVars == <<maxAllowedVaultDeviation, minTokenPrice>>

\* The balances after an order.
Resulting(mint, amounts) ==
    [v \in Registered |-> IF mint THEN reserveBalance[v] + amounts[v]
                                  ELSE reserveBalance[v] - amounts[v]]

ResultingWeights(balances) ==
    LET values == UsdValues(balances)
        total == SumOf(values)
    IN  [v \in Registered |-> IF total = 0 THEN 0 ELSE DivDown(values[v], total)]

\* Within maxAllowedVaultDeviation of the target.
WithinEpsilon(weight, target) == AbsSub(target, weight) <= MulUp(target, maxAllowedVaultDeviation)

\* mutant: it is enough that one vault is safe
SomeVaultSafe(weights) ==
    LET targets == TargetWeights
        current == CurrentWeights
    IN  \E v \in Registered :
            \/ WithinEpsilon(weights[v], targets[v])
            \/ AbsSub(weights[v], targets[v]) < AbsSub(current[v], targets[v])

\* allVaultsWithinEpsilon or _safeToExecuteOutsideEpsilon.
EpsilonSafe(weights) ==
    LET targets == TargetWeights
        current == CurrentWeights
    IN  \A v \in Registered :
            \/ WithinEpsilon(weights[v], targets[v])
            \/ AbsSub(weights[v], targets[v]) < AbsSub(current[v], targets[v])

StablecoinsOf(v) == TokensOf[v] \cap StableTokens

BelowPeg(v) == \E t \in StablecoinsOf(v) : price[t] < Floor[t]

OffPeg(v) == BelowPeg(v) \/ \E t \in StablecoinsOf(v) : price[t] > Ceiling[t]

\* mutant: the weight of a vault off its peg may stay
StablecoinSafeIfSame(weights) ==
    \/ \A v \in Registered : ~BelowPeg(v)
    \/ \A v \in Registered : OffPeg(v) => weights[v] <= CurrentWeights[v]

\* _isStablecoinSafe of a mint: every stablecoin is on its peg or above it, or the vaults
\* that have one off its peg lose weight.
StablecoinSafe(weights) ==
    \/ \A v \in Registered : ~BelowPeg(v)
    \/ \A v \in Registered : OffPeg(v) => weights[v] < CurrentWeights[v]

LargeEnoughPrices == \A v \in Registered : \E t \in TokensOf[v] : price[t] >= minTokenPrice

IsMintSafe(amounts) ==
    LET weights == ResultingWeights(Resulting(TRUE, amounts))
    IN  LargeEnoughPrices /\ StablecoinSafe(weights) /\ EpsilonSafe(weights)

IsRedeemFeasible(amounts) == \A v \in Registered : amounts[v] <= reserveBalance[v]

IsRedeemSafe(amounts) ==
    /\ IsRedeemFeasible(amounts)
    /\ LargeEnoughPrices
    /\ EpsilonSafe(ResultingWeights(Resulting(FALSE, amounts)))

-----------------------------------------------------------------------------
(* Governance                                                              *)

SetVaultMaxDeviation(deviation) ==
    /\ maxAllowedVaultDeviation' = deviation
    /\ UNCHANGED minTokenPrice

SetMinTokenPrice(newMinimum) ==
    /\ minTokenPrice' = newMinimum
    /\ UNCHANGED maxAllowedVaultDeviation

=============================================================================
