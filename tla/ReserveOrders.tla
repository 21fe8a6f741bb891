---------------------------- MODULE ReserveOrders ---------------------------
(***************************************************************************)
(* The reserve under orders: the Motherboard has an order checked, applies *)
(* the fees of StaticPercentageFeeHandler.sol and moves vault tokens,      *)
(* while governance registers vaults and sets parameters, and prices move. *)
(*                                                                         *)
(* Of the checks that safety/RootSafetyCheck.sol runs, the one here is the *)
(* ReserveSafetyManager; another check can only refuse an order, which is  *)
(* a step not taken.  What an order costs in GYD is modelled in            *)
(* Motherboard: here the amounts of an order are any amounts.  The mint    *)
(* fee changes only the GYD, and is left out.  A plain transfer of vault   *)
(* tokens to the reserve does what a mint does while no check is there.    *)
(***************************************************************************)
EXTENDS ReserveSafetyManager

CONSTANTS
    Amounts,                \* amounts of an order, for one vault
    Prices,                 \* Prices[t]: prices that a token may have
    Deviations,             \* arguments of setVaultMaxDeviation
    MinTokenPrices,         \* arguments of setMinTokenPrice
    RedeemFees,             \* arguments of setVaultFees
    MaxFee,                 \* MAX_FEE
    MaxTime,                \* bound: time
    MaxBalance              \* bound: balance of a vault

ASSUME OrdersAssumption ==
    /\ Amounts \subseteq Nat
    /\ \A t \in Tokens : Prices[t] \subseteq Nat
    /\ Deviations \subseteq Nat
    /\ MinTokenPrices \subseteq Nat
    /\ RedeemFees \subseteq Nat /\ MaxFee \in 0..ONE
    /\ MaxTime \in Nat /\ MaxBalance \in Nat

VARIABLES
    checks,                 \* of RootSafetyCheck
    vaultFees

vars == <<now, registryVars, reserveBalance, price, safetyVars, checks, vaultFees>>

Fees == [exists : BOOLEAN, redeem : 0..MaxFee]

TokenPrices == {f \in [Tokens -> UNION {Prices[t] : t \in Tokens}] : \A t \in Tokens : f[t] \in Prices[t]}

ASSUME VaultPriceAssumption ==
    \A v \in Vaults, prices \in TokenPrices : VaultPrice(v, prices) \in Nat

TypeOK ==
    /\ RegistryTypeOK
    /\ reserveBalance \in [Vaults -> Nat]
    /\ price \in TokenPrices
    /\ maxAllowedVaultDeviation \in Deviations
    /\ minTokenPrice \in MinTokenPrices
    /\ checks \subseteq {"ReserveSafetyManager"}
    /\ vaultFees \in [Vaults -> Fees]
    /\ \A v \in Registered : vaultFees[v].exists

Init ==
    /\ now = 1
    /\ RegistryInit
    /\ reserveBalance = [v \in Vaults |-> 0]
    /\ price \in TokenPrices
    /\ maxAllowedVaultDeviation \in Deviations
    /\ minTokenPrice \in MinTokenPrices
    /\ checks = {}
    /\ vaultFees = [v \in Vaults |-> [exists |-> FALSE, redeem |-> 0]]

-----------------------------------------------------------------------------
(* Orders                                                                  *)

Orders == [Registered -> Amounts]

Checked == "ReserveSafetyManager" \in checks

AfterFee(v, amount) == MulDown(amount, ONE - vaultFees[v].redeem)

\* mint of the Motherboard: what it does to the reserve.
Mint(order) ==
    /\ \A v \in Registered : reserveBalance[v] + order[v] <= MaxBalance
    /\ Checked => IsMintSafe(order)
    /\ \A v \in Registered : vaultFees[v].exists
    /\ reserveBalance' = [v \in Vaults |->
            IF v \in Registered THEN reserveBalance[v] + order[v] ELSE reserveBalance[v]]
    /\ UNCHANGED <<now, registryVars, price, safetyVars, checks, vaultFees>>

\* redeem of the Motherboard: the order is checked before the fees, and the amounts after
\* the fees leave the reserve.
Redeem(order) ==
    /\ \A v \in Registered : AfterFee(v, order[v]) <= reserveBalance[v]
    /\ Checked => IsRedeemSafe(order)
    /\ \A v \in Registered : vaultFees[v].exists
    /\ reserveBalance' = [v \in Vaults |->
            IF v \in Registered THEN reserveBalance[v] - AfterFee(v, order[v])
                                ELSE reserveBalance[v]]
    /\ UNCHANGED <<now, registryVars, price, safetyVars, checks, vaultFees>>

-----------------------------------------------------------------------------
(* Governance and environment                                              *)

GovernSetVaults(config) ==
    /\ SetVaults(config, {v \in Vaults : vaultFees[v].exists})
    /\ UNCHANGED <<now, reserveBalance, price, safetyVars, checks, vaultFees>>

GovernSafety ==
    /\ \/ \E deviation \in Deviations : SetVaultMaxDeviation(deviation)
       \/ \E newMinimum \in MinTokenPrices : SetMinTokenPrice(newMinimum)
    /\ UNCHANGED <<now, registryVars, reserveBalance, price, checks, vaultFees>>

AddCheck ==
    /\ ~Checked
    /\ checks' = checks \cup {"ReserveSafetyManager"}
    /\ UNCHANGED <<now, registryVars, reserveBalance, price, safetyVars, vaultFees>>

RemoveCheck ==
    /\ Checked
    /\ checks' = checks \ {"ReserveSafetyManager"}
    /\ UNCHANGED <<now, registryVars, reserveBalance, price, safetyVars, vaultFees>>

\* Fees are set again but never taken away, so a registered vault is always supported.
SetVaultFees(v, redeemFee) ==
    /\ redeemFee <= MaxFee
    /\ vaultFees' = [vaultFees EXCEPT ![v] = [exists |-> TRUE, redeem |-> redeemFee]]
    /\ UNCHANGED <<now, registryVars, reserveBalance, price, safetyVars, checks>>

MovePrice(t, p) ==
    /\ price' = [price EXCEPT ![t] = p]
    /\ UNCHANGED <<now, registryVars, reserveBalance, safetyVars, checks, vaultFees>>

Tick ==
    /\ now < MaxTime
    /\ now' = now + 1
    /\ UNCHANGED <<registryVars, reserveBalance, price, safetyVars, checks, vaultFees>>

Next ==
    \/ \E order \in Orders : Mint(order)
    \/ \E order \in Orders : Redeem(order)
    \/ \E config \in Configurations : GovernSetVaults(config)
    \/ GovernSafety
    \/ AddCheck
    \/ RemoveCheck
    \/ \E v \in Vaults, redeemFee \in RedeemFees : SetVaultFees(v, redeemFee)
    \/ \E t \in Tokens : \E p \in Prices[t] : MovePrice(t, p)
    \/ Tick

Spec == Init /\ [][Next]_vars

-----------------------------------------------------------------------------
(* Properties                                                              *)

CheckedMint == Checked /\ \E v \in Registered : reserveBalance'[v] > reserveBalance[v]

CheckedRedeem == Checked /\ \E v \in Registered : reserveBalance'[v] < reserveBalance[v]

\* The target weights of the vaults add up to ONE, however far the returns of the vaults
\* and the schedule have taken them, and whatever is lost in rounding.
TargetsAddUp == SumOf(WeightedReturns) > 0 => SumOf(TargetWeights) = ONE

\* Every vault is near its target, or closer to it than before the step.
Rebalances ==
    LET targets == TargetWeights
        before == CurrentWeights
        after == CurrentWeights'
    IN  \A v \in Registered :
            \/ WithinEpsilon(after[v], targets[v])
            \/ AbsSub(after[v], targets[v]) < AbsSub(before[v], targets[v])

\* README.md: the weight that results from an order is within bounds.  After an order,
\* every vault is near its target, or closer to it than before, as the reserve manager
\* then sees it.
OrdersRebalance == [][CheckedMint \/ CheckedRedeem => Rebalances]_vars

\* No redemption takes the last value out of the reserve while the vaults have targets.
RedeemLeavesValue ==
    [][CheckedRedeem /\ SumOf(WeightedReturns) > 0 /\ ReserveUSDValue > 0
            => ReserveUSDValue' > 0]_vars

\* README.md, Case II: while a stablecoin is below its peg, a mint lowers the weight of
\* every vault that has a stablecoin off its peg, as long as weights are shares of a value.
NoMintIntoDepeg ==
    [][(\E v \in Registered : BelowPeg(v)) /\ CheckedMint /\ ReserveUSDValue' > 0 =>
        LET before == CurrentWeights
            after == CurrentWeights'
        IN  \A v \in Registered : OffPeg(v) => after[v] < before[v]]_vars

\* README.md: a smooth transition between weights.  Time takes the weight of a vault
\* towards the calibrated weight and never past it, and a new calibration of a vault that
\* has arrived there starts from that weight (in the middle of a transition it does not:
\* the weight jumps to the old target).
ScheduleIsSmooth ==
    [][<<now, registryVars>>' # <<now, registryVars>> =>
        \A v \in Registered :
            LET old == ScheduleWeight(vaultsMetadata[v])
                target == vaultsMetadata[v].weightAtCalibration
                new == ScheduleWeight(vaultsMetadata[v])'
            IN  IF now' # now
                THEN \/ old <= new /\ new <= target
                     \/ target <= new /\ new <= old
                ELSE (/\ v \in Registered'
                      /\ Settled(vaultsMetadata[v])
                      /\ vaultsMetadata'[v].weightTransitionDuration > 0) => new = old]_vars

=============================================================================
