----------------------------- MODULE Motherboard -----------------------------
(***************************************************************************)
(* Motherboard.sol: minting and redeeming GYD against the reserve,         *)
(* composed with what its operations call: the stewardship incentives      *)
(* (checkpoint), the recovery module (checkAndRun), the PAMM, the fee      *)
(* handler, the GYD token and the reserve.                                 *)
(*                                                                         *)
(* The reserve holds one vault token of one stable asset.  All GYD outside *)
(* the recovery module counts as held by one account: an operation that is *)
(* possible for some distribution of the balances is possible here.  Of    *)
(* the recovery module, this module keeps the size of the pool and the     *)
(* adjustment factor, which decide what it burns; the accounting of its    *)
(* users is in GydRecovery.  The safety checks can only refuse an order.   *)
(***************************************************************************)
EXTENDS ReserveStewardship, RecoveryBurn

CONSTANTS
    InitialSupply,          \* GYD minted at the start
    InitialReserve,         \* vault tokens of the reserve at the start
    InitialBootstrapping,   \* GYD created for bootstrapping at the start
    VaultAmounts,           \* vault tokens brought to a mint
    GydAmounts,             \* GYD redeemed in one call
    BurnAmounts,            \* GYD burned by a holder in one call of the token
    RecoveryAmounts,        \* GYD moved to or from the recovery module
    BootstrappingAmounts,   \* GYD created or destroyed for bootstrapping
    VaultPrices,            \* USD prices of the vault token
    MintFee,
    RedeemFee,
    RedeemDiscountRatio,    \* REDEEM_DISCOUNT_RATIO
    GlobalSupplyCap,        \* GLOBAL_SUPPLY_CAP
    MaxReserve,             \* bound on the vault tokens of the reserve
    MaxBootstrapping        \* bound on the bootstrapping supply

ASSUME MotherboardAssumption ==
    /\ InitialSupply \in Nat /\ InitialReserve \in Nat /\ InitialBootstrapping \in Nat
    /\ VaultAmounts \subseteq Nat /\ GydAmounts \subseteq Nat /\ BurnAmounts \subseteq Nat
    /\ RecoveryAmounts \subseteq Nat /\ BootstrappingAmounts \subseteq Nat
    /\ VaultPrices \subseteq Nat
    /\ MintFee \in 0..ONE /\ RedeemFee \in 0..ONE
    /\ RedeemDiscountRatio \in Nat
    /\ GlobalSupplyCap \in Nat
    /\ MaxReserve \in Nat /\ MaxBootstrapping \in Nat

VARIABLES
    circulating,            \* GYD outside the recovery module
    recoveryGyd,            \* GYD of the recovery module, its totalUnderlying()
    adjustmentFactor,       \* of the recovery module
    bootstrappingSupply,
    reserveBalance,         \* vault tokens of the reserve
    vaultPrice

recoveryVars == <<recoveryGyd, adjustmentFactor>>
marketVars == <<circulating, bootstrappingSupply, reserveBalance>>
vars == <<now, stewardshipVars, historyVars, recoveryVars, marketVars, vaultPrice>>

TypeOK ==
    /\ StewardshipTypeOK
    /\ circulating \in Nat
    /\ recoveryGyd \in Nat
    /\ adjustmentFactor \in 1..ONE
    /\ bootstrappingSupply \in Nat
    /\ reserveBalance \in Nat
    /\ vaultPrice \in Nat

Init ==
    /\ StewardshipInit
    /\ circulating = InitialSupply + InitialBootstrapping
    /\ recoveryGyd = 0
    /\ adjustmentFactor = ONE
    /\ bootstrappingSupply = InitialBootstrapping
    /\ reserveBalance = InitialReserve
    /\ vaultPrice \in VaultPrices

-----------------------------------------------------------------------------
(* Supply and value                                                        *)

TotalSupply == circulating + recoveryGyd

\* mintedSupply(), which reverts when this is negative.
MintedSupply == TotalSupply - bootstrappingSupply

LowerBoundUSDPrice == MinOf(vaultPrice, ONE)

\* mutant: a price below the peg is not clamped
UpperBoundOfMarket == IF vaultPrice = 0 THEN ONE ELSE vaultPrice
UpperBoundUSDPrice == MaxOf(vaultPrice, ONE)

\* computeLowerBoundUSDValue
ReserveUSDValue == MulDown(reserveBalance, LowerBoundUSDPrice)

-----------------------------------------------------------------------------
(* The calls that precede every order                                      *)

\* The ratio is computed whenever there is GYD to burn.
CanRunRecovery == recoveryGyd > 0 => MintedSupply > 0

AmountToBurn == MintedSupply - TargetGYDSupply(ReserveUSDValue)

NextFactor == NextAdjustmentFactor(adjustmentFactor, AmountToBurn, recoveryGyd)

RecoveryRuns ==
    /\ ShouldRun(ReserveUSDValue, MintedSupply, recoveryGyd)
    /\ AmountToBurn > 0

BurnsAll == RecoveryRuns /\ IsFullBurn(AmountToBurn, recoveryGyd)

BurnsPart == RecoveryRuns /\ ~IsFullBurn(AmountToBurn, recoveryGyd) /\ NextFactor # 0

BurntGyd == IF BurnsAll THEN recoveryGyd ELSE IF BurnsPart THEN AmountToBurn ELSE 0

SupplyAfterRecovery == MintedSupply - BurntGyd

RunRecovery ==
    /\ CanRunRecovery
    /\ recoveryGyd' = recoveryGyd - BurntGyd
    /\ adjustmentFactor' = IF BurnsAll THEN ONE
                           ELSE IF BurnsPart THEN NextFactor ELSE adjustmentFactor

Checkpoint == CheckpointInitiative(ReserveUSDValue, MintedSupply)

\* The checkpoint sees the supply before the recovery module burns.
CheckpointAndRecover ==
    /\ Checkpoint
    /\ RunRecovery

-----------------------------------------------------------------------------
(* Orders                                                                  *)

\* mutant: rounded up
GydForVaultTokensUp(amount) == MulUp(MulDown(amount, ONE - MintFee), LowerBoundUSDPrice)

\* GYD minted for vault tokens: the PAMM mints one for one.
GydForVaultTokens(amount) == MulDown(MulDown(amount, ONE - MintFee), LowerBoundUSDPrice)

Mint(amount) ==
    /\ reserveBalance + amount <= MaxReserve
    /\ CheckpointAndRecover
    /\ TotalSupply - BurntGyd + GydForVaultTokens(amount) <= GlobalSupplyCap
    /\ circulating' = circulating + GydForVaultTokens(amount)
    /\ reserveBalance' = reserveBalance + amount
    /\ UNCHANGED <<now, activeInitiative, supplySeconds, bootstrappingSupply, vaultPrice>>

DiscountedReserveValue(supply) ==
    LET discount == MulDown(RedeemDiscountRatio, supply)
    IN  IF ReserveUSDValue > 2 * discount
        THEN MinOf(ReserveUSDValue - discount, supply)
        ELSE ReserveUSDValue

\* USD values the PAMM may give for GYD: one for one when the supply is backed, no
\* more than that, depending on the history of redemptions, when it is not.
PammRedeemValues(amount, supply) ==
    IF amount = 0 \/ DiscountedReserveValue(supply) >= supply THEN {amount} ELSE 0..amount

\* Vault tokens paid out for a USD value.
VaultTokensForUSD(usdValue) ==
    MulDown(DivDown(usdValue, UpperBoundUSDPrice), ONE - RedeemFee)

MayRedeem(amount) == MintedSupply >= 0 /\ amount <= MintedSupply

Redeem(amount) ==
    /\ MayRedeem(amount)
    /\ CheckpointAndRecover
    /\ amount > 0 => SupplyAfterRecovery > 0
    /\ amount <= circulating
    /\ circulating' = circulating - amount
    /\ \E usdValue \in PammRedeemValues(amount, SupplyAfterRecovery) :
        /\ VaultTokensForUSD(usdValue) <= reserveBalance
        /\ reserveBalance' = reserveBalance - VaultTokensForUSD(usdValue)
    /\ UNCHANGED <<now, activeInitiative, supplySeconds, bootstrappingSupply, vaultPrice>>

-----------------------------------------------------------------------------
(* The other operations on the supply                                      *)

\* GydRecovery.checkAndRun(), which anybody may call.
CheckAndRun ==
    /\ CheckpointAndRecover
    /\ UNCHANGED <<now, activeInitiative, supplySeconds, marketVars, vaultPrice>>

\* ReserveStewardshipIncentives.checkpoint(), which anybody may call.
StewardshipCheckpoint ==
    /\ Checkpoint
    /\ UNCHANGED <<now, activeInitiative, supplySeconds, recoveryVars, marketVars, vaultPrice>>

StartStewardship(rewardPercentage, minRatio, maxViolations, duration) ==
    /\ StartInitiative(rewardPercentage, minRatio, maxViolations, duration,
                       ReserveUSDValue, MintedSupply)
    /\ UNCHANGED <<recoveryVars, marketVars, vaultPrice>>

CancelStewardship ==
    /\ CancelInitiative
    /\ UNCHANGED <<recoveryVars, marketVars, vaultPrice>>

CompleteStewardship ==
    /\ CompleteInitiative(ReserveUSDValue, MintedSupply)
    /\ circulating' = circulating + InitiativeReward(ReserveUSDValue, MintedSupply)
    /\ UNCHANGED <<recoveryVars, bootstrappingSupply, reserveBalance, vaultPrice>>

\* GydToken.burn: a holder destroys GYD, and no contract is told.
BurnGyd(amount) ==
    /\ amount <= circulating
    /\ circulating' = circulating - amount
    /\ UNCHANGED <<now, stewardshipVars, historyVars, recoveryVars, bootstrappingSupply,
                   reserveBalance, vaultPrice>>

DepositForRecovery(amount) ==
    /\ amount <= circulating
    /\ circulating' = circulating - amount
    /\ recoveryGyd' = recoveryGyd + amount
    /\ UNCHANGED <<now, stewardshipVars, historyVars, adjustmentFactor, bootstrappingSupply,
                   reserveBalance, vaultPrice>>

WithdrawFromRecovery(amount) ==
    /\ amount <= recoveryGyd
    /\ recoveryGyd' = recoveryGyd - amount
    /\ circulating' = circulating + amount
    /\ UNCHANGED <<now, stewardshipVars, historyVars, adjustmentFactor, bootstrappingSupply,
                   reserveBalance, vaultPrice>>

\* Governance creates or destroys bootstrapping GYD and calls setBootstrappingSupply
\* with it, in one transaction as the interface asks.
CreateBootstrapping(amount) ==
    /\ TotalSupply + amount <= GlobalSupplyCap
    /\ bootstrappingSupply + amount <= MaxBootstrapping
    /\ circulating' = circulating + amount
    /\ bootstrappingSupply' = bootstrappingSupply + amount
    /\ UNCHANGED <<now, stewardshipVars, historyVars, recoveryVars, reserveBalance, vaultPrice>>

DestroyBootstrapping(amount) ==
    /\ amount <= circulating /\ amount <= bootstrappingSupply
    /\ circulating' = circulating - amount
    /\ bootstrappingSupply' = bootstrappingSupply - amount
    /\ UNCHANGED <<now, stewardshipVars, historyVars, recoveryVars, reserveBalance, vaultPrice>>

PriceMoves ==
    /\ vaultPrice' \in VaultPrices
    /\ UNCHANGED <<now, stewardshipVars, historyVars, recoveryVars, marketVars>>

Tick ==
    /\ PassTime(MintedSupply)
    /\ UNCHANGED <<recoveryVars, marketVars, vaultPrice>>

Next ==
    \/ \E amount \in VaultAmounts : Mint(amount)
    \/ \E amount \in GydAmounts : Redeem(amount)
    \/ CheckAndRun
    \/ StewardshipCheckpoint
    \/ \E p \in RewardPercentages, r \in MinCollateralRatios,
          v \in MaxHealthViolations, d \in InitiativeDurations : StartStewardship(p, r, v, d)
    \/ CancelStewardship
    \/ CompleteStewardship
    \/ \E amount \in BurnAmounts : BurnGyd(amount)
    \/ \E amount \in RecoveryAmounts :
            DepositForRecovery(amount) \/ WithdrawFromRecovery(amount)
    \/ \E amount \in BootstrappingAmounts :
            CreateBootstrapping(amount) \/ DestroyBootstrapping(amount)
    \/ PriceMoves
    \/ Tick

Spec == Init /\ [][Next]_vars

LiveSpec == Spec /\ WF_vars(Tick)

-----------------------------------------------------------------------------
(* Properties                                                              *)

\* At par, every GYD minted is backed by a vault token, whatever the price was when it
\* was minted or when others redeemed: a price that leaves the peg and returns leaves
\* no hole, and neither do rounding, recovery burns and stewardship rewards.
ParBacked == reserveBalance >= MintedSupply

\* As long as the price stays, no sequence of mints, redemptions, burns and rewards
\* of the stewardship takes the collateral ratio from one or more to less than one:
\* not by rounding, not by the fees, not by a price above or below the peg.
BackingKept ==
    [][/\ vaultPrice' = vaultPrice
       /\ ReserveUSDValue >= MintedSupply
       => (ReserveUSDValue >= MintedSupply)']_vars

\* To the holders of GYD the protocol is the reserve of BackedSupply: each operation as a
\* whole, with the checkpoint, the burn of the recovery module, rounding and the answer of
\* the PAMM, gives nobody tokens or GYD worth more than what it takes.
Ledger == INSTANCE BackedSupply WITH
            held <- circulating - bootstrappingSupply,
            pool <- recoveryGyd,
            tokens <- reserveBalance,
            price <- vaultPrice

ImplementsBackedSupply == Ledger!BackedSpec

\* mintedSupply() does not revert: no more GYD is redeemed than was minted.
MintedSupplyDefined == bootstrappingSupply <= TotalSupply

\* The aggregate of the supply that decides the reward is the integral of the supply,
\* whoever changed the supply and whenever the last checkpoint was.
AggSupplyExact ==
    HasActiveInitiative => UpdatedAggSupply(MintedSupply).aggSupply = supplySeconds

\* A reward is paid only to an initiative with few days on which any checkpoint, of
\* an order or of anybody, saw a low ratio, and it leaves a ratio that is not low.
RewardsGoodHealth ==
    [][CompleteStewardship =>
        /\ Cardinality(lowDays') <= activeInitiative.maxHealthViolations
        /\ MintedSupply' <= MaxAllowedGYDSupply(ReserveUSDValue)]_vars

\* An order can be blocked by an initiative, when the supply is zero, but not for good.
BlocksOrders == ~CanCheckpoint(MintedSupply)

OrdersResume == BlocksOrders ~> ~BlocksOrders

=============================================================================
