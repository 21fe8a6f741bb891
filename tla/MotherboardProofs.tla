------------------------- MODULE MotherboardProofs --------------------------
(***************************************************************************)
(* Proofs about Motherboard: that GYD stays backed, and that initiatives   *)
(* are rewarded for what happened, for any amounts, prices, fees, caps and *)
(* parameters of recovery and stewardship.                                 *)
(***************************************************************************)
EXTENDS Motherboard, FixedPointProofs, FiniteSetTheorems

USE MotherboardAssumption, StewardshipAssumption, BurnAssumption

-----------------------------------------------------------------------------
(* The inductive invariant                                                 *)

\* A reward is computed for an initiative that asks for a ratio of one at least, has
\* a length to divide by, and was last updated neither after its end nor in the future.
InitiativeOK ==
    HasActiveInitiative =>
        /\ activeInitiative.minCollateralRatio >= ONE
        /\ activeInitiative.startTime < activeInitiative.endTime
        /\ aggSupply.lastUpdatedTime <= activeInitiative.endTime
        /\ aggSupply.lastUpdatedTime <= now

MotherboardInv == TypeOK /\ InitiativeOK

\* The parts of TypeOK that orders and the recovery module touch.
SupplyTypeOK ==
    /\ circulating \in Nat /\ recoveryGyd \in Nat /\ adjustmentFactor \in 1..ONE
    /\ bootstrappingSupply \in Nat /\ reserveBalance \in Nat /\ vaultPrice \in Nat

-----------------------------------------------------------------------------
(* Prices and values                                                       *)

\* Prices are clamped to the peg from the side that protects the reserve, so the
\* reserve is not counted for more than its tokens are worth at par.
LEMMA Values ==
    ASSUME SupplyTypeOK
    PROVE  /\ LowerBoundUSDPrice \in Nat /\ LowerBoundUSDPrice <= ONE
           /\ UpperBoundUSDPrice \in Nat /\ UpperBoundUSDPrice >= ONE
           /\ ReserveUSDValue \in Nat /\ ReserveUSDValue <= reserveBalance
           /\ MintedSupply \in Int
<1>1. ONE \in Nat /\ ONE > 0 /\ vaultPrice \in Nat /\ reserveBalance \in Nat
    BY ONEAssumption DEF SupplyTypeOK
<1>2. LowerBoundUSDPrice \in Nat /\ LowerBoundUSDPrice <= ONE
    BY <1>1 DEF LowerBoundUSDPrice, MinOf
<1>3. UpperBoundUSDPrice \in Nat /\ UpperBoundUSDPrice >= ONE
    BY <1>1 DEF UpperBoundUSDPrice, MaxOf
<1>4. ReserveUSDValue \in Nat /\ ReserveUSDValue <= reserveBalance
    BY <1>1, <1>2, MulDownNat, MulDownBounds DEF ReserveUSDValue
<1>5. MintedSupply \in Int  BY DEF MintedSupply, TotalSupply, SupplyTypeOK
<1>. QED  BY <1>2, <1>3, <1>4, <1>5

\* The recovery module burns GYD of its own only, and keeps its factor in range.
LEMMA BurnBounded ==
    ASSUME SupplyTypeOK
    PROVE  /\ BurntGyd \in Nat /\ BurntGyd <= recoveryGyd
           /\ RunRecovery => recoveryGyd' \in Nat /\ adjustmentFactor' \in 1..ONE
<1>1. recoveryGyd \in Nat /\ adjustmentFactor \in 1..ONE /\ ONE \in Nat /\ ONE > 0
    BY ONEAssumption DEF SupplyTypeOK
<1>2. AmountToBurn \in Int
    <2>1. TargetGYDSupply(ReserveUSDValue) \in Nat
        BY Values, DivDownNat DEF TargetGYDSupply
    <2>. QED  BY <2>1, Values DEF AmountToBurn
<1>3. BurnsPart => /\ AmountToBurn \in Nat /\ AmountToBurn <= recoveryGyd
                   /\ NextFactor \in 1..ONE
    <2>. SUFFICES ASSUME BurnsPart
                  PROVE  /\ AmountToBurn \in Nat /\ AmountToBurn <= recoveryGyd
                         /\ NextFactor \in 1..ONE
        OBVIOUS
    <2>1. AmountToBurn > 0 /\ recoveryGyd > 0 /\ NextFactor # 0
          /\ ~(AmountToBurn >= MulDown(recoveryGyd, ONE - MaxPartialBurnFactor))
        BY DEF BurnsPart, RecoveryRuns, ShouldRun, IsFullBurn
    <2>2. AmountToBurn \in Nat  BY <1>2, <2>1
    <2>. HIDE DEF AmountToBurn
    <2>3. recoveryGyd - AmountToBurn \in Nat /\ AmountToBurn < recoveryGyd
        BY <1>1, <2>1, <2>2, ONEAssumption, PartialBurnLeavesGyd
    <2>4. NextFactor \in 0..ONE
        <3>1. recoveryGyd - AmountToBurn <= recoveryGyd  BY <1>1, <2>2
        <3>. QED  BY <1>1, <2>1, <2>3, <3>1, FactorShrinks DEF NextFactor, NextAdjustmentFactor
    <2>. QED  BY <1>1, <2>1, <2>2, <2>3, <2>4
<1>4. BurntGyd \in Nat /\ BurntGyd <= recoveryGyd  BY <1>1, <1>3 DEF BurntGyd
<1>5. ASSUME RunRecovery
      PROVE  recoveryGyd' \in Nat /\ adjustmentFactor' \in 1..ONE
    <2>1. recoveryGyd' \in Nat
        <3>. HIDE DEF BurntGyd
        <3>. QED  BY <1>1, <1>4, <1>5 DEF RunRecovery
    <2>2. adjustmentFactor' \in 1..ONE  BY <1>1, <1>3, <1>5 DEF RunRecovery
    <2>. QED  BY <2>1, <2>2
<1>. QED  BY <1>4, <1>5

\* A mint creates no more GYD than it adds tokens at par, or value.
LEMMA MintIsBacked ==
    ASSUME SupplyTypeOK, NEW amount \in Nat
    PROVE  /\ GydForVaultTokens(amount) \in Nat /\ GydForVaultTokens(amount) <= amount
           /\ MulDown(reserveBalance + amount, LowerBoundUSDPrice)
                >= ReserveUSDValue + GydForVaultTokens(amount)
<1>. DEFINE q == LowerBoundUSDPrice
            net == MulDown(amount, ONE - MintFee)
<1>1. q \in Nat /\ q <= ONE /\ ONE \in Nat /\ reserveBalance \in Nat
    BY Values, ONEAssumption DEF SupplyTypeOK
<1>2. net \in Nat /\ net <= amount
    BY <1>1, MulDownNat, MulDownBounds
<1>. HIDE DEF q, net
<1>3. MulDown(net, q) \in Nat /\ MulDown(net, q) <= net
    BY <1>1, <1>2, MulDownNat, MulDownBounds
<1>4. MulDown(amount, q) >= MulDown(net, q)
    <2>1. PICK d \in Nat : amount = net + d
        <3>1. amount - net \in Nat /\ amount = net + (amount - net)  BY <1>2
        <3>. QED  BY <3>1
    <2>2. MulDown(net + d, q) >= MulDown(net, q) + MulDown(d, q)
        BY <1>1, <1>2, <2>1, ValueAdded
    <2>3. MulDown(amount, q) = MulDown(net + d, q)  BY <2>1
    <2>4. MulDown(d, q) \in Nat /\ MulDown(amount, q) \in Nat  BY <1>1, <2>1, MulDownNat
    <2>. QED  BY <1>3, <2>2, <2>3, <2>4
<1>5. MulDown(reserveBalance + amount, q) >= MulDown(reserveBalance, q) + MulDown(amount, q)
    BY <1>1, ValueAdded
<1>6. /\ MulDown(reserveBalance + amount, q) \in Nat /\ MulDown(reserveBalance, q) \in Nat
      /\ MulDown(amount, q) \in Nat
    <2>1. reserveBalance + amount \in Nat  BY <1>1
    <2>. QED  BY <1>1, <2>1, MulDownNat
<1>7. GydForVaultTokens(amount) = MulDown(net, q) /\ ReserveUSDValue = MulDown(reserveBalance, q)
    BY DEF GydForVaultTokens, ReserveUSDValue, q, net
<1>8. MulDown(reserveBalance + amount, LowerBoundUSDPrice) = MulDown(reserveBalance + amount, q)
    BY DEF q
<1>. QED  BY <1>2, <1>3, <1>4, <1>5, <1>6, <1>7, <1>8

\* A redemption pays out no more tokens than GYD redeemed.
LEMMA RedeemIsCovered ==
    ASSUME SupplyTypeOK, NEW amount \in Nat, NEW usdValue \in PammRedeemValues(amount, SupplyAfterRecovery)
    PROVE  VaultTokensForUSD(usdValue) \in Nat /\ VaultTokensForUSD(usdValue) <= amount
<1>1. usdValue \in Nat /\ usdValue <= amount  BY DEF PammRedeemValues
<1>2. /\ DivDown(usdValue, UpperBoundUSDPrice) \in Nat
      /\ DivDown(usdValue, UpperBoundUSDPrice) <= usdValue
    BY <1>1, Values, DivDownBound
<1>3. VaultTokensForUSD(usdValue) \in Nat
      /\ VaultTokensForUSD(usdValue) <= DivDown(usdValue, UpperBoundUSDPrice)
    <2>1. ONE - RedeemFee \in Nat /\ ONE - RedeemFee <= ONE  BY ONEAssumption
    <2>. QED  BY <1>2, <2>1, MulDownNat, MulDownBounds DEF VaultTokensForUSD
<1>. QED  BY <1>1, <1>2, <1>3

-----------------------------------------------------------------------------
(* Checkpoints and rewards                                                 *)

LEMMA CheckpointTypes ==
    ASSUME MotherboardInv, CheckpointInitiative(ReserveUSDValue, MintedSupply)
    PROVE  /\ aggSupply' \in [lastUpdatedTime : Nat, aggSupply : Nat]
           /\ HasActiveInitiative =>
                /\ aggSupply'.lastUpdatedTime <= activeInitiative.endTime
                /\ aggSupply'.lastUpdatedTime <= now
           /\ UpdatedAggSupply(MintedSupply).aggSupply \in Nat
           /\ reserveHealthViolations' \in [lastViolatedDate : Nat, nViolations : Nat]
           /\ lowDays' \subseteq Nat
<1>1. SupplyTypeOK /\ StewardshipTypeOK  BY DEF MotherboardInv, TypeOK, SupplyTypeOK
<1>2. MintedSupply \in Int  BY <1>1, Values
<1>3. now \in Nat /\ activeInitiative.endTime \in Nat
      /\ aggSupply.lastUpdatedTime \in Nat /\ aggSupply.aggSupply \in Nat
    BY <1>1 DEF StewardshipTypeOK, Initiative
<1>4. Today \in Nat  BY <1>3, Quotient DEF Today
<1>5. CASE ~HasActiveInitiative
    <2>1. UpdatedAggSupply(MintedSupply) = aggSupply  BY <1>5 DEF UpdatedAggSupply
    <2>2. ~IsLow(ReserveUSDValue, MintedSupply)  BY <1>5 DEF IsLow, InitiativeRuns
    <2>3. reserveHealthViolations' = reserveHealthViolations /\ lowDays' = lowDays
        BY <2>2 DEF CheckpointInitiative, UpdatedViolations
    <2>4. aggSupply' = aggSupply  BY <2>1 DEF CheckpointInitiative
    <2>. QED  BY <1>1, <1>3, <1>5, <2>1, <2>3, <2>4 DEF StewardshipTypeOK
<1>6. CASE HasActiveInitiative
    <2>. DEFINE t == MinOf(now, activeInitiative.endTime)
                spent == (t - aggSupply.lastUpdatedTime) * MintedSupply
    <2>1. MintedSupply \in Nat  BY <1>2, <1>6 DEF CheckpointInitiative, CanCheckpoint
    <2>2. t \in Nat /\ t <= now /\ t <= activeInitiative.endTime /\ aggSupply.lastUpdatedTime <= t
        BY <1>3, <1>6 DEF MinOf, MotherboardInv, InitiativeOK
    <2>3. spent \in Nat
        <3>1. t - aggSupply.lastUpdatedTime \in Nat  BY <1>3, <2>2
        <3>. QED  BY <2>1, <3>1, ProductNat
    <2>4. UpdatedAggSupply(MintedSupply)
            = [lastUpdatedTime |-> t, aggSupply |-> aggSupply.aggSupply + spent]
        BY <1>6 DEF UpdatedAggSupply
    <2>5. aggSupply' = UpdatedAggSupply(MintedSupply)  BY DEF CheckpointInitiative
    <2>6. reserveHealthViolations' \in [lastViolatedDate : Nat, nViolations : Nat]
          /\ lowDays' \subseteq Nat
        BY <1>1, <1>4 DEF CheckpointInitiative, UpdatedViolations, StewardshipTypeOK
    <2>. HIDE DEF t, spent
    <2>. QED  BY <1>3, <2>2, <2>3, <2>4, <2>5, <2>6
<1>. QED  BY <1>5, <1>6

\* A reward leaves the supply within what the minimal ratio allows, and so within the
\* value of the reserve.
LEMMA RewardIsBacked ==
    ASSUME MotherboardInv, CompleteInitiative(ReserveUSDValue, MintedSupply)
    PROVE  /\ InitiativeReward(ReserveUSDValue, MintedSupply) \in Nat
           /\ MintedSupply + InitiativeReward(ReserveUSDValue, MintedSupply)
                <= MaxAllowedGYDSupply(ReserveUSDValue)
           /\ MintedSupply + InitiativeReward(ReserveUSDValue, MintedSupply) <= ReserveUSDValue
<1>. DEFINE allowed == MaxAllowedGYDSupply(ReserveUSDValue)
            max == allowed - MintedSupply
            target == TargetReward(UpdatedAggSupply(MintedSupply).aggSupply)
            reduction == MulDown(ONE + PenaltyFactor, target - max)
            reward == InitiativeReward(ReserveUSDValue, MintedSupply)
<1>1. SupplyTypeOK /\ StewardshipTypeOK  BY DEF MotherboardInv, TypeOK, SupplyTypeOK
<1>2. MintedSupply \in Int /\ ReserveUSDValue \in Nat  BY <1>1, Values
<1>3. HasActiveInitiative /\ MintedSupply <= allowed  BY DEF CompleteInitiative
<1>4. /\ activeInitiative.minCollateralRatio \in Nat /\ activeInitiative.rewardPercentage \in Nat
      /\ activeInitiative.startTime \in Nat /\ activeInitiative.endTime \in Nat
    BY <1>1 DEF StewardshipTypeOK, Initiative
<1>5. allowed \in Nat /\ allowed <= ReserveUSDValue
    BY <1>2, <1>3, <1>4, DivDownBound DEF MaxAllowedGYDSupply, MotherboardInv, InitiativeOK
<1>6. target \in Nat
    <2>. DEFINE length == activeInitiative.endTime - activeInitiative.startTime
                agg == UpdatedAggSupply(MintedSupply).aggSupply
    <2>1. agg \in Nat  BY CheckpointTypes DEF CompleteInitiative
    <2>2. length \in Nat /\ length > 0  BY <1>3, <1>4 DEF MotherboardInv, InitiativeOK
    <2>. HIDE DEF agg, length
    <2>3. agg \div length \in Nat  BY <2>1, <2>2, Quotient
    <2>4. target = MulDown(activeInitiative.rewardPercentage, agg \div length)
        BY DEF TargetReward, agg, length
    <2>. QED  BY <1>4, <2>3, <2>4, MulDownNat
<1>7. max \in Nat  BY <1>2, <1>3, <1>5
<1>8. reward = IF target <= max THEN target
               ELSE IF reduction < target THEN target - reduction ELSE 0
    BY DEF InitiativeReward, AllowedReward
<1>. HIDE DEF allowed, target, reward
<1>9. target > max => reduction \in Nat /\ reduction >= target - max
    <2>. SUFFICES ASSUME target > max PROVE reduction \in Nat /\ reduction >= target - max
        OBVIOUS
    <2>. DEFINE over == target - max
    <2>1. over \in Nat  BY <1>6, <1>7
    <2>2. ONE + PenaltyFactor \in Nat /\ ONE + PenaltyFactor >= ONE  BY ONEAssumption
    <2>. HIDE DEF over
    <2>3. MulDown(ONE + PenaltyFactor, over) \in Nat /\ MulDown(ONE + PenaltyFactor, over) >= over
        BY <2>1, <2>2, MulDownNat, MulDownBounds
    <2>. QED  BY <2>3 DEF over
<1>. HIDE DEF reduction
<1>10. reward \in Nat /\ reward <= max  BY <1>6, <1>7, <1>8, <1>9
<1>. QED  BY <1>2, <1>5, <1>7, <1>10 DEF reward, allowed

LEMMA CheckpointKeepsInitiative ==
    ASSUME MotherboardInv, Checkpoint, UNCHANGED <<now, activeInitiative>>
    PROVE  StewardshipTypeOK' /\ InitiativeOK'
<1>1. StewardshipTypeOK /\ InitiativeOK  BY DEF MotherboardInv, TypeOK
<1>2. StewardshipTypeOK'
    BY <1>1, CheckpointTypes DEF Checkpoint, StewardshipTypeOK
<1>3. InitiativeOK'
    BY <1>1, CheckpointTypes DEF Checkpoint, InitiativeOK, HasActiveInitiative
<1>. QED  BY <1>2, <1>3

-----------------------------------------------------------------------------
(* The invariant is inductive                                              *)

LEMMA InvStep ==
    ASSUME MotherboardInv, [Next]_vars
    PROVE  MotherboardInv'
<1>a. SupplyTypeOK /\ StewardshipTypeOK /\ InitiativeOK
    BY DEF MotherboardInv, TypeOK, SupplyTypeOK
<1>b. SupplyTypeOK' /\ StewardshipTypeOK' /\ InitiativeOK' => MotherboardInv'
    BY DEF MotherboardInv, TypeOK, SupplyTypeOK
<1>c. UNCHANGED <<now, stewardshipVars, historyVars>> => StewardshipTypeOK' /\ InitiativeOK'
    BY <1>a DEF StewardshipTypeOK, InitiativeOK, HasActiveInitiative, stewardshipVars, historyVars
<1>d. UNCHANGED <<recoveryVars, marketVars, vaultPrice>> => SupplyTypeOK'
    BY <1>a DEF SupplyTypeOK, recoveryVars, marketVars
<1>1. ASSUME NEW amount \in VaultAmounts, Mint(amount)
      PROVE  MotherboardInv'
    <2>1. amount \in Nat /\ GydForVaultTokens(amount) \in Nat  BY <1>a, MintIsBacked
    <2>2. StewardshipTypeOK' /\ InitiativeOK'
        BY <1>1, CheckpointKeepsInitiative DEF Mint, CheckpointAndRecover
    <2>3. SupplyTypeOK'
        BY <1>1, <1>a, <2>1, BurnBounded DEF Mint, CheckpointAndRecover, SupplyTypeOK
    <2>. QED  BY <1>b, <2>2, <2>3
<1>2. ASSUME NEW amount \in GydAmounts, Redeem(amount)
      PROVE  MotherboardInv'
    <2>1. PICK usdValue \in PammRedeemValues(amount, SupplyAfterRecovery) :
            /\ VaultTokensForUSD(usdValue) <= reserveBalance
            /\ reserveBalance' = reserveBalance - VaultTokensForUSD(usdValue)
        BY <1>2 DEF Redeem
    <2>2. amount \in Nat /\ VaultTokensForUSD(usdValue) \in Nat  BY <1>a, RedeemIsCovered
    <2>3. reserveBalance' \in Nat /\ circulating' \in Nat
        BY <1>2, <1>a, <2>1, <2>2 DEF Redeem, SupplyTypeOK
    <2>4. StewardshipTypeOK' /\ InitiativeOK'
        BY <1>2, CheckpointKeepsInitiative DEF Redeem, CheckpointAndRecover
    <2>5. SupplyTypeOK'
        BY <1>2, <1>a, <2>3, BurnBounded DEF Redeem, CheckpointAndRecover, SupplyTypeOK
    <2>. QED  BY <1>b, <2>4, <2>5
<1>3. CASE CheckAndRun
    <2>1. StewardshipTypeOK' /\ InitiativeOK'
        BY <1>3, CheckpointKeepsInitiative DEF CheckAndRun, CheckpointAndRecover
    <2>2. SupplyTypeOK'
        BY <1>3, <1>a, BurnBounded DEF CheckAndRun, CheckpointAndRecover, SupplyTypeOK, marketVars
    <2>. QED  BY <1>b, <2>1, <2>2
<1>4. CASE StewardshipCheckpoint
    <2>1. StewardshipTypeOK' /\ InitiativeOK'
        BY <1>4, CheckpointKeepsInitiative DEF StewardshipCheckpoint
    <2>. QED  BY <1>4, <1>b, <1>d, <2>1 DEF StewardshipCheckpoint
<1>5. ASSUME NEW p \in RewardPercentages, NEW r \in MinCollateralRatios,
             NEW v \in MaxHealthViolations, NEW d \in InitiativeDurations,
             StartStewardship(p, r, v, d)
      PROVE  MotherboardInv'
    <2>1. now \in Nat /\ d \in Nat /\ d > 0 /\ r >= ONE
        BY <1>5, <1>a DEF StartStewardship, StartInitiative, StewardshipTypeOK
    <2>2. activeInitiative' \in Initiative
        BY <1>5, <2>1 DEF StartStewardship, StartInitiative, Initiative
    <2>3. StewardshipTypeOK'
        BY <1>5, <1>a, <2>1, <2>2 DEF StartStewardship, StartInitiative, StewardshipTypeOK
    <2>4. InitiativeOK'
        BY <1>5, <2>1 DEF StartStewardship, StartInitiative, InitiativeOK
    <2>. QED  BY <1>5, <1>b, <1>d, <2>3, <2>4 DEF StartStewardship
<1>6. ASSUME EndInitiative
      PROVE  activeInitiative' \in Initiative /\ InitiativeOK'
    BY <1>6, <1>a DEF EndInitiative, StewardshipTypeOK, Initiative, InitiativeOK, HasActiveInitiative
<1>7. CASE CancelStewardship
    <2>1. StewardshipTypeOK'
        BY <1>6, <1>7, <1>a DEF CancelStewardship, CancelInitiative, StewardshipTypeOK, historyVars
    <2>. QED  BY <1>6, <1>7, <1>b, <1>d, <2>1 DEF CancelStewardship, CancelInitiative
<1>8. CASE CompleteStewardship
    <2>1. StewardshipTypeOK'
        BY <1>6, <1>8, <1>a, CheckpointTypes
        DEF CompleteStewardship, CompleteInitiative, StewardshipTypeOK
    <2>2. SupplyTypeOK'
        <3>1. InitiativeReward(ReserveUSDValue, MintedSupply) \in Nat
            BY <1>8, RewardIsBacked DEF CompleteStewardship
        <3>2. circulating' \in Nat  BY <1>8, <1>a, <3>1 DEF CompleteStewardship, SupplyTypeOK
        <3>. QED  BY <1>8, <1>a, <3>2 DEF CompleteStewardship, SupplyTypeOK, recoveryVars
    <2>. QED  BY <1>6, <1>8, <1>b, <2>1, <2>2 DEF CompleteStewardship, CompleteInitiative
<1>9. ASSUME NEW amount \in BurnAmounts, BurnGyd(amount)
      PROVE  MotherboardInv'
    <2>1. SupplyTypeOK'  BY <1>9, <1>a DEF BurnGyd, SupplyTypeOK, recoveryVars
    <2>. QED  BY <1>9, <1>b, <1>c, <2>1 DEF BurnGyd
<1>10. ASSUME NEW amount \in RecoveryAmounts,
              DepositForRecovery(amount) \/ WithdrawFromRecovery(amount)
       PROVE  MotherboardInv'
    <2>1. SupplyTypeOK'
        BY <1>10, <1>a DEF DepositForRecovery, WithdrawFromRecovery, SupplyTypeOK
    <2>. QED  BY <1>10, <1>b, <1>c, <2>1 DEF DepositForRecovery, WithdrawFromRecovery
<1>11. ASSUME NEW amount \in BootstrappingAmounts,
              CreateBootstrapping(amount) \/ DestroyBootstrapping(amount)
       PROVE  MotherboardInv'
    <2>1. SupplyTypeOK'
        BY <1>11, <1>a DEF CreateBootstrapping, DestroyBootstrapping, SupplyTypeOK, recoveryVars
    <2>. QED  BY <1>11, <1>b, <1>c, <2>1 DEF CreateBootstrapping, DestroyBootstrapping
<1>12. CASE PriceMoves
    <2>1. SupplyTypeOK'  BY <1>12, <1>a DEF PriceMoves, SupplyTypeOK, recoveryVars, marketVars
    <2>. QED  BY <1>12, <1>b, <1>c, <2>1 DEF PriceMoves
<1>13. CASE Tick
    <2>1. StewardshipTypeOK'
        BY <1>13, <1>a DEF Tick, PassTime, StewardshipTypeOK, stewardshipVars
    <2>2. InitiativeOK'
        BY <1>13, <1>a
        DEF Tick, PassTime, StewardshipTypeOK, InitiativeOK, HasActiveInitiative, stewardshipVars
    <2>. QED  BY <1>13, <1>b, <1>d, <2>1, <2>2 DEF Tick
<1>14. CASE UNCHANGED vars
    BY <1>14, <1>b, <1>c, <1>d DEF vars
<1>. QED
    BY <1>1, <1>2, <1>3, <1>4, <1>5, <1>7, <1>8, <1>9, <1>10, <1>11, <1>12, <1>13, <1>14 DEF Next

LEMMA InvInit ==
    ASSUME Init
    PROVE  MotherboardInv
<1>1. StewardshipTypeOK  BY DEF Init, StewardshipInit, StewardshipTypeOK, Initiative
<1>2. InitiativeOK  BY DEF Init, StewardshipInit, InitiativeOK, HasActiveInitiative
<1>3. SupplyTypeOK  BY ONEAssumption DEF Init, SupplyTypeOK
<1>. QED  BY <1>1, <1>2, <1>3 DEF MotherboardInv, TypeOK, SupplyTypeOK

LEMMA MotherboardInvariance == Spec => []MotherboardInv
<1>1. Init => MotherboardInv  BY InvInit
<1>2. MotherboardInv /\ [Next]_vars => MotherboardInv'  BY InvStep
<1>. QED  BY <1>1, <1>2, PTL DEF Spec

-----------------------------------------------------------------------------
(* What a step does to the two sides of the account                        *)

\* A mint: tokens come in, and at most the GYD they are good for is created.
TokensAdded(amount) ==
    /\ amount \in Nat
    /\ reserveBalance' = reserveBalance + amount
    /\ MintedSupply' <= MintedSupply + GydForVaultTokens(amount)
    /\ UNCHANGED vaultPrice

\* A redemption or a burn: tokens go out for at least as much GYD.
TokensPaid(amount) ==
    /\ amount \in Nat /\ amount <= reserveBalance
    /\ reserveBalance' = reserveBalance - amount
    /\ MintedSupply' <= MintedSupply - amount
    /\ UNCHANGED vaultPrice

\* A reward: the supply grows up to the value of the reserve.
WithinReserve ==
    /\ MintedSupply' <= ReserveUSDValue
    /\ UNCHANGED <<reserveBalance, vaultPrice>>

\* A step that moves GYD about, or the price.
SameAccounts == MintedSupply' = MintedSupply /\ UNCHANGED reserveBalance

LEMMA StepAccounts ==
    ASSUME MotherboardInv, [Next]_vars
    PROVE  \/ \E amount \in Nat : TokensAdded(amount) \/ TokensPaid(amount)
           \/ WithinReserve
           \/ SameAccounts
<1>a. SupplyTypeOK  BY DEF MotherboardInv, TypeOK, SupplyTypeOK
<1>b. BurntGyd \in Nat  BY <1>a, BurnBounded
<1>c. RunRecovery => recoveryGyd' = recoveryGyd - BurntGyd  BY DEF RunRecovery
<1>. HIDE DEF BurntGyd
<1>1. ASSUME NEW amount \in VaultAmounts, Mint(amount)
      PROVE  TokensAdded(amount)
    <2>1. amount \in Nat /\ GydForVaultTokens(amount) \in Nat  BY <1>a, MintIsBacked
    <2>. HIDE DEF GydForVaultTokens
    <2>2. MintedSupply' = MintedSupply - BurntGyd + GydForVaultTokens(amount)
        BY <1>1, <1>a, <1>b, <1>c, <2>1
        DEF Mint, CheckpointAndRecover, MintedSupply, TotalSupply, SupplyTypeOK
    <2>3. MintedSupply \in Int  BY <1>a, Values
    <2>. QED
        <3>. HIDE DEF MintedSupply
        <3>. QED  BY <1>1, <1>b, <2>1, <2>2, <2>3 DEF Mint, TokensAdded
<1>2. ASSUME NEW amount \in GydAmounts, Redeem(amount)
      PROVE  \E paid \in Nat : TokensPaid(paid)
    <2>1. PICK usdValue \in PammRedeemValues(amount, SupplyAfterRecovery) :
            /\ VaultTokensForUSD(usdValue) <= reserveBalance
            /\ reserveBalance' = reserveBalance - VaultTokensForUSD(usdValue)
        BY <1>2 DEF Redeem
    <2>2. amount \in Nat /\ VaultTokensForUSD(usdValue) \in Nat
          /\ VaultTokensForUSD(usdValue) <= amount
        BY <1>a, RedeemIsCovered
    <2>3. MintedSupply' = MintedSupply - BurntGyd - amount
        BY <1>2, <1>a, <1>b, <1>c, <2>2
        DEF Redeem, CheckpointAndRecover, MintedSupply, TotalSupply, SupplyTypeOK
    <2>4. MintedSupply \in Int  BY <1>a, Values
    <2>5. TokensPaid(VaultTokensForUSD(usdValue))
        <3>. HIDE DEF MintedSupply, VaultTokensForUSD
        <3>. QED  BY <1>2, <1>b, <2>1, <2>2, <2>3, <2>4 DEF Redeem, TokensPaid
    <2>. QED  BY <2>2, <2>5
<1>3. ASSUME CheckAndRun \/ \E amount \in BurnAmounts : BurnGyd(amount)
      PROVE  TokensPaid(0)
    <2>1. MintedSupply' <= MintedSupply /\ UNCHANGED <<reserveBalance, vaultPrice>>
        BY <1>3, <1>a, <1>b, <1>c
        DEF CheckAndRun, CheckpointAndRecover, BurnGyd, MintedSupply, TotalSupply,
            SupplyTypeOK, marketVars, recoveryVars
    <2>2. MintedSupply \in Int /\ reserveBalance \in Nat  BY <1>a, Values DEF SupplyTypeOK
    <2>3. MintedSupply' \in Int
        BY <1>3, <1>a, <1>b, <1>c
        DEF CheckAndRun, CheckpointAndRecover, BurnGyd, MintedSupply, TotalSupply,
            SupplyTypeOK, marketVars, recoveryVars
    <2>. HIDE DEF MintedSupply
    <2>. QED  BY <2>1, <2>2, <2>3 DEF TokensPaid
<1>4. CASE CompleteStewardship
    <2>. DEFINE reward == InitiativeReward(ReserveUSDValue, MintedSupply)
    <2>1. reward \in Nat /\ MintedSupply + reward <= ReserveUSDValue
        BY <1>4, RewardIsBacked DEF CompleteStewardship
    <2>2. circulating' = circulating + reward
          /\ UNCHANGED <<recoveryGyd, bootstrappingSupply, reserveBalance, vaultPrice>>
        BY <1>4 DEF CompleteStewardship, recoveryVars
    <2>. HIDE DEF reward
    <2>3. MintedSupply' = MintedSupply + reward
        BY <1>a, <2>1, <2>2 DEF MintedSupply, TotalSupply, SupplyTypeOK
    <2>. QED  BY <2>1, <2>2, <2>3 DEF WithinReserve
<1>5. ASSUME \/ \E amount \in RecoveryAmounts :
                    DepositForRecovery(amount) \/ WithdrawFromRecovery(amount)
             \/ \E amount \in BootstrappingAmounts :
                    CreateBootstrapping(amount) \/ DestroyBootstrapping(amount)
      PROVE  SameAccounts
    BY <1>5, <1>a
    DEF DepositForRecovery, WithdrawFromRecovery, CreateBootstrapping, DestroyBootstrapping,
        SameAccounts, MintedSupply, TotalSupply, SupplyTypeOK, recoveryVars
<1>6. ASSUME \/ StewardshipCheckpoint \/ CancelStewardship \/ PriceMoves \/ Tick
             \/ \E p \in RewardPercentages, r \in MinCollateralRatios,
                   v \in MaxHealthViolations, d \in InitiativeDurations :
                        StartStewardship(p, r, v, d)
             \/ UNCHANGED vars
      PROVE  SameAccounts
    <2>1. UNCHANGED <<recoveryVars, marketVars>>
        BY <1>6 DEF StewardshipCheckpoint, CancelStewardship, StartStewardship, PriceMoves, Tick, vars
    <2>. QED  BY <2>1 DEF SameAccounts, MintedSupply, TotalSupply, recoveryVars, marketVars
<1>. QED  BY <1>1, <1>2, <1>3, <1>4, <1>5, <1>6 DEF Next

-----------------------------------------------------------------------------
(* The theorems                                                            *)

\* Every operation leaves every variable in its type: no subtraction of the orders, the
\* recovery burn and the stewardship rewards underflows, and the factor stays positive.
THEOREM MotherboardTypeCorrect == Spec => []TypeOK
<1>1. MotherboardInv => TypeOK  BY DEF MotherboardInv
<1>. QED  BY <1>1, MotherboardInvariance, PTL

LEMMA ParBackedStep ==
    ASSUME MotherboardInv, ParBacked, [Next]_vars
    PROVE  ParBacked'
<1>1. SupplyTypeOK /\ SupplyTypeOK'
    BY InvStep DEF MotherboardInv, TypeOK, SupplyTypeOK
<1>2. MintedSupply \in Int /\ ReserveUSDValue \in Nat /\ ReserveUSDValue <= reserveBalance
    BY <1>1, Values
<1>3. MintedSupply' \in Int  BY <1>1 DEF MintedSupply, TotalSupply, SupplyTypeOK
<1>4. reserveBalance \in Nat /\ reserveBalance >= MintedSupply  BY <1>1 DEF SupplyTypeOK, ParBacked
<1>. HIDE DEF MintedSupply, ReserveUSDValue
<1>5. ASSUME NEW amount \in Nat, TokensAdded(amount) PROVE ParBacked'
    <2>1. GydForVaultTokens(amount) \in Nat /\ GydForVaultTokens(amount) <= amount
        BY <1>1, MintIsBacked
    <2>. HIDE DEF GydForVaultTokens
    <2>. QED  BY <1>2, <1>3, <1>4, <1>5, <2>1 DEF TokensAdded, ParBacked
<1>6. ASSUME NEW amount \in Nat, TokensPaid(amount) PROVE ParBacked'
    BY <1>2, <1>3, <1>4, <1>6 DEF TokensPaid, ParBacked
<1>7. CASE WithinReserve  BY <1>2, <1>3, <1>4, <1>7 DEF WithinReserve, ParBacked
<1>8. CASE SameAccounts  BY <1>4, <1>8 DEF SameAccounts, ParBacked
<1>. QED  BY <1>5, <1>6, <1>7, <1>8, StepAccounts

\* Started with a token for every GYD, the reserve of the Motherboard holds a token for
\* every GYD for good, for any prices, fees, ratios and amounts.
THEOREM ParBackedAlways ==
    ASSUME InitialReserve >= InitialSupply
    PROVE  Spec => []ParBacked
<1>1. Init => ParBacked
    BY DEF Init, ParBacked, MintedSupply, TotalSupply
<1>2. MotherboardInv /\ ParBacked /\ [Next]_vars => ParBacked'  BY ParBackedStep
<1>. QED  BY <1>1, <1>2, MotherboardInvariance, PTL DEF Spec

LEMMA BackingStep ==
    ASSUME MotherboardInv, [Next]_vars, vaultPrice' = vaultPrice, ReserveUSDValue >= MintedSupply
    PROVE  ReserveUSDValue' >= MintedSupply'
<1>. DEFINE q == LowerBoundUSDPrice
            value(balance) == MulDown(balance, q)
<1>1. SupplyTypeOK /\ SupplyTypeOK'
    BY InvStep DEF MotherboardInv, TypeOK, SupplyTypeOK
<1>2. q \in Nat /\ q <= ONE /\ reserveBalance \in Nat /\ reserveBalance' \in Nat
    BY <1>1, Values DEF SupplyTypeOK
<1>3. MintedSupply \in Int /\ MintedSupply' \in Int
    BY <1>1 DEF MintedSupply, TotalSupply, SupplyTypeOK
<1>4. ReserveUSDValue = value(reserveBalance) /\ ReserveUSDValue' = value(reserveBalance')
    BY DEF ReserveUSDValue, LowerBoundUSDPrice
<1>. HIDE DEF q
<1>5. value(reserveBalance) \in Nat /\ value(reserveBalance') \in Nat  BY <1>2, MulDownNat
<1>6. ASSUME NEW amount \in Nat, TokensAdded(amount) PROVE ReserveUSDValue' >= MintedSupply'
    <2>1. GydForVaultTokens(amount) \in Nat
          /\ value(reserveBalance + amount) >= ReserveUSDValue + GydForVaultTokens(amount)
        BY <1>1, MintIsBacked DEF q
    <2>2. value(reserveBalance') = value(reserveBalance + amount)  BY <1>6 DEF TokensAdded
    <2>3. MintedSupply' <= MintedSupply + GydForVaultTokens(amount)  BY <1>6 DEF TokensAdded
    <2>. HIDE DEF GydForVaultTokens, MintedSupply, ReserveUSDValue, value
    <2>. QED  BY <1>3, <1>4, <1>5, <2>1, <2>2, <2>3
<1>7. ASSUME NEW amount \in Nat, TokensPaid(amount) PROVE ReserveUSDValue' >= MintedSupply'
    <2>1. amount <= reserveBalance /\ MintedSupply' <= MintedSupply - amount
          /\ value(reserveBalance') = value(reserveBalance - amount)
        BY <1>7 DEF TokensPaid
    <2>2. value(reserveBalance - amount) + amount >= value(reserveBalance)
        BY <1>2, <2>1, ValueTaken
    <2>. HIDE DEF MintedSupply, ReserveUSDValue, value
    <2>. QED  BY <1>3, <1>4, <1>5, <2>1, <2>2
<1>8. CASE WithinReserve
    <2>1. value(reserveBalance') = value(reserveBalance) /\ MintedSupply' <= ReserveUSDValue
        BY <1>8 DEF WithinReserve
    <2>. HIDE DEF MintedSupply, ReserveUSDValue, value
    <2>. QED  BY <1>3, <1>4, <1>5, <2>1
<1>9. CASE SameAccounts
    <2>1. value(reserveBalance') = value(reserveBalance) /\ MintedSupply' = MintedSupply
        BY <1>9 DEF SameAccounts
    <2>. HIDE DEF MintedSupply, ReserveUSDValue, value
    <2>. QED  BY <1>3, <1>4, <1>5, <2>1
<1>. QED  BY <1>6, <1>7, <1>8, <1>9, StepAccounts

\* No operation takes the collateral ratio from one or more to less than one while the
\* price stays, for any prices, fees, ratios and amounts.
THEOREM BackingAlwaysKept == Spec => BackingKept
<1>1. MotherboardInv /\ [Next]_vars
        => [/\ vaultPrice' = vaultPrice
            /\ ReserveUSDValue >= MintedSupply
            => (ReserveUSDValue >= MintedSupply)']_vars
    BY BackingStep
<1>. QED  BY <1>1, MotherboardInvariance, PTL DEF Spec, BackingKept

-----------------------------------------------------------------------------
(* The aggregate of the supply                                             *)

\* Over no time, no supply counts.
LEMMA NoTimeNoSupply ==
    ASSUME NEW time \in Nat, NEW supply \in Int
    PROVE  (time - time) * supply = 0
<1>1. time - time = 0  OBVIOUS
<1>. QED  BY <1>1

\* Over the same time, less supply counts less.
LEMMA LessSupply ==
    ASSUME NEW time \in Nat, NEW supply \in Int, NEW less \in Int, less <= supply
    PROVE  time * less \in Int /\ time * less <= time * supply
<1>. DEFINE rest == supply - less
<1>1. rest \in Nat  OBVIOUS
<1>2. time * rest \in Nat
    <2>. HIDE DEF rest
    <2>. QED  BY <1>1, ProductNat
<1>3. time * rest = time * supply - time * less  OBVIOUS
<1>4. time * less \in Int /\ time * supply \in Int  OBVIOUS
<1>. HIDE DEF rest
<1>. QED  BY <1>2, <1>3, <1>4

\* The integral of the supply as a checkpoint made now would leave it.
Aggregate == UpdatedAggSupply(MintedSupply).aggSupply

\* A checkpoint leaves the integral for the supply at hand, whatever the supply is after
\* it: no time has passed since.
LEMMA CheckpointKeepsAggregate ==
    ASSUME MotherboardInv, HasActiveInitiative, Checkpoint, MintedSupply' \in Int,
           UNCHANGED <<now, activeInitiative>>
    PROVE  Aggregate' = Aggregate
<1>1. HasActiveInitiative'  BY DEF HasActiveInitiative
<1>. DEFINE t == MinOf(now, activeInitiative.endTime)
<1>2. t \in Nat  BY DEF MotherboardInv, TypeOK, StewardshipTypeOK, Initiative, MinOf
<1>3. Aggregate \in Nat  BY CheckpointTypes DEF Checkpoint, Aggregate
<1>4. aggSupply'.lastUpdatedTime = t /\ aggSupply'.aggSupply = Aggregate
    BY DEF Checkpoint, CheckpointInitiative, UpdatedAggSupply, Aggregate
<1>5. Aggregate' = aggSupply'.aggSupply + (t - aggSupply'.lastUpdatedTime) * MintedSupply'
    BY <1>1 DEF UpdatedAggSupply, Aggregate
<1>6. (t - t) * MintedSupply' = 0  BY <1>2, NoTimeNoSupply
<1>. HIDE DEF t, MintedSupply, Aggregate
<1>. QED  BY <1>3, <1>4, <1>5, <1>6

\* What a step may do to the integral a checkpoint would leave, and to the supply that
\* was there each moment: both start at nothing and grow by the same amount, but for a
\* burn, which takes the supply it destroys out of the time since the last checkpoint.
LEMMA AggregateMoves ==
    ASSUME MotherboardInv, supplySeconds \in Int, [Next]_vars
    PROVE  /\ supplySeconds' \in Int /\ (HasActiveInitiative => Aggregate \in Int)
           /\ \/ ~HasActiveInitiative'
              \/ Aggregate' = supplySeconds'
              \/ /\ HasActiveInitiative
                 /\ Aggregate' = Aggregate + (supplySeconds' - supplySeconds)
              \/ /\ HasActiveInitiative /\ BurnAmounts # {}
                 /\ Aggregate' \in Int /\ Aggregate' <= Aggregate
                 /\ supplySeconds' = supplySeconds
<1>. DEFINE end == activeInitiative.endTime
            last == aggSupply.lastUpdatedTime
            span == MinOf(now, end) - last
<1>a. SupplyTypeOK /\ SupplyTypeOK'  BY InvStep DEF MotherboardInv, TypeOK, SupplyTypeOK
<1>b. MintedSupply \in Int  BY <1>a, Values
<1>c. MintedSupply' \in Int  BY <1>a DEF MintedSupply, TotalSupply, SupplyTypeOK
<1>d. /\ now \in Nat /\ activeInitiative \in Initiative
      /\ aggSupply \in [lastUpdatedTime : Nat, aggSupply : Nat]
    BY DEF MotherboardInv, TypeOK, StewardshipTypeOK
<1>e. end \in Nat /\ last \in Nat /\ aggSupply.aggSupply \in Nat  BY <1>d DEF Initiative
<1>f. HasActiveInitiative => Aggregate = aggSupply.aggSupply + span * MintedSupply
    BY DEF Aggregate, UpdatedAggSupply
<1>g. span \in Int  BY <1>d, <1>e DEF MinOf
<1>h. span * MintedSupply \in Int
    <2>. HIDE DEF span, MintedSupply
    <2>. QED  BY <1>b, <1>g
<1>i. HasActiveInitiative => Aggregate \in Int
    <2>. HIDE DEF span, MintedSupply, Aggregate
    <2>. QED  BY <1>e, <1>f, <1>h
<1>1. CASE UNCHANGED <<now, activeInitiative, supplySeconds>> /\ Checkpoint
    <2>1. HasActiveInitiative' = HasActiveInitiative  BY <1>1 DEF HasActiveInitiative
    <2>2. HasActiveInitiative => Aggregate' = Aggregate
        BY <1>1, <1>c, CheckpointKeepsAggregate
    <2>. HIDE DEF Aggregate
    <2>. QED  BY <1>1, <1>i, <2>1, <2>2
<1>2. CASE /\ UNCHANGED <<now, activeInitiative, aggSupply, supplySeconds>>
           /\ MintedSupply' = MintedSupply
    <2>1. HasActiveInitiative' = HasActiveInitiative  BY <1>2 DEF HasActiveInitiative
    <2>2. Aggregate' = Aggregate
        <3>. HIDE DEF MintedSupply
        <3>. QED  BY <1>2 DEF Aggregate, HasActiveInitiative, UpdatedAggSupply
    <2>. HIDE DEF Aggregate
    <2>. QED  BY <1>2, <1>i, <2>1, <2>2
<1>3. CASE EndInitiative /\ UNCHANGED supplySeconds
    <2>1. activeInitiative'.endTime = 0  BY <1>3, <1>d DEF EndInitiative, Initiative
    <2>2. ~HasActiveInitiative'  BY <2>1 DEF HasActiveInitiative
    <2>. QED  BY <1>3, <1>i, <2>2
<1>4. ASSUME NEW p \in RewardPercentages, NEW r \in MinCollateralRatios,
             NEW v \in MaxHealthViolations, NEW d \in InitiativeDurations,
             StartStewardship(p, r, v, d)
      PROVE  /\ ~HasActiveInitiative /\ supplySeconds' = 0
             /\ HasActiveInitiative' => Aggregate' = 0
    <2>1. d \in Nat /\ MinOf(now, now + d) = now  BY <1>d DEF MinOf
    <2>2. /\ now' = now /\ activeInitiative'.endTime = now + d /\ supplySeconds' = 0
          /\ aggSupply' = [lastUpdatedTime |-> now, aggSupply |-> 0] /\ ~HasActiveInitiative
        BY <1>4 DEF StartStewardship, StartInitiative
    <2>3. MinOf(now, activeInitiative.endTime)' = now  BY <2>1, <2>2 DEF MinOf
    <2>4. (now - now) * MintedSupply' = 0  BY <1>c, <1>d, NoTimeNoSupply
    <2>. HIDE DEF MintedSupply
    <2>5. HasActiveInitiative' => Aggregate' = 0 + (now - now) * MintedSupply'
        BY <2>2, <2>3 DEF Aggregate, UpdatedAggSupply
    <2>. QED  BY <2>2, <2>4, <2>5
<1>5. CASE Tick
    <2>1. /\ now' = now + 1
          /\ UNCHANGED <<activeInitiative, aggSupply>>
          /\ supplySeconds' = IF HasActiveInitiative /\ now < end
                              THEN supplySeconds + MintedSupply ELSE supplySeconds
          /\ MintedSupply' = MintedSupply
        BY <1>5 DEF Tick, PassTime, stewardshipVars, MintedSupply, TotalSupply,
                    recoveryVars, marketVars
    <2>. HIDE DEF MintedSupply
    <2>2. HasActiveInitiative' = HasActiveInitiative  BY <2>1 DEF HasActiveInitiative
    <2>. DEFINE later == MinOf(now + 1, end) - last
    <2>3. HasActiveInitiative => Aggregate' = aggSupply.aggSupply + later * MintedSupply
        BY <2>1, <2>2 DEF Aggregate, UpdatedAggSupply, MinOf
    <2>4. supplySeconds' \in Int  BY <1>b, <2>1
    <2>. HIDE DEF Aggregate
    <2>5. CASE HasActiveInitiative /\ now < end
        <3>1. later = span + 1  BY <1>d, <1>e, <2>5 DEF MinOf
        <3>. HIDE DEF span, later, end
        <3>2. later * MintedSupply = span * MintedSupply + MintedSupply
            BY <1>b, <1>g, <3>1
        <3>. DEFINE after == later * MintedSupply
                    spent == span * MintedSupply
        <3>3. /\ after = spent + MintedSupply /\ spent \in Int
              /\ Aggregate' = aggSupply.aggSupply + after
              /\ Aggregate = aggSupply.aggSupply + spent
            BY <1>f, <1>h, <2>3, <2>5, <3>2
        <3>. HIDE DEF after, spent
        <3>4. Aggregate' = Aggregate + MintedSupply  BY <1>b, <1>e, <3>3
        <3>. QED  BY <1>b, <1>i, <2>1, <2>2, <2>4, <2>5, <3>4
    <2>6. CASE HasActiveInitiative /\ ~(now < end)
        <3>1. later = span  BY <1>d, <1>e, <2>6 DEF MinOf
        <3>. HIDE DEF span, later
        <3>2. Aggregate' = Aggregate  BY <1>f, <2>3, <2>6, <3>1
        <3>. QED  BY <1>i, <2>1, <2>2, <2>4, <2>6, <3>2
    <2>. QED  BY <1>i, <2>2, <2>4, <2>5, <2>6
<1>6. CASE \/ \E amount \in RecoveryAmounts :
                    DepositForRecovery(amount) \/ WithdrawFromRecovery(amount)
           \/ \E amount \in BootstrappingAmounts :
                    CreateBootstrapping(amount) \/ DestroyBootstrapping(amount)
    <2>1. UNCHANGED <<now, activeInitiative, aggSupply, supplySeconds>>
        BY <1>6 DEF DepositForRecovery, WithdrawFromRecovery, CreateBootstrapping,
                    DestroyBootstrapping, stewardshipVars, historyVars
    <2>2. MintedSupply' = MintedSupply
        <3>1. SupplyTypeOK  BY <1>a
        <3>. QED
            BY <1>6, <3>1
            DEF DepositForRecovery, WithdrawFromRecovery, CreateBootstrapping,
                DestroyBootstrapping, MintedSupply, TotalSupply, SupplyTypeOK, recoveryVars
    <2>. QED  BY <1>2, <2>1, <2>2
<1>7. CASE \/ \E amount \in VaultAmounts : Mint(amount)
           \/ \E amount \in GydAmounts : Redeem(amount)
           \/ CheckAndRun \/ StewardshipCheckpoint
    BY <1>1, <1>7 DEF Mint, Redeem, CheckAndRun, CheckpointAndRecover, StewardshipCheckpoint
<1>8. CASE CancelStewardship \/ CompleteStewardship
    BY <1>3, <1>8 DEF CancelStewardship, CancelInitiative, CompleteStewardship,
                      CompleteInitiative, historyVars
<1>9. CASE PriceMoves \/ UNCHANGED vars
    <2>1. UNCHANGED <<now, activeInitiative, aggSupply, supplySeconds, recoveryVars, marketVars>>
        BY <1>9 DEF PriceMoves, vars, stewardshipVars, historyVars
    <2>2. MintedSupply' = MintedSupply
        BY <2>1 DEF MintedSupply, TotalSupply, recoveryVars, marketVars
    <2>. QED  BY <1>2, <2>1, <2>2
<1>10. ASSUME NEW amount \in BurnAmounts, BurnGyd(amount)
       PROVE  /\ HasActiveInitiative' = HasActiveInitiative /\ supplySeconds' = supplySeconds
              /\ HasActiveInitiative => Aggregate' \in Int /\ Aggregate' <= Aggregate
    <2>1. /\ UNCHANGED <<now, activeInitiative, aggSupply, supplySeconds>>
          /\ MintedSupply' <= MintedSupply
        BY <1>10, <1>a DEF BurnGyd, stewardshipVars, historyVars, recoveryVars, MintedSupply,
                           TotalSupply, SupplyTypeOK
    <2>2. HasActiveInitiative' = HasActiveInitiative  BY <2>1 DEF HasActiveInitiative
    <2>. SUFFICES ASSUME HasActiveInitiative
                  PROVE  Aggregate' \in Int /\ Aggregate' <= Aggregate
        BY <2>1, <2>2
    <2>3. span >= 0  BY <1>d, <1>e DEF MotherboardInv, InitiativeOK, MinOf
    <2>4. Aggregate' = aggSupply.aggSupply + span * MintedSupply'
        BY <2>1, <2>2 DEF Aggregate, UpdatedAggSupply
    <2>. HIDE DEF span, MintedSupply, Aggregate
    <2>5. span * MintedSupply' \in Int /\ span * MintedSupply' <= span * MintedSupply
        <3>1. MintedSupply' <= MintedSupply /\ span \in Nat  BY <1>g, <2>1, <2>3
        <3>. QED  BY <1>b, <1>c, <3>1, LessSupply
    <2>. QED  BY <1>e, <1>f, <1>h, <2>4, <2>5
<1>11. ASSUME \E p \in RewardPercentages, r \in MinCollateralRatios,
                 v \in MaxHealthViolations, d \in InitiativeDurations : StartStewardship(p, r, v, d)
       PROVE  /\ ~HasActiveInitiative /\ supplySeconds' = 0
              /\ HasActiveInitiative' => Aggregate' = 0
    BY <1>4, <1>11
<1>12. ASSUME \E amount \in BurnAmounts : BurnGyd(amount)
       PROVE  /\ HasActiveInitiative' = HasActiveInitiative /\ supplySeconds' = supplySeconds
              /\ HasActiveInitiative => Aggregate' \in Int /\ Aggregate' <= Aggregate
              /\ BurnAmounts # {}
    BY <1>10, <1>12
<1>. HIDE DEF Aggregate
<1>. QED  BY <1>5, <1>6, <1>7, <1>8, <1>9, <1>i, <1>11, <1>12 DEF Next

LEMMA AggregateInit == Init => supplySeconds = 0 /\ ~HasActiveInitiative
BY DEF Init, StewardshipInit, HasActiveInitiative

\* When no holder burns GYD behind the back of the incentives, the aggregate that decides
\* the reward is the integral of the minted supply: every order, recovery burn and reward
\* is preceded by a checkpoint that accounts for the time up to it, and what moves GYD
\* without a checkpoint leaves the minted supply alone.
THEOREM AggregateAlwaysExact ==
    ASSUME BurnAmounts = {}
    PROVE  Spec => []AggSupplyExact
<1>. DEFINE Exact == supplySeconds \in Int /\ AggSupplyExact
<1>1. Init => Exact  BY AggregateInit DEF AggSupplyExact
<1>2. MotherboardInv /\ Exact /\ [Next]_vars => Exact'
    BY AggregateMoves DEF AggSupplyExact, Aggregate
<1>3. Exact => AggSupplyExact  OBVIOUS
<1>. QED  BY <1>1, <1>2, <1>3, MotherboardInvariance, PTL DEF Spec

\* The aggregate counts no supply that was not there.
AggSupplyNotTooHigh == HasActiveInitiative => Aggregate <= supplySeconds

\* A holder who burns GYD tells nobody (GydToken.burn makes no checkpoint): the time since
\* the last checkpoint then counts with the supply that is left.  It counts for too little
\* and never for too much, so that whatever is burned and whenever, no initiative is
\* rewarded for GYD that was not in circulation.
THEOREM AggregateNeverTooHigh == Spec => []AggSupplyNotTooHigh
<1>. DEFINE Bounded == supplySeconds \in Int /\ AggSupplyNotTooHigh
<1>1. Init => Bounded  BY AggregateInit DEF AggSupplyNotTooHigh
<1>2. MotherboardInv /\ Bounded /\ [Next]_vars => Bounded'
    <2>. HIDE DEF Aggregate
    <2>. SUFFICES ASSUME MotherboardInv, Bounded, [Next]_vars PROVE Bounded'
        OBVIOUS
    <2>1. Aggregate' = supplySeconds' \/ Aggregate' # supplySeconds'  OBVIOUS
    <2>. QED  BY AggregateMoves DEF AggSupplyNotTooHigh
<1>3. Bounded => AggSupplyNotTooHigh  OBVIOUS
<1>. QED  BY <1>1, <1>2, <1>3, MotherboardInvariance, PTL DEF Spec

-----------------------------------------------------------------------------
(* What takes the minted supply below zero                                 *)

\* A step that destroys GYD which no check compares with the minted supply: the burn of
\* the recovery module on the way of an order or of checkAndRun, or a holder's.
Burns ==
    \/ BurntGyd > 0 /\ CheckpointAndRecover
    \/ \E amount \in BurnAmounts : BurnGyd(amount)

LEMMA DefinedIsPositive == ASSUME SupplyTypeOK PROVE MintedSupplyDefined <=> MintedSupply >= 0
BY DEF MintedSupplyDefined, MintedSupply, TotalSupply, SupplyTypeOK

LEMMA NotNegative ==
    ASSUME NEW c \in Nat, NEW r \in Nat, NEW b \in Nat, NEW m, m = c + r - b
    PROVE  m >= 0 => b <= c + r
OBVIOUS

LEMMA DefinedStep ==
    ASSUME MotherboardInv, MintedSupplyDefined, [Next]_vars, ~Burns
    PROVE  MintedSupplyDefined'
<1>a. SupplyTypeOK /\ SupplyTypeOK'  BY InvStep DEF MotherboardInv, TypeOK, SupplyTypeOK
<1>b. BurntGyd \in Nat  BY <1>a, BurnBounded
<1>c. MintedSupply \in Int /\ MintedSupply >= 0  BY <1>a, Values, DefinedIsPositive
<1>d. MintedSupply' \in Int /\ (MintedSupply' >= 0 => MintedSupplyDefined')
    <2>1. /\ circulating' \in Nat /\ recoveryGyd' \in Nat /\ bootstrappingSupply' \in Nat
          /\ SupplyTypeOK
        BY <1>a DEF SupplyTypeOK
    <2>2. MintedSupply' = circulating' + recoveryGyd' - bootstrappingSupply'
        BY <2>1 DEF MintedSupply, TotalSupply, SupplyTypeOK
    <2>3. bootstrappingSupply' <= circulating' + recoveryGyd' => MintedSupplyDefined'
        BY <2>1 DEF MintedSupplyDefined, TotalSupply, SupplyTypeOK
    <2>. HIDE DEF MintedSupply, MintedSupplyDefined
    <2>4. MintedSupply' \in Int  BY <2>1, <2>2
    <2>5. MintedSupply' >= 0 => bootstrappingSupply' <= circulating' + recoveryGyd'
        BY <2>1, <2>2, NotNegative
    <2>. QED  BY <2>3, <2>4, <2>5
<1>e. CheckpointAndRecover => recoveryGyd' = recoveryGyd
    <2>. SUFFICES ASSUME CheckpointAndRecover PROVE recoveryGyd' = recoveryGyd
        OBVIOUS
    <2>1. BurntGyd = 0  BY <1>b DEF Burns
    <2>. HIDE DEF BurntGyd
    <2>. QED  BY <1>a, <2>1 DEF CheckpointAndRecover, RunRecovery, SupplyTypeOK
<1>f. SupplyTypeOK  BY <1>a
<1>1. ASSUME NEW amount \in GydAmounts, Redeem(amount)
      PROVE  MintedSupply' >= 0
    <2>1. amount \in Nat /\ amount <= MintedSupply  BY <1>1 DEF Redeem, MayRedeem
    <2>2. MintedSupply' = MintedSupply - amount
        BY <1>1, <1>e, <1>f, <2>1 DEF Redeem, MintedSupply, TotalSupply, SupplyTypeOK
    <2>. HIDE DEF MintedSupply
    <2>. QED  BY <1>c, <2>1, <2>2
<1>2. ASSUME NEW amount \in VaultAmounts, Mint(amount)
      PROVE  MintedSupply' >= 0
    <2>1. amount \in Nat /\ GydForVaultTokens(amount) \in Nat  BY <1>a, MintIsBacked
    <2>. HIDE DEF GydForVaultTokens
    <2>2. MintedSupply' = MintedSupply + GydForVaultTokens(amount)
        BY <1>2, <1>e, <1>f, <2>1 DEF Mint, MintedSupply, TotalSupply, SupplyTypeOK
    <2>. HIDE DEF MintedSupply
    <2>. QED  BY <1>c, <2>1, <2>2
<1>3. CASE CompleteStewardship
    <2>. DEFINE reward == InitiativeReward(ReserveUSDValue, MintedSupply)
    <2>1. reward \in Nat  BY <1>3, RewardIsBacked DEF CompleteStewardship
    <2>2. circulating' = circulating + reward /\ UNCHANGED <<recoveryGyd, bootstrappingSupply>>
        BY <1>3 DEF CompleteStewardship, recoveryVars
    <2>. HIDE DEF reward
    <2>3. MintedSupply' = MintedSupply + reward
        BY <1>f, <2>1, <2>2 DEF MintedSupply, TotalSupply, SupplyTypeOK
    <2>. HIDE DEF MintedSupply
    <2>. QED  BY <1>c, <1>d, <2>1, <2>3
<1>4. CASE MintedSupply' = MintedSupply
    <2>. HIDE DEF MintedSupply
    <2>. QED  BY <1>c, <1>d, <1>4
<1>5. CASE \/ \E amount \in RecoveryAmounts :
                    DepositForRecovery(amount) \/ WithdrawFromRecovery(amount)
           \/ \E amount \in BootstrappingAmounts :
                    CreateBootstrapping(amount) \/ DestroyBootstrapping(amount)
    <2>1. MintedSupply' = MintedSupply
        BY <1>5, <1>f
        DEF DepositForRecovery, WithdrawFromRecovery, CreateBootstrapping,
            DestroyBootstrapping, MintedSupply, TotalSupply, SupplyTypeOK, recoveryVars
    <2>. QED  BY <1>4, <2>1
<1>6. CASE CheckAndRun
    BY <1>4, <1>6, <1>e DEF CheckAndRun, MintedSupply, TotalSupply, marketVars
<1>7. ASSUME \/ StewardshipCheckpoint \/ CancelStewardship \/ PriceMoves \/ Tick
             \/ \E p \in RewardPercentages, r \in MinCollateralRatios,
                   v \in MaxHealthViolations, d \in InitiativeDurations :
                        StartStewardship(p, r, v, d)
             \/ UNCHANGED vars
      PROVE  MintedSupply' = MintedSupply
    <2>1. UNCHANGED <<recoveryVars, marketVars>>
        BY <1>7 DEF StewardshipCheckpoint, CancelStewardship, StartStewardship, PriceMoves, Tick, vars
    <2>. QED  BY <2>1 DEF MintedSupply, TotalSupply, recoveryVars, marketVars
<1>8. ~(\E amount \in BurnAmounts : BurnGyd(amount))  BY DEF Burns
<1>. QED  BY <1>d, <1>1, <1>2, <1>3, <1>4, <1>5, <1>6, <1>7, <1>8 DEF Next

\* The check of the Motherboard that no more is redeemed than was minted fails its purpose
\* (mintedSupply() reverts afterwards) only where GYD is burned beside it: by the recovery
\* module, which runs inside the redemption after the check, or by a holder.
THEOREM OnlyBurnsUndefineSupply ==
    Spec => [][MintedSupplyDefined /\ ~MintedSupplyDefined' => Burns]_vars
<1>1. MotherboardInv /\ [Next]_vars
        => [MintedSupplyDefined /\ ~MintedSupplyDefined' => Burns]_vars
    BY DefinedStep
<1>. QED  BY <1>1, MotherboardInvariance, PTL DEF Spec

\* While nobody burns and nothing is deposited in the recovery module, the check does what
\* it is there for: the minted supply is never negative.
THEOREM SupplyDefinedWithoutBurns ==
    ASSUME BurnAmounts = {}, RecoveryAmounts = {}
    PROVE  Spec => []MintedSupplyDefined
<1>. DEFINE Quiet == recoveryGyd = 0 /\ MintedSupplyDefined
<1>1. Init => Quiet  BY DEF Init, MintedSupplyDefined, TotalSupply
<1>2. MotherboardInv /\ Quiet /\ [Next]_vars => Quiet'
    <2>. SUFFICES ASSUME MotherboardInv, Quiet, [Next]_vars PROVE Quiet'
        OBVIOUS
    <2>1. SupplyTypeOK  BY DEF MotherboardInv, TypeOK, SupplyTypeOK
    <2>2. BurntGyd = 0  BY <2>1, BurnBounded
    <2>3. MintedSupplyDefined'  BY <2>2, DefinedStep DEF Burns
    <2>4. recoveryGyd' = 0
        <3>1. CheckpointAndRecover => recoveryGyd' = 0
            <4>. HIDE DEF BurntGyd
            <4>. QED  BY <2>2 DEF CheckpointAndRecover, RunRecovery
        <3>2. CASE \/ \E amount \in VaultAmounts : Mint(amount)
                   \/ \E amount \in GydAmounts : Redeem(amount)
                   \/ CheckAndRun
            BY <3>1, <3>2 DEF Mint, Redeem, CheckAndRun
        <3>3. CASE \/ StewardshipCheckpoint \/ CancelStewardship \/ CompleteStewardship
                   \/ PriceMoves \/ Tick
                   \/ \E p \in RewardPercentages, r \in MinCollateralRatios,
                         v \in MaxHealthViolations, d \in InitiativeDurations :
                              StartStewardship(p, r, v, d)
                   \/ \E amount \in BootstrappingAmounts :
                           CreateBootstrapping(amount) \/ DestroyBootstrapping(amount)
                   \/ UNCHANGED vars
            BY <3>3 DEF StewardshipCheckpoint, CancelStewardship, CompleteStewardship,
                        PriceMoves, Tick, StartStewardship, CreateBootstrapping,
                        DestroyBootstrapping, vars, recoveryVars
        <3>. QED  BY <3>2, <3>3 DEF Next
    <2>. QED  BY <2>3, <2>4
<1>3. Quiet => MintedSupplyDefined  OBVIOUS
<1>. QED  BY <1>1, <1>2, <1>3, MotherboardInvariance, PTL DEF Spec

-----------------------------------------------------------------------------
(* The health of a rewarded initiative                                     *)

\* The counter of violations misses no low day: the date kept with it is the latest of
\* them, which is how a second violation of a day is told from the first of the next.
\* A date of zero stands for none, since no checkpoint is as early as day zero.
LowDaysCounted ==
    LET last == reserveHealthViolations.lastViolatedDate
    IN  HasActiveInitiative =>
            /\ IsFiniteSet(lowDays)
            /\ \A day \in lowDays : day <= last
            /\ last > 0 => last \in lowDays
            /\ last <= Today
            /\ Cardinality(lowDays) <= reserveHealthViolations.nViolations

HealthInv == MotherboardInv /\ now >= Genesis /\ LowDaysCounted

\* A step of time does not turn back the day, and no day is day zero.
LEMMA DaysPass ==
    ASSUME NEW time \in Nat, NEW later \in Nat, Genesis <= time, time <= later
    PROVE  /\ time \div DayLength \in Nat \ {0}
           /\ time \div DayLength <= later \div DayLength
<1>. DEFINE day == time \div DayLength
<1>1. DayLength \in Nat /\ DayLength > 0 /\ DayLength <= time  OBVIOUS
<1>2. day \in Nat /\ day * DayLength <= time  BY <1>1, Quotient
<1>3. 1 <= day
    <2>1. 1 * DayLength <= time  BY <1>1
    <2>. QED  BY <1>1, <2>1, QuotientAtLeast
<1>. HIDE DEF day
<1>4. day * DayLength \in Nat  BY <1>1, <1>2, ProductNat
<1>5. day * DayLength <= later  BY <1>2, <1>4
<1>6. day <= later \div DayLength  BY <1>1, <1>2, <1>5, QuotientAtLeast
<1>. QED  BY <1>2, <1>3, <1>6 DEF day

\* A checkpoint that adds a day to the history adds a violation to the counter, the
\* checkpoint of a completion included.
LEMMA CheckpointCounts ==
    ASSUME HealthInv, HasActiveInitiative,
           CheckpointInitiative(ReserveUSDValue, MintedSupply)
    PROVE  LET last == reserveHealthViolations'.lastViolatedDate
           IN  /\ IsFiniteSet(lowDays')
               /\ \A day \in lowDays' : day <= last
               /\ last > 0 => last \in lowDays'
               /\ last <= Today
               /\ Cardinality(lowDays') <= reserveHealthViolations'.nViolations
<1>. DEFINE low == IsLow(ReserveUSDValue, MintedSupply)
            last == reserveHealthViolations.lastViolatedDate
            count == reserveHealthViolations.nViolations
<1>1. /\ now \in Nat /\ now >= Genesis /\ lowDays \subseteq Nat
      /\ last \in Nat /\ count \in Nat
    BY DEF HealthInv, MotherboardInv, TypeOK, StewardshipTypeOK
<1>2. Today \in Nat \ {0}  BY <1>1, DaysPass DEF Today
<1>3. /\ IsFiniteSet(lowDays) /\ Cardinality(lowDays) \in Nat
      /\ Cardinality(lowDays) <= count
      /\ \A day \in lowDays : day <= last
      /\ last > 0 => last \in lowDays
      /\ last <= Today
    BY FS_CardinalityType DEF HealthInv, LowDaysCounted
<1>4. /\ lowDays' = IF low THEN lowDays \cup {Today} ELSE lowDays
      /\ reserveHealthViolations' =
            IF low /\ last < Today
            THEN [lastViolatedDate |-> Today, nViolations |-> count + 1]
            ELSE reserveHealthViolations
    BY DEF CheckpointInitiative, UpdatedViolations
<1>. HIDE DEF low, Today
<1>5. CASE ~low  BY <1>3, <1>4, <1>5
<1>6. CASE low /\ last = Today
    <2>1. lowDays' = lowDays  BY <1>2, <1>3, <1>4, <1>6
    <2>2. reserveHealthViolations' = reserveHealthViolations  BY <1>1, <1>4, <1>6
    <2>. QED  BY <1>3, <2>1, <2>2
<1>7. CASE low /\ last < Today
    <2>1. lowDays' = lowDays \cup {Today} /\ reserveHealthViolations'.lastViolatedDate = Today
          /\ reserveHealthViolations'.nViolations = count + 1
        BY <1>4, <1>7
    <2>2. IsFiniteSet(lowDays') /\ Cardinality(lowDays') <= Cardinality(lowDays) + 1
        <3>1. /\ IsFiniteSet(lowDays \cup {Today})
              /\ Cardinality(lowDays \cup {Today})
                    = IF Today \in lowDays THEN Cardinality(lowDays) ELSE Cardinality(lowDays) + 1
            BY <1>3, FS_AddElement
        <3>. QED  BY <1>3, <2>1, <3>1
    <2>3. \A day \in lowDays' : day <= Today  BY <1>1, <1>2, <1>3, <1>7, <2>1
    <2>4. Cardinality(lowDays') <= count + 1
        BY <1>1, <1>3, <2>2, FS_CardinalityType
    <2>. QED  BY <1>2, <2>1, <2>2, <2>3, <2>4
<1>. QED  BY <1>1, <1>2, <1>3, <1>5, <1>6, <1>7

LEMMA HealthStep ==
    ASSUME HealthInv, [Next]_vars
    PROVE  HealthInv'
<1>a. MotherboardInv /\ MotherboardInv'  BY InvStep DEF HealthInv
<1>b. now \in Nat /\ now >= Genesis /\ activeInitiative \in Initiative
    BY <1>a DEF HealthInv, MotherboardInv, TypeOK, StewardshipTypeOK
<1>1. ASSUME Checkpoint, UNCHANGED <<now, activeInitiative>>
      PROVE  HealthInv'
    <2>. SUFFICES ASSUME HasActiveInitiative' PROVE LowDaysCounted'
        BY <1>a, <1>b, <1>1 DEF HealthInv, LowDaysCounted
    <2>1. HasActiveInitiative /\ Today' = Today
        BY <1>1 DEF HasActiveInitiative, Today
    <2>. QED  BY <1>1, <2>1, CheckpointCounts DEF Checkpoint, LowDaysCounted
<1>2. ASSUME UNCHANGED <<now, activeInitiative, reserveHealthViolations, lowDays>>
      PROVE  HealthInv'
    <2>1. LowDaysCounted'
        BY <1>2 DEF HealthInv, LowDaysCounted, HasActiveInitiative, Today
    <2>. QED  BY <1>a, <1>b, <1>2, <2>1 DEF HealthInv
<1>3. ASSUME EndInitiative, UNCHANGED now
      PROVE  HealthInv'
    <2>1. activeInitiative'.endTime = 0  BY <1>3, <1>b DEF EndInitiative, Initiative
    <2>2. ~HasActiveInitiative'  BY <2>1 DEF HasActiveInitiative
    <2>. QED  BY <1>a, <1>b, <1>3, <2>2 DEF HealthInv, LowDaysCounted
<1>4. ASSUME NEW p \in RewardPercentages, NEW r \in MinCollateralRatios,
             NEW v \in MaxHealthViolations, NEW d \in InitiativeDurations,
             StartStewardship(p, r, v, d)
      PROVE  HealthInv'
    <2>1. /\ lowDays' = {} /\ now' = now
          /\ reserveHealthViolations' = [lastViolatedDate |-> 0, nViolations |-> 0]
        BY <1>4 DEF StartStewardship, StartInitiative
    <2>2. IsFiniteSet(lowDays') /\ Cardinality(lowDays') = 0  BY <2>1, FS_EmptySet
    <2>3. Today' \in Nat  BY <1>b, <2>1, DaysPass DEF Today
    <2>4. LowDaysCounted'  BY <2>1, <2>2, <2>3 DEF LowDaysCounted
    <2>. QED  BY <1>a, <1>b, <2>1, <2>4 DEF HealthInv
<1>5. CASE Tick
    <2>1. now' = now + 1 /\ UNCHANGED <<activeInitiative, reserveHealthViolations, lowDays>>
        BY <1>5 DEF Tick, PassTime, stewardshipVars
    <2>2. Today \in Nat /\ Today' \in Nat /\ Today <= Today'
        <3>1. now + 1 \in Nat /\ Genesis <= now + 1 /\ now <= now + 1  BY <1>b
        <3>. QED  BY <1>b, <2>1, <3>1, DaysPass DEF Today
    <2>3. reserveHealthViolations.lastViolatedDate \in Nat
        BY <1>a DEF MotherboardInv, TypeOK, StewardshipTypeOK
    <2>. HIDE DEF Today
    <2>4. LowDaysCounted'
        BY <2>1, <2>2, <2>3 DEF HealthInv, LowDaysCounted, HasActiveInitiative
    <2>. QED  BY <1>a, <1>b, <2>1, <2>4 DEF HealthInv
<1>6. CASE \/ \E amount \in VaultAmounts : Mint(amount)
           \/ \E amount \in GydAmounts : Redeem(amount)
           \/ CheckAndRun \/ StewardshipCheckpoint
    BY <1>1, <1>6 DEF Mint, Redeem, CheckAndRun, CheckpointAndRecover, StewardshipCheckpoint
<1>7. CASE CancelStewardship \/ CompleteStewardship
    BY <1>3, <1>7 DEF CancelStewardship, CancelInitiative, CompleteStewardship, CompleteInitiative
<1>8. CASE \/ \E amount \in BurnAmounts : BurnGyd(amount)
           \/ \E amount \in RecoveryAmounts :
                    DepositForRecovery(amount) \/ WithdrawFromRecovery(amount)
           \/ \E amount \in BootstrappingAmounts :
                    CreateBootstrapping(amount) \/ DestroyBootstrapping(amount)
           \/ PriceMoves \/ UNCHANGED vars
    <2>1. UNCHANGED <<now, stewardshipVars, historyVars>>
        BY <1>8 DEF BurnGyd, DepositForRecovery, WithdrawFromRecovery, CreateBootstrapping,
                    DestroyBootstrapping, PriceMoves, vars
    <2>. QED  BY <1>2, <2>1 DEF stewardshipVars, historyVars
<1>. QED  BY <1>4, <1>5, <1>6, <1>7, <1>8 DEF Next

\* A reward is paid for few low days only, although the contract keeps a counter and a date
\* and not the days, and it leaves the supply within the ratio that was asked for.
THEOREM RewardsAlwaysGoodHealth == Spec => RewardsGoodHealth
<1>1. Init => HealthInv
    <2>. SUFFICES ASSUME Init PROVE HealthInv  OBVIOUS
    <2>1. ~HasActiveInitiative /\ now >= Genesis
        BY DEF Init, StewardshipInit, HasActiveInitiative
    <2>. QED  BY <2>1, InvInit DEF HealthInv, LowDaysCounted
<1>2. HealthInv /\ [Next]_vars => HealthInv'  BY HealthStep
<1>3. ASSUME HealthInv, CompleteStewardship
      PROVE  /\ Cardinality(lowDays') <= activeInitiative.maxHealthViolations
             /\ MintedSupply' <= MaxAllowedGYDSupply(ReserveUSDValue)
    <2>. DEFINE reward == InitiativeReward(ReserveUSDValue, MintedSupply)
                counted == reserveHealthViolations'.nViolations
    <2>1. MotherboardInv /\ CompleteInitiative(ReserveUSDValue, MintedSupply)
        BY <1>3 DEF HealthInv, CompleteStewardship
    <2>2. IsFiniteSet(lowDays') /\ Cardinality(lowDays') <= counted
        BY <1>3, <2>1, CheckpointCounts DEF CompleteInitiative
    <2>3. counted <= activeInitiative.maxHealthViolations
        BY <2>1 DEF CompleteInitiative, CheckpointInitiative, FewViolations
    <2>4. counted \in Nat /\ activeInitiative.maxHealthViolations \in Nat
        BY <2>1, CheckpointTypes DEF CompleteInitiative, MotherboardInv, TypeOK,
                                     StewardshipTypeOK, Initiative
    <2>5. Cardinality(lowDays') \in Nat  BY <2>2, FS_CardinalityType
    <2>6. reward \in Nat /\ MintedSupply + reward <= MaxAllowedGYDSupply(ReserveUSDValue)
        BY <2>1, RewardIsBacked
    <2>7. MintedSupply' = MintedSupply + reward
        <3>1. /\ circulating' = circulating + reward
              /\ UNCHANGED <<recoveryGyd, bootstrappingSupply>>
            BY <1>3 DEF CompleteStewardship, recoveryVars
        <3>2. circulating \in Nat /\ recoveryGyd \in Nat /\ bootstrappingSupply \in Nat
            BY <2>1 DEF MotherboardInv, TypeOK
        <3>. HIDE DEF reward
        <3>. QED  BY <2>6, <3>1, <3>2 DEF MintedSupply, TotalSupply
    <2>. HIDE DEF counted, reward
    <2>. QED  BY <2>2, <2>3, <2>4, <2>5, <2>6, <2>7
<1>4. HealthInv /\ [Next]_vars
        => [CompleteStewardship =>
              /\ Cardinality(lowDays') <= activeInitiative.maxHealthViolations
              /\ MintedSupply' <= MaxAllowedGYDSupply(ReserveUSDValue)]_vars
    BY <1>3
<1>. QED  BY <1>1, <1>2, <1>4, PTL DEF Spec, RewardsGoodHealth

-----------------------------------------------------------------------------
(* The reserve of BackedSupply                                             *)

\* GYD is minted for no more than the tokens are worth, nor for more than they are at par.
LEMMA MintAtPrice ==
    ASSUME SupplyTypeOK, NEW amount \in Nat
    PROVE  GydForVaultTokens(amount) * ONE <= amount * vaultPrice
<1>. DEFINE q == LowerBoundUSDPrice
            net == MulDown(amount, ONE - MintFee)
            gyd == MulDown(net, q)
<1>1. q \in Nat /\ q <= vaultPrice /\ vaultPrice \in Nat
    BY ONEAssumption DEF SupplyTypeOK, LowerBoundUSDPrice, MinOf
<1>2. net \in Nat /\ net <= amount  BY ONEAssumption, MulDownNat, MulDownBounds
<1>3. GydForVaultTokens(amount) = gyd  BY DEF GydForVaultTokens
<1>. HIDE DEF q, net
<1>4. gyd * ONE \in Nat /\ gyd * ONE <= net * q  BY <1>1, <1>2, MulDownFloor
<1>. HIDE DEF gyd
<1>5. net * q <= net * vaultPrice  BY <1>1, <1>2, ProductMono
<1>6. vaultPrice * net <= vaultPrice * amount  BY <1>1, <1>2, ProductMono
<1>7. net * q \in Nat /\ vaultPrice * net \in Nat /\ vaultPrice * amount \in Nat
      /\ net * vaultPrice = vaultPrice * net /\ amount * vaultPrice = vaultPrice * amount
    BY <1>1, <1>2, ProductNat
<1>. QED  BY <1>3, <1>4, <1>5, <1>6, <1>7

\* Tokens are paid out for no less GYD than they are worth.
LEMMA RedeemAtPrice ==
    ASSUME SupplyTypeOK, NEW amount \in Nat, NEW usdValue \in PammRedeemValues(amount, SupplyAfterRecovery)
    PROVE  VaultTokensForUSD(usdValue) * vaultPrice <= amount * ONE
<1>. DEFINE p == UpperBoundUSDPrice
            gross == DivDown(usdValue, p)
            paid == VaultTokensForUSD(usdValue)
<1>1. ONE \in Nat /\ usdValue \in Nat /\ usdValue <= amount
    BY ONEAssumption DEF PammRedeemValues
<1>2. p \in Nat /\ p > 0 /\ vaultPrice \in Nat /\ vaultPrice <= p
    BY ONEAssumption DEF SupplyTypeOK, UpperBoundUSDPrice, MaxOf
<1>. HIDE DEF p
<1>3. gross \in Nat /\ gross * p <= usdValue * ONE
    BY <1>1, <1>2, DivDownNat, ProductNat, Quotient DEF DivDown
<1>4. paid = MulDown(gross, ONE - RedeemFee)  BY DEF VaultTokensForUSD, p
<1>. HIDE DEF gross
<1>5. paid \in Nat /\ paid <= gross  BY <1>3, <1>4, ONEAssumption, MulDownNat, MulDownBounds
<1>. HIDE DEF paid
<1>6. paid * vaultPrice <= paid * p  BY <1>2, <1>5, ProductMono
<1>7. p * paid <= p * gross  BY <1>2, <1>3, <1>5, ProductMono
<1>8. ONE * usdValue <= ONE * amount  BY <1>1, ProductMono
<1>9. /\ paid * vaultPrice \in Nat /\ p * paid \in Nat /\ p * gross \in Nat
      /\ ONE * usdValue \in Nat /\ ONE * amount \in Nat
      /\ paid * p = p * paid /\ gross * p = p * gross
      /\ usdValue * ONE = ONE * usdValue /\ amount * ONE = ONE * amount
    BY <1>1, <1>2, <1>3, <1>5, ProductNat
<1>10. paid * vaultPrice <= amount * ONE  BY <1>3, <1>6, <1>7, <1>8, <1>9
<1>. QED  BY <1>10 DEF paid

\* What the reserve counts for is no more than its tokens are worth.
LEMMA ValueAtPrice ==
    ASSUME SupplyTypeOK
    PROVE  ReserveUSDValue * ONE <= reserveBalance * vaultPrice
<1>. DEFINE q == LowerBoundUSDPrice
            value == MulDown(reserveBalance, q)
<1>1. q \in Nat /\ q <= vaultPrice /\ vaultPrice \in Nat /\ reserveBalance \in Nat
    BY ONEAssumption DEF SupplyTypeOK, LowerBoundUSDPrice, MinOf
<1>2. ReserveUSDValue = value  BY DEF ReserveUSDValue
<1>. HIDE DEF q
<1>3. value * ONE \in Nat /\ value * ONE <= reserveBalance * q  BY <1>1, MulDownFloor
<1>. HIDE DEF value
<1>4. reserveBalance * q <= reserveBalance * vaultPrice  BY <1>1, ProductMono
<1>5. reserveBalance * q \in Nat /\ reserveBalance * vaultPrice \in Nat  BY <1>1, ProductNat
<1>. QED  BY <1>2, <1>3, <1>4, <1>5

LEMMA LedgerStep ==
    ASSUME MotherboardInv, [Next]_vars
    PROVE  Ledger!BackedNext \/ UNCHANGED Ledger!backedVars
<1>. DEFINE Held == circulating - bootstrappingSupply
            Same == Held' = Held /\ UNCHANGED <<recoveryGyd, reserveBalance, vaultPrice>>
<1>a. SupplyTypeOK /\ SupplyTypeOK'
    BY InvStep DEF MotherboardInv, TypeOK, SupplyTypeOK
<1>b. BurntGyd \in Nat /\ BurntGyd <= recoveryGyd  BY <1>a, BurnBounded
<1>c. Ledger!BackedTypeOK /\ Ledger!BackedTypeOK'
    BY <1>a DEF Ledger!BackedTypeOK, SupplyTypeOK
<1>d. RunRecovery => Ledger!PoolBurns
    <2>. SUFFICES ASSUME RunRecovery PROVE Ledger!PoolBurns  OBVIOUS
    <2>1. recoveryGyd' = recoveryGyd - BurntGyd  BY DEF RunRecovery
    <2>. HIDE DEF BurntGyd
    <2>. QED  BY <1>a, <1>b, <2>1 DEF Ledger!PoolBurns, SupplyTypeOK
<1>e. Same => UNCHANGED Ledger!backedVars  BY DEF Ledger!backedVars
<1>1. ASSUME NEW amount \in VaultAmounts, Mint(amount)
      PROVE  Ledger!Issue
    <2>1. amount \in Nat
          /\ GydForVaultTokens(amount) \in Nat /\ GydForVaultTokens(amount) <= amount
          /\ GydForVaultTokens(amount) * ONE <= amount * vaultPrice
        BY <1>a, MintIsBacked, MintAtPrice
    <2>2. /\ circulating' = circulating + GydForVaultTokens(amount)
          /\ reserveBalance' = reserveBalance + amount
          /\ UNCHANGED <<bootstrappingSupply, vaultPrice>>
          /\ Ledger!PoolBurns
        BY <1>1, <1>d DEF Mint, CheckpointAndRecover
    <2>. HIDE DEF GydForVaultTokens
    <2>3. Held' - Held = GydForVaultTokens(amount) /\ reserveBalance' - reserveBalance = amount
          /\ Held' >= Held /\ reserveBalance' >= reserveBalance
        BY <1>a, <2>1, <2>2 DEF SupplyTypeOK
    <2>. QED  BY <2>1, <2>2, <2>3 DEF Ledger!Issue
<1>2. ASSUME NEW amount \in GydAmounts, Redeem(amount)
      PROVE  Ledger!Pay
    <2>1. PICK usdValue \in PammRedeemValues(amount, SupplyAfterRecovery) :
            /\ VaultTokensForUSD(usdValue) <= reserveBalance
            /\ reserveBalance' = reserveBalance - VaultTokensForUSD(usdValue)
        BY <1>2 DEF Redeem
    <2>. DEFINE paid == VaultTokensForUSD(usdValue)
    <2>2. amount \in Nat /\ paid \in Nat /\ paid <= amount /\ paid * vaultPrice <= amount * ONE
        BY <1>a, RedeemIsCovered, RedeemAtPrice
    <2>3. /\ circulating' = circulating - amount
          /\ UNCHANGED <<bootstrappingSupply, vaultPrice>>
          /\ Ledger!PoolBurns
        BY <1>2, <1>d DEF Redeem, CheckpointAndRecover
    <2>4. paid <= reserveBalance /\ reserveBalance' = reserveBalance - paid  BY <2>1
    <2>. HIDE DEF paid
    <2>5. Held - Held' = amount /\ reserveBalance - reserveBalance' = paid
          /\ Held' <= Held /\ reserveBalance' \in 0..reserveBalance
        BY <1>a, <2>2, <2>3, <2>4 DEF SupplyTypeOK
    <2>. QED  BY <2>2, <2>3, <2>5 DEF Ledger!Pay
<1>3. ASSUME CheckAndRun \/ \E amount \in BurnAmounts : BurnGyd(amount)
      PROVE  Ledger!Pay
    <2>1. UNCHANGED <<bootstrappingSupply, reserveBalance, vaultPrice>> /\ Ledger!PoolBurns
        BY <1>3, <1>a, <1>d
        DEF CheckAndRun, CheckpointAndRecover, BurnGyd, marketVars, recoveryVars,
            Ledger!PoolBurns, SupplyTypeOK
    <2>2. PICK burnt \in Nat : circulating' = circulating - burnt
        BY <1>3, <1>a DEF CheckAndRun, BurnGyd, marketVars, SupplyTypeOK
    <2>3. Held' <= Held /\ Held - Held' = burnt /\ reserveBalance - reserveBalance' = 0
          /\ reserveBalance' \in 0..reserveBalance
        BY <1>a, <2>1, <2>2 DEF SupplyTypeOK
    <2>4. 0 * vaultPrice = 0 /\ burnt * ONE \in Nat  BY <1>a, ONEAssumption, ProductNat DEF SupplyTypeOK
    <2>. QED  BY <2>1, <2>3, <2>4 DEF Ledger!Pay
<1>4. ASSUME CompleteStewardship
      PROVE  Ledger!Reward
    <2>. DEFINE reward == InitiativeReward(ReserveUSDValue, MintedSupply)
    <2>1. reward \in Nat /\ MintedSupply + reward <= ReserveUSDValue
        BY <1>4, RewardIsBacked DEF CompleteStewardship
    <2>2. circulating' = circulating + reward
          /\ UNCHANGED <<recoveryGyd, bootstrappingSupply, reserveBalance, vaultPrice>>
        BY <1>4 DEF CompleteStewardship, recoveryVars
    <2>3. ReserveUSDValue \in Nat /\ ReserveUSDValue <= reserveBalance
          /\ ReserveUSDValue * ONE <= reserveBalance * vaultPrice
        BY <1>a, Values, ValueAtPrice
    <2>. DEFINE value == ReserveUSDValue
                after == Held' + recoveryGyd
    <2>. HIDE DEF reward
    <2>4. Held' >= Held /\ after = MintedSupply + reward /\ after \in Int
        BY <1>a, <2>1, <2>2 DEF MintedSupply, TotalSupply, SupplyTypeOK
    <2>5. after <= value  BY <2>1, <2>4
    <2>6. value \in Nat /\ value <= reserveBalance /\ value * ONE <= reserveBalance * vaultPrice
        BY <2>3
    <2>7. reserveBalance \in Nat /\ reserveBalance * vaultPrice \in Nat
        BY <1>a, ProductNat DEF SupplyTypeOK
    <2>. HIDE DEF value, after
    <2>8. after * ONE <= value * ONE /\ after * ONE \in Int /\ value * ONE \in Nat
        <3>1. PICK d \in Nat : value = after + d
            <4>1. value - after \in Nat /\ value = after + (value - after)
                BY <2>4, <2>5, <2>6
            <4>. QED  BY <4>1
        <3>2. (after + d) * ONE = after * ONE + d * ONE  BY <2>4, ONEAssumption
        <3>3. after * ONE \in Int /\ d * ONE \in Nat  BY <2>4, ONEAssumption, ProductNat
        <3>. QED  BY <3>1, <3>2, <3>3, <2>6, ONEAssumption, ProductNat
    <2>9. after <= reserveBalance /\ after * ONE <= reserveBalance * vaultPrice
        BY <2>4, <2>5, <2>6, <2>7, <2>8
    <2>. QED  BY <2>2, <2>4, <2>9 DEF Ledger!Reward, after
<1>5. ASSUME NEW amount \in RecoveryAmounts,
             DepositForRecovery(amount) \/ WithdrawFromRecovery(amount)
      PROVE  Ledger!Transfer
    <2>1. amount \in Nat  OBVIOUS
    <2>2. /\ \/ circulating' = circulating - amount /\ recoveryGyd' = recoveryGyd + amount
             \/ circulating' = circulating + amount /\ recoveryGyd' = recoveryGyd - amount
          /\ UNCHANGED <<bootstrappingSupply, reserveBalance, vaultPrice>>
        BY <1>5 DEF DepositForRecovery, WithdrawFromRecovery
    <2>3. circulating \in Nat /\ recoveryGyd \in Nat /\ bootstrappingSupply \in Nat
        BY <1>a DEF SupplyTypeOK
    <2>4. Held' + recoveryGyd' = Held + recoveryGyd  BY <2>1, <2>2, <2>3
    <2>. QED  BY <2>2, <2>4 DEF Ledger!Transfer
<1>6. ASSUME NEW amount \in BootstrappingAmounts,
             CreateBootstrapping(amount) \/ DestroyBootstrapping(amount)
      PROVE  Same
    <2>1. amount \in Nat  OBVIOUS
    <2>2. /\ \/ /\ circulating' = circulating + amount
                /\ bootstrappingSupply' = bootstrappingSupply + amount
             \/ /\ circulating' = circulating - amount
                /\ bootstrappingSupply' = bootstrappingSupply - amount
          /\ UNCHANGED <<recoveryGyd, reserveBalance, vaultPrice>>
        BY <1>6 DEF CreateBootstrapping, DestroyBootstrapping, recoveryVars
    <2>3. circulating \in Nat /\ bootstrappingSupply \in Nat  BY <1>a DEF SupplyTypeOK
    <2>4. Held' = Held  BY <2>1, <2>2, <2>3
    <2>. QED  BY <2>2, <2>4
<1>7. ASSUME PriceMoves
      PROVE  Ledger!PriceMove
    BY <1>7 DEF PriceMoves, Ledger!PriceMove, recoveryVars, marketVars
<1>8. ASSUME \/ StewardshipCheckpoint \/ CancelStewardship \/ Tick
             \/ \E p \in RewardPercentages, r \in MinCollateralRatios,
                   v \in MaxHealthViolations, d \in InitiativeDurations :
                        StartStewardship(p, r, v, d)
             \/ UNCHANGED vars
      PROVE  Same
    BY <1>8 DEF StewardshipCheckpoint, CancelStewardship, StartStewardship, Tick, vars,
                recoveryVars, marketVars
<1>. HIDE DEF Same, Held
<1>. QED
    BY <1>c, <1>e, <1>1, <1>2, <1>3, <1>4, <1>5, <1>6, <1>7, <1>8 DEF Next, Ledger!BackedNext

\* To the holders of GYD the protocol is the reserve of BackedSupply: no operation, with all
\* that its handler calls, gives tokens or GYD worth more than what it takes, and GYD made
\* for nothing, the reward of a stewardship, leaves the reserve worth all there is.
THEOREM MotherboardImplementsBackedSupply ==
    ASSUME InitialReserve >= InitialSupply
    PROVE  Spec => ImplementsBackedSupply
<1>1. Init => Ledger!BackedInit
    BY DEF Init, Ledger!BackedInit, Ledger!BackedTypeOK, Ledger!Backed
<1>2. MotherboardInv /\ [Next]_vars => [Ledger!BackedNext]_(Ledger!backedVars)
    BY LedgerStep
<1>. QED
    BY <1>1, <1>2, MotherboardInvariance, PTL DEF Spec, ImplementsBackedSupply, Ledger!BackedSpec

\* What BackedSupply promises: a token for every GYD, held or in the pool.
THEOREM LedgerStaysBacked == Ledger!BackedSpec => []Ledger!Backed
<1>. DEFINE Kept == Ledger!BackedTypeOK /\ Ledger!Backed
<1>1. Ledger!BackedInit => Kept  BY DEF Ledger!BackedInit
<1>2. ASSUME Kept, [Ledger!BackedNext]_(Ledger!backedVars)
      PROVE  Kept'
    <2>1. CASE Ledger!BackedNext
        BY <1>2, <2>1
        DEF Ledger!BackedNext, Ledger!Issue, Ledger!Pay, Ledger!Reward, Ledger!Transfer,
            Ledger!PriceMove, Ledger!PoolBurns, Ledger!BackedTypeOK, Ledger!Backed
    <2>2. CASE UNCHANGED Ledger!backedVars
        BY <1>2, <2>2 DEF Ledger!backedVars, Ledger!BackedTypeOK, Ledger!Backed
    <2>. QED  BY <1>2, <2>1, <2>2
<1>3. Kept => Ledger!Backed  OBVIOUS
<1>. QED  BY <1>1, <1>2, <1>3, PTL DEF Ledger!BackedSpec

=============================================================================
