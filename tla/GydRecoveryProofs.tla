------------------------- MODULE GydRecoveryProofs --------------------------
(***************************************************************************)
(* Proofs about LiquidityMining for any number of stakers, any amounts and *)
(* any times, and about GydRecovery, which builds on it, for any           *)
(* providers, amounts, reserve values and collateral ratios.               *)
(***************************************************************************)
EXTENDS GydRecovery, FixedPointProofs, FiniteSetTheorems

-----------------------------------------------------------------------------
(* Types of the accounting                                                 *)

USE LMAssumption

\* What the accounting operators return while the variables have their types.
LEMMA AccountingTypes ==
    ASSUME LMTypeOK
    PROVE  /\ RewardsTimestamp \in Nat
           /\ NewRewards \in Nat
           /\ IntegralNow \in Nat
           /\ UnclaimedNow \in Nat
           /\ totalStakedIntegral <= IntegralNow
           /\ \A u \in Users, i \in Nat :
                  i >= perUserStakedIntegral[u] => ShareUpTo(u, i) \in Nat
<1>1. RewardsTimestamp \in Nat  BY DEF LMTypeOK, RewardsTimestamp
<1>2. NewRewards \in Nat
    <2>1. CASE totalStaked > 0 /\ RewardsTimestamp > lastCheckpointTime
        <3>1. RewardsTimestamp - lastCheckpointTime \in Nat  BY <1>1, <2>1 DEF LMTypeOK
        <3>. QED  BY <2>1, <3>1, ProductNat DEF LMTypeOK, NewRewards
    <2>2. CASE ~(totalStaked > 0 /\ RewardsTimestamp > lastCheckpointTime)
        BY <2>2 DEF NewRewards
    <2>. QED  BY <2>1, <2>2
<1>3. totalStaked > 0 => DivDown(NewRewards, totalStaked) \in Nat
    BY <1>2, DivDownNat DEF LMTypeOK
<1>4. IntegralNow \in Nat /\ totalStakedIntegral <= IntegralNow
    BY <1>3 DEF LMTypeOK, IntegralNow
<1>5. UnclaimedNow \in Nat  BY <1>2 DEF LMTypeOK, UnclaimedNow
<1>6. ASSUME NEW u \in Users, NEW i \in Nat, i >= perUserStakedIntegral[u]
      PROVE  ShareUpTo(u, i) \in Nat
    <2>1. i - perUserStakedIntegral[u] \in Nat  BY <1>6 DEF LMTypeOK
    <2>2. MulDown(perUserStaked[u], i - perUserStakedIntegral[u]) \in Nat
        BY <2>1, MulDownNat DEF LMTypeOK
    <2>. QED  BY <2>2 DEF LMTypeOK, ShareUpTo
<1>. QED  BY <1>1, <1>2, <1>4, <1>5, <1>6

\* Crediting a user keeps the types of the integrals.
LEMMA CheckpointTypes ==
    ASSUME LMTypeOK, NEW u \in Users, AdvanceIntegral, CreditUpTo(u, IntegralNow)
    PROVE  /\ totalStakedIntegral' \in Nat
           /\ lastCheckpointTime' \in Nat
           /\ perUserStakedIntegral' \in [Users -> Nat]
           /\ ShareUpTo(u, IntegralNow) \in Nat
BY AccountingTypes DEF LMTypeOK, AdvanceIntegral, CreditUpTo

-----------------------------------------------------------------------------
(* Type correctness                                                        *)

\* Every step keeps every variable of the contract a natural number: none of the
\* subtractions the code does goes below zero where it is not checked.
LEMMA TypeStep ==
    ASSUME LMTypeOK, [LMNext]_lmVars
    PROVE  LMTypeOK'
<1>. USE AccountingTypes
<1>1. CASE Tick  BY <1>1 DEF Tick, LMTypeOK, stakeVars, integralVars, rewardVars, emissionVars
<1>2. CASE GlobalCheckpoint
    BY <1>2 DEF GlobalCheckpoint, AdvanceIntegral, LMTypeOK, stakeVars, emissionVars
<1>3. CASE StopMining
    BY <1>3 DEF StopMining, AdvanceIntegral, LMTypeOK, stakeVars
<1>4. ASSUME NEW amount \in RewardAmounts, NEW endTime \in 1..MaxTime,
             StartMining(amount, endTime)
      PROVE  LMTypeOK'
    <2>1. endTime - now \in Nat /\ endTime - now > 0 /\ amount \in Nat /\ endTime \in Nat
        BY <1>4 DEF StartMining, LMTypeOK
    <2>2. EmissionRate(amount, endTime) \in Nat  BY <2>1, Quotient DEF EmissionRate
    <2>. QED  BY <1>4, <2>1, <2>2 DEF StartMining, AdvanceIntegral, LMTypeOK, stakeVars
<1>5. ASSUME NEW u \in Users, UserCheckpoint(u)
      PROVE  LMTypeOK'
    BY <1>5, CheckpointTypes DEF UserCheckpoint, LMTypeOK, stakeVars, emissionVars
<1>6. ASSUME NEW u \in Users, ClaimRewards(u)
      PROVE  LMTypeOK'
    BY <1>6, CheckpointTypes DEF ClaimRewards, PayRewards, LMTypeOK, stakeVars, emissionVars
<1>7. ASSUME NEW u \in Users, NEW amount \in StakeAmounts, Stake(u, amount)
      PROVE  LMTypeOK'
    BY <1>7, CheckpointTypes DEF Stake, LMTypeOK, emissionVars
<1>8. ASSUME NEW u \in Users, NEW amount \in StakeAmounts, Unstake(u, amount)
      PROVE  LMTypeOK'
    BY <1>8, CheckpointTypes DEF Unstake, CanUnstake, LMTypeOK, emissionVars
<1>9. CASE UNCHANGED lmVars
    BY <1>9 DEF LMTypeOK, lmVars, stakeVars, integralVars, rewardVars, emissionVars
<1>. QED  BY <1>1, <1>2, <1>3, <1>4, <1>5, <1>6, <1>7, <1>8, <1>9 DEF LMNext

\* The contract keeps its types, whoever stakes, claims or starts programs.
THEOREM LMTypeCorrect == LMSpec => []LMTypeOK
<1>1. LMInit => LMTypeOK  BY DEF LMInit, LMTypeOK
<1>2. LMTypeOK /\ [LMNext]_lmVars => LMTypeOK'  BY TypeStep
<1>. QED  BY <1>1, <1>2, PTL DEF LMSpec

-----------------------------------------------------------------------------
(* Rewards are backed when programs start cleanly                          *)

\* Seconds of emission left after time t.
EmissionAfter(t) == IF rewardsEmissionEndTime > t THEN rewardsEmissionEndTime - t ELSE 0

\* From when on emission will be counted as owed: nothing accrues without stakers,
\* and the first one to stake moves the last checkpoint to the present.
AccruesFrom == IF totalStaked > 0 THEN lastCheckpointTime ELSE now

\* RewardsBacked is not inductive: it must also be known that the tokens in the
\* contract cover what the program will still emit.
Funded ==
    totalUnclaimedRewards + rewardsEmissionRate * EmissionAfter(AccruesFrom) <= rewardBalance

BackedInv == LMTypeOK /\ lastCheckpointTime <= now /\ Funded

LEMMA EmissionAfterNat ==
    ASSUME LMTypeOK, NEW t \in Nat
    PROVE  EmissionAfter(t) \in Nat /\ rewardsEmissionRate * EmissionAfter(t) \in Nat
<1>1. EmissionAfter(t) \in Nat  BY DEF EmissionAfter, LMTypeOK
<1>. QED  BY <1>1, ProductNat DEF LMTypeOK

\* The longer the program still runs, the more it will emit.
LEMMA EmissionShrinks ==
    ASSUME LMTypeOK, NEW s \in Nat, NEW t \in Nat, s <= t
    PROVE  rewardsEmissionRate * EmissionAfter(t) <= rewardsEmissionRate * EmissionAfter(s)
<1>1. EmissionAfter(t) <= EmissionAfter(s)  BY DEF EmissionAfter, LMTypeOK
<1>. QED  BY <1>1, EmissionAfterNat, ProductMono DEF LMTypeOK

\* A checkpoint moves rewards from those still to be emitted to those owed.
LEMMA AccrualCovered ==
    ASSUME BackedInv
    PROVE  UnclaimedNow + rewardsEmissionRate * EmissionAfter(now) <= rewardBalance
<1>. DEFINE last == lastCheckpointTime
            rate == rewardsEmissionRate
<1>1. last \in Nat /\ now \in Nat /\ rate \in Nat /\ last <= now
    BY DEF BackedInv, LMTypeOK
<1>2. LMTypeOK /\ Funded  BY DEF BackedInv
<1>3. CASE totalStaked > 0 /\ RewardsTimestamp > last
    <2>1. RewardsTimestamp - last \in Nat /\ RewardsTimestamp \in Nat
        BY <1>1, <1>2, <1>3, AccountingTypes
    <2>2. EmissionAfter(last) = (RewardsTimestamp - last) + EmissionAfter(now)
        BY <1>1, <1>2, <1>3 DEF EmissionAfter, RewardsTimestamp, LMTypeOK
    <2>3. rate * EmissionAfter(last)
            = rate * (RewardsTimestamp - last) + rate * EmissionAfter(now)
        BY <1>1, <1>2, <2>1, <2>2, EmissionAfterNat, ProductOfSum
    <2>4. UnclaimedNow = totalUnclaimedRewards + rate * (RewardsTimestamp - last)
        BY <1>3 DEF UnclaimedNow, NewRewards
    <2>5. totalUnclaimedRewards + rate * EmissionAfter(last) <= rewardBalance
        BY <1>2, <1>3 DEF Funded, AccruesFrom
    <2>6. rate * (RewardsTimestamp - last) \in Nat /\ rate * EmissionAfter(now) \in Nat
        BY <1>1, <1>2, <2>1, ProductNat, EmissionAfterNat
    <2>. QED  BY <1>2, <2>3, <2>4, <2>5, <2>6 DEF LMTypeOK
<1>4. CASE ~(totalStaked > 0 /\ RewardsTimestamp > last)
    <2>1. UnclaimedNow = totalUnclaimedRewards
        BY <1>2, <1>4 DEF UnclaimedNow, NewRewards, LMTypeOK
    <2>2. AccruesFrom \in Nat /\ AccruesFrom <= now
        BY <1>1 DEF AccruesFrom
    <2>3. rate * EmissionAfter(now) <= rate * EmissionAfter(AccruesFrom)
        BY <1>1, <1>2, <2>2, EmissionShrinks
    <2>. QED  BY <1>1, <1>2, <2>1, <2>2, <2>3, EmissionAfterNat DEF Funded, LMTypeOK
<1>. QED  BY <1>3, <1>4

\* A step that checkpoints and otherwise only pays out what is owed stays funded.
LEMMA CheckpointStaysFunded ==
    ASSUME BackedInv, LMTypeOK', AdvanceIntegral, UNCHANGED <<now, emissionVars>>,
           NEW paid \in Nat, paid <= UnclaimedNow, paid <= rewardBalance,
           totalUnclaimedRewards' = UnclaimedNow - paid,
           rewardBalance' = rewardBalance - paid
    PROVE  (lastCheckpointTime <= now)' /\ Funded'
<1>1. lastCheckpointTime' <= now'
    BY DEF BackedInv, LMTypeOK, AdvanceIntegral, RewardsTimestamp
<1>2. EmissionAfter(AccruesFrom)' = EmissionAfter(now)
    BY DEF BackedInv, LMTypeOK, AdvanceIntegral, RewardsTimestamp, EmissionAfter, AccruesFrom,
           emissionVars
<1>3. rewardsEmissionRate' = rewardsEmissionRate  BY DEF emissionVars
<1>4. UnclaimedNow + rewardsEmissionRate * EmissionAfter(now) <= rewardBalance
    BY AccrualCovered
<1>5. rewardsEmissionRate * EmissionAfter(now) \in Nat /\ UnclaimedNow \in Nat
    BY EmissionAfterNat, AccountingTypes DEF BackedInv, LMTypeOK
<1>6. Funded' <=> totalUnclaimedRewards' + rewardsEmissionRate * EmissionAfter(now)
                    <= rewardBalance'
    BY <1>2, <1>3 DEF Funded
<1>. QED  BY <1>1, <1>4, <1>5, <1>6 DEF BackedInv, LMTypeOK

LEMMA BackedStep ==
    ASSUME BackedInv, [LMNext /\ StartsCleanly]_lmVars
    PROVE  BackedInv'
<1>1. LMTypeOK'  BY TypeStep DEF BackedInv
<1>. SUFFICES (lastCheckpointTime <= now)' /\ Funded'  BY <1>1 DEF BackedInv
<1>2. LMTypeOK /\ UnclaimedNow \in Nat /\ rewardBalance \in Nat
    BY AccountingTypes DEF BackedInv, LMTypeOK
<1>3. CASE Tick
    <2>1. lastCheckpointTime' <= now'  BY <1>3 DEF Tick, BackedInv, LMTypeOK, integralVars
    <2>2. AccruesFrom \in Nat /\ AccruesFrom' \in Nat /\ AccruesFrom <= AccruesFrom'
        BY <1>3 DEF Tick, AccruesFrom, BackedInv, LMTypeOK, integralVars, stakeVars
    <2>3. EmissionAfter(AccruesFrom)' = EmissionAfter(AccruesFrom')
        BY <1>3 DEF Tick, EmissionAfter, emissionVars
    <2>4. rewardsEmissionRate * EmissionAfter(AccruesFrom')
            <= rewardsEmissionRate * EmissionAfter(AccruesFrom)
        BY <1>2, <2>2, EmissionShrinks
    <2>5. Funded' <=> totalUnclaimedRewards + rewardsEmissionRate * EmissionAfter(AccruesFrom')
                        <= rewardBalance
        BY <1>3, <2>3 DEF Funded, Tick, emissionVars, rewardVars
    <2>. QED  BY <1>2, <2>1, <2>2, <2>4, <2>5, EmissionAfterNat DEF BackedInv, Funded, LMTypeOK
<1>4. CASE GlobalCheckpoint
    BY <1>1, <1>2, <1>4, CheckpointStaysFunded DEF GlobalCheckpoint, BackedInv
<1>5. CASE StopMining
    <2>1. lastCheckpointTime' <= now'
        BY <1>5 DEF StopMining, BackedInv, LMTypeOK, AdvanceIntegral, RewardsTimestamp
    <2>2. rewardsEmissionRate' * EmissionAfter(AccruesFrom)' = 0
        <3>1. AccruesFrom' \in Nat  BY <1>1 DEF AccruesFrom, LMTypeOK
        <3>2. EmissionAfter(AccruesFrom)'
                = IF rewardsEmissionEndTime' > AccruesFrom'
                  THEN rewardsEmissionEndTime' - AccruesFrom' ELSE 0
            BY DEF EmissionAfter
        <3>3. rewardsEmissionRate' = 0 /\ rewardsEmissionEndTime' = 0
            BY <1>5 DEF StopMining
        <3>4. ~(rewardsEmissionEndTime' > AccruesFrom')  BY <3>1, <3>3
        <3>5. EmissionAfter(AccruesFrom)' = 0  BY <3>2, <3>4, Zenon
        <3>. QED  BY <3>3, <3>5
    <2>. QED  BY <1>2, <1>5, <2>1, <2>2 DEF StopMining, Funded
<1>6. ASSUME NEW amount \in RewardAmounts, NEW endTime \in 1..MaxTime,
             StartMining(amount, endTime), StartsCleanly
      PROVE  (lastCheckpointTime <= now)' /\ Funded'
    <2>1. lastCheckpointTime' <= now'
        BY <1>6 DEF StartMining, BackedInv, LMTypeOK, AdvanceIntegral, RewardsTimestamp
    <2>2. endTime - now \in Nat /\ endTime - now > 0 /\ amount \in Nat /\ endTime \in Nat
        BY <1>6 DEF StartMining, BackedInv, LMTypeOK
    <2>3. EmissionRate(amount, endTime) * (endTime - now) <= amount
        BY <2>2, Quotient DEF EmissionRate
    <2>4. AccruesFrom' = now
        BY <1>6, <2>2 DEF StartMining, StartsCleanly, AccruesFrom, AdvanceIntegral,
                          RewardsTimestamp, BackedInv, LMTypeOK, stakeVars
    <2>5. EmissionAfter(AccruesFrom)' = endTime - now
        BY <1>6, <2>2, <2>4 DEF StartMining, EmissionAfter
    <2>6. UnclaimedNow <= rewardBalance
        <3>1. rewardsEmissionRate * EmissionAfter(now) \in Nat
            BY <1>2, EmissionAfterNat DEF LMTypeOK
        <3>. QED  BY <1>2, <3>1, AccrualCovered
    <2>7. Funded' <=> UnclaimedNow + EmissionRate(amount, endTime) * (endTime - now)
                        <= rewardBalance + amount
        BY <1>6, <2>5 DEF StartMining, Funded
    <2>8. EmissionRate(amount, endTime) * (endTime - now) \in Nat
        BY <2>2, Quotient, ProductNat DEF EmissionRate
    <2>. QED  BY <1>2, <2>1, <2>2, <2>3, <2>6, <2>7, <2>8
<1>7. ASSUME NEW u \in Users, UserCheckpoint(u)
      PROVE  (lastCheckpointTime <= now)' /\ Funded'
    BY <1>1, <1>2, <1>7, CheckpointStaysFunded DEF UserCheckpoint, BackedInv
<1>8. ASSUME NEW u \in Users, ClaimRewards(u)
      PROVE  (lastCheckpointTime <= now)' /\ Funded'
    <2>1. ShareUpTo(u, IntegralNow) \in Nat
        BY <1>2, <1>8, CheckpointTypes DEF ClaimRewards
    <2>. QED  BY <1>1, <1>2, <1>8, <2>1, CheckpointStaysFunded DEF ClaimRewards, PayRewards
<1>9. ASSUME NEW u \in Users, NEW amount \in StakeAmounts, Stake(u, amount)
      PROVE  (lastCheckpointTime <= now)' /\ Funded'
    BY <1>1, <1>2, <1>9, CheckpointStaysFunded DEF Stake, BackedInv
<1>10. ASSUME NEW u \in Users, NEW amount \in StakeAmounts, Unstake(u, amount)
       PROVE  (lastCheckpointTime <= now)' /\ Funded'
    BY <1>1, <1>2, <1>10, CheckpointStaysFunded DEF Unstake, BackedInv
<1>11. CASE UNCHANGED lmVars
    BY <1>11 DEF BackedInv, Funded, EmissionAfter, AccruesFrom, lmVars, stakeVars, integralVars,
                 rewardVars, emissionVars
<1>. QED  BY <1>3, <1>4, <1>5, <1>6, <1>7, <1>8, <1>9, <1>10, <1>11 DEF LMNext

\* Whatever stakers do, the contract holds the rewards it owes, as long as governance
\* starts a program only while nobody stakes or while the previous one still runs.
THEOREM RewardsAlwaysBacked == LMCarefulSpec => []RewardsBacked
<1>1. LMInit => BackedInv
    <2>. SUFFICES ASSUME LMInit PROVE BackedInv  OBVIOUS
    <2>1. LMTypeOK /\ lastCheckpointTime <= now  BY DEF LMInit, LMTypeOK
    <2>2. EmissionAfter(AccruesFrom) = 0
        BY DEF LMInit, EmissionAfter, AccruesFrom
    <2>. QED  BY <2>1, <2>2 DEF LMInit, BackedInv, Funded
<1>2. BackedInv /\ [LMNext /\ StartsCleanly]_lmVars => BackedInv'  BY BackedStep
<1>3. BackedInv => RewardsBacked
    <2>. SUFFICES ASSUME BackedInv PROVE RewardsBacked  OBVIOUS
    <2>1. rewardsEmissionRate * EmissionAfter(now) \in Nat /\ UnclaimedNow \in Nat
        BY EmissionAfterNat, AccountingTypes DEF BackedInv, LMTypeOK
    <2>. QED  BY <2>1, AccrualCovered DEF BackedInv, RewardsBacked, LMTypeOK
<1>. QED  BY <1>1, <1>2, <1>3, PTL DEF LMCarefulSpec

USE RecoveryAssumption, BurnAssumption

-----------------------------------------------------------------------------
(* Checkpoints of users                                                    *)

\* What is needed of the integrals for a checkpoint never to go below zero: a user
\* is never ahead of the integral, nor, if stale, of the burn that made it stale.
IntegralsOrdered ==
    /\ \A u \in Users : positions[u].lastUpdatedFullBurnId <= nextFullBurnId
    /\ \A u \in Users : perUserStakedIntegral[u] <= totalStakedIntegral
    /\ \A id \in 1..(nextFullBurnId - 1) : fullBurnHistory[id] <= totalStakedIntegral
    /\ \A u \in Users : Stale(u) =>
            perUserStakedIntegral[u] <= fullBurnHistory[positions[u].lastUpdatedFullBurnId]

RecoveryInv == TypeOK /\ IntegralsOrdered

LEMMA CreditedTypes ==
    ASSUME TypeOK, NEW u \in Users
    PROVE  /\ CreditedIntegral(u) \in Nat
           /\ StakedAfterCheckpoint(u) \in Nat
           /\ PositionAfterCheckpoint(u) \in Position
           /\ PositionAfterCheckpoint(u).lastUpdatedFullBurnId = nextFullBurnId
<1>1. LMTypeOK /\ IntegralNow \in Nat  BY AccountingTypes DEF TypeOK
<1>2. CreditedIntegral(u) \in Nat
    BY <1>1 DEF CreditedIntegral, Stale, TypeOK, PositionsTypeOK, BurnTypeOK
<1>3. StakedAfterCheckpoint(u) \in Nat
    BY <1>1 DEF StakedAfterCheckpoint, LMTypeOK
<1>4. /\ PositionAfterCheckpoint(u) \in Position
      /\ PositionAfterCheckpoint(u).lastUpdatedFullBurnId = nextFullBurnId
    BY DEF PositionAfterCheckpoint, Position, TypeOK, PositionsTypeOK, BurnTypeOK
<1>. QED  BY <1>2, <1>3, <1>4

LEMMA CheckpointRewardsTypes ==
    ASSUME TypeOK, NEW u \in Users, AdvanceIntegral, CreditUpTo(u, CreditedIntegral(u))
    PROVE  /\ totalStakedIntegral' \in Nat
           /\ lastCheckpointTime' \in Nat
           /\ perUserStakedIntegral' \in [Users -> Nat]
           /\ ShareUpTo(u, CreditedIntegral(u)) \in Nat
           /\ UnclaimedNow \in Nat
<1>1. LMTypeOK /\ CreditedIntegral(u) \in Nat  BY CreditedTypes DEF TypeOK
<1>. QED  BY <1>1, AccountingTypes DEF LMTypeOK, AdvanceIntegral, CreditUpTo

\* Crediting one user and bringing that user's position up to date.
LEMMA CheckpointKeepsOrder ==
    ASSUME RecoveryInv, NEW u \in Users, AdvanceIntegral, CreditUpTo(u, CreditedIntegral(u)),
           NEW p \in Position, p.lastUpdatedFullBurnId = nextFullBurnId,
           positions' = [positions EXCEPT ![u] = p],
           UNCHANGED burnVars
    PROVE  IntegralsOrdered'
<1>. USE DEF RecoveryInv
<1>1. /\ totalStakedIntegral \in Nat /\ IntegralNow \in Nat
      /\ totalStakedIntegral <= IntegralNow /\ totalStakedIntegral' = IntegralNow
    BY AccountingTypes DEF TypeOK, LMTypeOK, AdvanceIntegral
<1>2. positions \in [Users -> Position] /\ perUserStakedIntegral \in [Users -> Nat]
      /\ fullBurnHistory \in [1..(nextFullBurnId - 1) -> Nat] /\ nextFullBurnId \in Nat \ {0}
    BY DEF TypeOK, LMTypeOK, PositionsTypeOK, BurnTypeOK
<1>3. UNCHANGED <<nextFullBurnId, fullBurnHistory>>  BY DEF burnVars
<1>4. CreditedIntegral(u) \in Nat /\ CreditedIntegral(u) <= IntegralNow
    BY <1>1, <1>2, CreditedTypes DEF CreditedIntegral, Stale, IntegralsOrdered
<1>5. \A v \in Users : positions'[v].lastUpdatedFullBurnId <= nextFullBurnId'
    BY <1>2, <1>3 DEF IntegralsOrdered
<1>6. \A v \in Users : perUserStakedIntegral'[v] <= totalStakedIntegral'
    BY <1>1, <1>2, <1>4 DEF CreditUpTo, IntegralsOrdered
<1>7. \A id \in 1..(nextFullBurnId' - 1) : fullBurnHistory'[id] <= totalStakedIntegral'
    BY <1>1, <1>2, <1>3 DEF IntegralsOrdered
<1>8. ASSUME NEW v \in Users, Stale(v)'
      PROVE  perUserStakedIntegral'[v] <= fullBurnHistory'[positions'[v].lastUpdatedFullBurnId]
    <2>1. v # u  BY <1>2, <1>3, <1>8 DEF Stale
    <2>2. positions'[v] = positions[v] /\ perUserStakedIntegral'[v] = perUserStakedIntegral[v]
        BY <1>2, <2>1 DEF CreditUpTo
    <2>3. Stale(v)  BY <1>3, <1>8, <2>2 DEF Stale
    <2>. QED  BY <1>3, <2>2, <2>3 DEF IntegralsOrdered
<1>. QED  BY <1>5, <1>6, <1>7, <1>8 DEF IntegralsOrdered

\* A step that at most advances the integral and touches no burn, position or
\* credited integral.
LEMMA AdvanceKeepsOrder ==
    ASSUME RecoveryInv, totalStakedIntegral' \in {totalStakedIntegral, IntegralNow},
           UNCHANGED <<nextFullBurnId, fullBurnHistory, perUserStakedIntegral>>,
           \A v \in Users : positions'[v].lastUpdatedFullBurnId = positions[v].lastUpdatedFullBurnId
    PROVE  IntegralsOrdered'
<1>. USE DEF RecoveryInv
<1>1. /\ totalStakedIntegral \in Nat /\ totalStakedIntegral' \in Nat
      /\ totalStakedIntegral <= totalStakedIntegral'
    <2>1. LMTypeOK  BY DEF TypeOK
    <2>2. totalStakedIntegral \in Nat  BY <2>1 DEF LMTypeOK
    <2>3. IntegralNow \in Nat /\ totalStakedIntegral <= IntegralNow  BY <2>1, AccountingTypes
    <2>. QED  BY <2>2, <2>3
<1>2. perUserStakedIntegral \in [Users -> Nat]
      /\ fullBurnHistory \in [1..(nextFullBurnId - 1) -> Nat] /\ nextFullBurnId \in Nat \ {0}
    BY DEF TypeOK, LMTypeOK, PositionsTypeOK, BurnTypeOK
<1>. QED  BY <1>1, <1>2 DEF IntegralsOrdered, Stale

\* A full burn records the integral that it advances to: the users it makes stale
\* are behind that record, and those stale before keep theirs.
LEMMA FullBurnKeepsOrder ==
    ASSUME RecoveryInv, AdvanceIntegral, FullBurn, UNCHANGED <<positions, perUserStakedIntegral>>
    PROVE  IntegralsOrdered'
<1>. USE DEF RecoveryInv
<1>1. /\ totalStakedIntegral \in Nat /\ IntegralNow \in Nat
      /\ totalStakedIntegral <= IntegralNow /\ totalStakedIntegral' = IntegralNow
    BY AccountingTypes DEF TypeOK, LMTypeOK, AdvanceIntegral
<1>2. positions \in [Users -> Position] /\ perUserStakedIntegral \in [Users -> Nat]
      /\ fullBurnHistory \in [1..(nextFullBurnId - 1) -> Nat] /\ nextFullBurnId \in Nat \ {0}
    BY DEF TypeOK, LMTypeOK, PositionsTypeOK, BurnTypeOK
<1>3. /\ nextFullBurnId' = nextFullBurnId + 1
      /\ fullBurnHistory' = HistoryWithBurn
    BY DEF FullBurn
<1>4. /\ HistoryWithBurn[nextFullBurnId] = IntegralNow
      /\ \A id \in 1..(nextFullBurnId - 1) : HistoryWithBurn[id] = fullBurnHistory[id]
    BY <1>2 DEF HistoryWithBurn
<1>5. \A v \in Users : positions'[v].lastUpdatedFullBurnId <= nextFullBurnId'
    BY <1>2, <1>3 DEF IntegralsOrdered, Position
<1>6. \A v \in Users : perUserStakedIntegral'[v] <= totalStakedIntegral'
    BY <1>1, <1>2 DEF IntegralsOrdered
<1>7. ASSUME NEW id \in 1..(nextFullBurnId' - 1)
      PROVE  fullBurnHistory'[id] <= totalStakedIntegral'
    <2>1. CASE id = nextFullBurnId  BY <1>1, <1>3, <1>4, <2>1
    <2>2. CASE id # nextFullBurnId
        <3>1. id \in 1..(nextFullBurnId - 1)  BY <1>2, <1>3, <2>2
        <3>2. fullBurnHistory[id] <= totalStakedIntegral /\ fullBurnHistory[id] \in Nat
            BY <1>2, <3>1 DEF IntegralsOrdered
        <3>. QED  BY <1>1, <1>3, <1>4, <3>1, <3>2
    <2>. QED  BY <2>1, <2>2
<1>8. ASSUME NEW v \in Users, Stale(v)'
      PROVE  perUserStakedIntegral'[v] <= fullBurnHistory'[positions'[v].lastUpdatedFullBurnId]
    <2>. DEFINE id == positions[v].lastUpdatedFullBurnId
    <2>1. id \in 1..nextFullBurnId  BY <1>2, <1>3, <1>8 DEF Stale
    <2>2. CASE id = nextFullBurnId
        BY <1>1, <1>2, <1>3, <1>4, <2>2 DEF IntegralsOrdered
    <2>3. CASE id # nextFullBurnId
        <3>1. id \in 1..(nextFullBurnId - 1)  BY <1>2, <2>1, <2>3
        <3>2. Stale(v)  BY <3>1 DEF Stale
        <3>. QED  BY <1>3, <1>4, <3>1, <3>2 DEF IntegralsOrdered
    <2>. QED  BY <2>2, <2>3
<1>. QED  BY <1>5, <1>6, <1>7, <1>8 DEF IntegralsOrdered

-----------------------------------------------------------------------------
(* Every operation keeps the types                                         *)

LEMMA RecoveryTypeStep ==
    ASSUME TypeOK, [Next]_vars
    PROVE  TypeOK'
<1>a. LMTypeOK /\ GydTypeOK /\ PositionsTypeOK /\ BurnTypeOK /\ WithdrawalTypeOK  BY DEF TypeOK
<1>b. UnclaimedNow \in Nat /\ IntegralNow \in Nat /\ RewardsTimestamp \in Nat
    BY <1>a, AccountingTypes
<1>c. UNCHANGED lmVars => LMTypeOK'
    BY <1>a DEF LMTypeOK, lmVars, stakeVars, integralVars, rewardVars, emissionVars
<1>d. UNCHANGED gydVars => GydTypeOK'  BY <1>a DEF GydTypeOK, gydVars
<1>e. UNCHANGED positions => PositionsTypeOK'  BY <1>a DEF PositionsTypeOK
<1>f. UNCHANGED burnVars => BurnTypeOK'  BY <1>a DEF BurnTypeOK, burnVars
<1>g. UNCHANGED withdrawalVars => WithdrawalTypeOK'
    BY <1>a DEF WithdrawalTypeOK, withdrawalVars
<1>h. \A amount \in GydAmounts : amount \in Nat /\ AmountToAdjusted(amount) \in Nat
    <2>1. adjustmentFactor \in Nat /\ adjustmentFactor > 0
        BY <1>a, ONEAssumption DEF BurnTypeOK
    <2>2. \A amount \in GydAmounts : amount \in Nat  OBVIOUS
    <2>. QED  BY <2>1, <2>2, DivDownNat DEF AmountToAdjusted
<1>1. CASE MiningStep
    <2>1. LMTypeOK'
        <3>1. LMNext  BY <1>1 DEF MiningStep, LMNext
        <3>. QED  BY <1>a, <3>1, TypeStep
    <2>2. UNCHANGED <<gydVars, positions, burnVars, withdrawalVars>>
        BY <1>1 DEF MiningStep, recoveryVars
    <2>. QED  BY <1>d, <1>e, <1>f, <1>g, <2>1, <2>2 DEF TypeOK
<1>2. ASSUME NEW u \in Users, RecoveryUserCheckpoint(u)
      PROVE  TypeOK'
    <2>1. LMTypeOK'
        BY <1>2, <1>a, CreditedTypes, CheckpointRewardsTypes
        DEF RecoveryUserCheckpoint, CheckpointRewards, LMTypeOK, emissionVars
    <2>2. PositionsTypeOK'
        BY <1>2, <1>a, CreditedTypes DEF RecoveryUserCheckpoint, PositionsTypeOK
    <2>. QED  BY <1>2, <1>d, <1>f, <1>g, <2>1, <2>2 DEF RecoveryUserCheckpoint, TypeOK
<1>3. ASSUME NEW u \in Users, RecoveryClaimRewards(u)
      PROVE  TypeOK'
    <2>1. LMTypeOK'
        BY <1>3, <1>a, CreditedTypes, CheckpointRewardsTypes
        DEF RecoveryClaimRewards, PayRewards, LMTypeOK, emissionVars
    <2>2. PositionsTypeOK'
        BY <1>3, <1>a, CreditedTypes DEF RecoveryClaimRewards, PositionsTypeOK
    <2>. QED  BY <1>3, <1>d, <1>f, <1>g, <2>1, <2>2 DEF RecoveryClaimRewards, TypeOK
<1>4. ASSUME NEW u \in Users, NEW b \in Users, NEW amount \in GydAmounts,
             DepositFor(u, b, amount)
      PROVE  TypeOK'
    <2>. DEFINE a == AmountToAdjusted(amount)
                p == PositionAfterCheckpoint(b)
    <2>1. amount \in Nat /\ a \in Nat  BY <1>h
    <2>2. p \in Position /\ StakedAfterCheckpoint(b) \in Nat  BY CreditedTypes
    <2>3. PositionsTypeOK'
        <3>1. [p EXCEPT !.adjustedAmount = @ + a] \in Position
            BY <2>1, <2>2 DEF Position
        <3>. QED  BY <1>4, <1>a, <3>1 DEF DepositFor, PositionsTypeOK
    <2>4. GydTypeOK'
        <3>1. gydBalance[u] - amount \in Nat  BY <1>4, <1>a, <2>1 DEF DepositFor, GydTypeOK
        <3>. QED  BY <1>4, <1>a, <2>1, <3>1 DEF DepositFor, GydTypeOK
    <2>5. LMTypeOK'
        <3>1. totalStaked' \in Nat /\ perUserStaked' \in [Users -> Nat]
            BY <1>4, <1>a, <2>1, <2>2 DEF DepositFor, LMTypeOK
        <3>. QED
            BY <1>4, <1>a, <3>1, CheckpointRewardsTypes
            DEF DepositFor, CheckpointRewards, LMTypeOK, emissionVars
    <2>. QED  BY <1>4, <1>f, <1>g, <2>3, <2>4, <2>5 DEF DepositFor, TypeOK
<1>5. ASSUME NEW u \in Users, NEW amount \in GydAmounts, Donate(u, amount)
      PROVE  TypeOK'
    <2>1. amount \in Nat /\ gydBalance[u] - amount \in Nat
        BY <1>5, <1>a, <1>h DEF Donate, GydTypeOK
    <2>2. GydTypeOK'  BY <1>5, <1>a, <2>1 DEF Donate, GydTypeOK
    <2>. QED  BY <1>5, <1>c, <1>e, <1>f, <1>g, <2>2 DEF Donate, TypeOK
<1>6. ASSUME NEW u \in Users, NEW a \in Nat, InitiateWithdrawalAdjusted(u, a)
      PROVE  TypeOK'
    <2>1. StakedAfterCheckpoint(u) - a \in Nat /\ totalStaked - a \in Nat
        <3>1. StakedAfterCheckpoint(u) \in Nat  BY CreditedTypes
        <3>. QED  BY <1>6, <1>a, <3>1 DEF InitiateWithdrawalAdjusted, LMTypeOK
    <2>2. LMTypeOK'
        BY <1>6, <1>a, <2>1, CheckpointRewardsTypes
        DEF InitiateWithdrawalAdjusted, CheckpointRewards, LMTypeOK, emissionVars
    <2>3. PositionsTypeOK'
        BY <1>6, <1>a, CreditedTypes DEF InitiateWithdrawalAdjusted, PositionsTypeOK
    <2>4. WithdrawalTypeOK'
        <3>1. now + withdrawalWaitDuration \in Nat /\ nextFullBurnId \in Nat
            <4>1. now \in Nat  BY <1>a DEF LMTypeOK
            <4>2. withdrawalWaitDuration \in Nat  BY <1>a DEF WithdrawalTypeOK
            <4>3. nextFullBurnId \in Nat  BY <1>a DEF BurnTypeOK
            <4>. QED  BY <4>1, <4>2, <4>3
        <3>2. [createdFullBurnId |-> nextFullBurnId, adjustedAmount |-> a,
               withdrawableAt |-> now + withdrawalWaitDuration, to |-> u] \in PendingWithdrawal
            BY <3>1 DEF PendingWithdrawal
        <3>3. /\ DOMAIN pendingWithdrawals' = DOMAIN pendingWithdrawals \cup {nextWithdrawalId}
              /\ pendingWithdrawals' \in [DOMAIN pendingWithdrawals' -> PendingWithdrawal]
            BY <1>6, <1>a, <3>2 DEF InitiateWithdrawalAdjusted, WithdrawalTypeOK
        <3>4. /\ nextWithdrawalId' \in Nat
              /\ DOMAIN pendingWithdrawals' \subseteq 0..(nextWithdrawalId' - 1)
            <4>1. nextWithdrawalId' = nextWithdrawalId + 1 /\ nextWithdrawalId \in Nat
                BY <1>6, <1>a DEF InitiateWithdrawalAdjusted, WithdrawalTypeOK
            <4>2. DOMAIN pendingWithdrawals \subseteq 0..(nextWithdrawalId - 1)
                BY <1>a DEF WithdrawalTypeOK
            <4>. QED  BY <3>3, <4>1, <4>2
        <3>. QED  BY <1>6, <1>a, <3>3, <3>4 DEF InitiateWithdrawalAdjusted, WithdrawalTypeOK
    <2>. QED  BY <1>6, <1>d, <1>f, <2>2, <2>3, <2>4 DEF InitiateWithdrawalAdjusted, TypeOK
<1>7. ASSUME NEW id \in DOMAIN pendingWithdrawals, WithdrawBurned(id)
      PROVE  TypeOK'
    <2>1. WithdrawalTypeOK'
        BY <1>7, <1>a DEF WithdrawBurned, Restrict, WithdrawalTypeOK
    <2>. QED  BY <1>7, <1>c, <1>d, <1>e, <1>f, <2>1 DEF WithdrawBurned, TypeOK
<1>8. ASSUME NEW id \in DOMAIN pendingWithdrawals, WithdrawPaid(id)
      PROVE  TypeOK'
    <2>. DEFINE pending == pendingWithdrawals[id]
                amount == MulDown(pending.adjustedAmount, adjustmentFactor)
    <2>1. pending \in PendingWithdrawal  BY <1>a DEF WithdrawalTypeOK
    <2>2. pending.to \in Users /\ pending.adjustedAmount \in Nat  BY <2>1 DEF PendingWithdrawal
    <2>3. amount \in Nat
        <3>1. adjustmentFactor \in Nat  BY <1>a, ONEAssumption DEF BurnTypeOK
        <3>. QED  BY <2>2, <3>1, MulDownNat
    <2>4. GydTypeOK'
        <3>. HIDE DEF amount
        <3>1. underlying - amount \in Nat  BY <1>8, <1>a, <2>3 DEF WithdrawPaid, GydTypeOK, amount
        <3>. QED  BY <1>8, <1>a, <2>2, <2>3, <3>1 DEF WithdrawPaid, GydTypeOK, amount
    <2>5. PositionsTypeOK'
        <3>. DEFINE left == positions[pending.to].adjustedAmount - pending.adjustedAmount
        <3>1. positions[pending.to] \in Position  BY <1>a, <2>2 DEF PositionsTypeOK
        <3>2. positions[pending.to].adjustedAmount \in Nat  BY <3>1 DEF Position
        <3>3. left \in Nat  BY <1>8, <2>2, <3>2 DEF WithdrawPaid
        <3>4. [positions[pending.to] EXCEPT !.adjustedAmount = left] \in Position
            BY <3>1, <3>3 DEF Position
        <3>5. positions' = [positions EXCEPT ![pending.to] =
                                [positions[pending.to] EXCEPT !.adjustedAmount = left]]
            BY <1>8, <1>a, <2>2 DEF WithdrawPaid, PositionsTypeOK
        <3>. QED  BY <1>a, <2>2, <3>4, <3>5 DEF PositionsTypeOK
    <2>6. WithdrawalTypeOK'
        BY <1>8, <1>a DEF WithdrawPaid, Restrict, WithdrawalTypeOK
    <2>. QED  BY <1>8, <1>c, <1>f, <2>4, <2>5, <2>6 DEF WithdrawPaid, TypeOK
<1>9. ASSUME NEW duration \in WaitDurations, SetWithdrawalWaitDuration(duration)
      PROVE  TypeOK'
    <2>1. WithdrawalTypeOK'
        BY <1>9, <1>a DEF SetWithdrawalWaitDuration, WithdrawalTypeOK
    <2>. QED  BY <1>9, <1>c, <1>d, <1>e, <1>f, <2>1 DEF SetWithdrawalWaitDuration, TypeOK
<1>10. ASSUME NEW value \in ReserveValues, CheckAndRun(value)
       PROVE  TypeOK'
    <2>. DEFINE amount == gydSupply - TargetGYDSupply(value)
    <2>1. amount \in Nat /\ underlying \in Nat /\ gydSupply \in Nat
        <3>1. TargetGYDSupply(value) \in Nat  BY DivDownNat DEF TargetGYDSupply
        <3>. QED  BY <1>10, <1>a, <3>1 DEF CheckAndRun, GydTypeOK
    <2>2. ExecuteBurn(amount) /\ underlying > 0  BY <1>10 DEF CheckAndRun, ShouldRun
    <2>. HIDE DEF amount
    <2>3. totalStaked' \in Nat => LMTypeOK'
        BY <1>a, <1>b, <2>2 DEF ExecuteBurn, AdvanceIntegral, LMTypeOK, emissionVars
    <2>4. UNCHANGED positions /\ UNCHANGED withdrawalVars /\ UNCHANGED gydBalance
        BY <2>2 DEF ExecuteBurn
    <2>5. GydTypeOK' /\ totalStaked' \in Nat /\ BurnTypeOK' => TypeOK'
        BY <1>e, <1>g, <2>3, <2>4 DEF TypeOK
    <2>6. ASSUME NEW burnt \in Nat, BurnGyd(burnt)
          PROVE  GydTypeOK'
        <3>1. underlying - burnt \in Nat /\ gydSupply - burnt \in Nat
            BY <2>1, <2>6 DEF BurnGyd
        <3>. QED  BY <1>a, <2>4, <2>6, <3>1 DEF BurnGyd, GydTypeOK
    <2>7. CASE FullBurn
        <3>1. GydTypeOK'  BY <2>1, <2>6, <2>7 DEF FullBurn
        <3>2. HistoryWithBurn \in [1..nextFullBurnId -> Nat]
            BY <1>a, <1>b DEF HistoryWithBurn, BurnTypeOK
        <3>3. nextFullBurnId' \in Nat \ {0} /\ nextFullBurnId' - 1 = nextFullBurnId
            BY <1>a, <2>7 DEF FullBurn, BurnTypeOK
        <3>4. BurnTypeOK'
            BY <2>7, <3>2, <3>3, ONEAssumption DEF FullBurn, BurnTypeOK
        <3>. QED  BY <2>5, <2>7, <3>1, <3>4 DEF FullBurn
    <2>8. ASSUME ~IsFullBurn(amount, underlying), PartialBurn(amount)
          PROVE  TypeOK'
        <3>1. GydTypeOK'  BY <2>1, <2>6, <2>8 DEF PartialBurn
        <3>2. underlying - amount \in Nat /\ underlying - amount <= underlying
            BY <2>1, <2>8, ONEAssumption, PartialBurnLeavesGyd DEF IsFullBurn
        <3>3. NextFactor(amount) \in 0..ONE
            BY <1>a, <2>1, <2>2, <3>2, FactorShrinks
            DEF NextFactor, NextAdjustmentFactor, BurnTypeOK
        <3>4. adjustmentFactor' \in 1..ONE
            BY <2>8, <3>3, ONEAssumption DEF PartialBurn
        <3>5. BurnTypeOK'  BY <1>a, <2>8, <3>4 DEF PartialBurn, BurnTypeOK
        <3>. QED  BY <1>a, <2>5, <2>8, <3>1, <3>5 DEF PartialBurn, LMTypeOK
    <2>9. CASE RefusedBurn(amount)
        BY <1>a, <1>d, <1>f, <2>5, <2>9 DEF RefusedBurn, LMTypeOK
    <2>. QED  BY <2>2, <2>7, <2>8, <2>9 DEF ExecuteBurn
<1>11. CASE UNCHANGED vars
    BY <1>11, <1>c, <1>d, <1>e, <1>f, <1>g DEF vars, TypeOK, recoveryVars
<1>12. ASSUME NEW u \in Users, UserStep(u)
       PROVE  TypeOK'
    <2>1. BalanceAdjustedOf(u) \in Nat  BY <1>a DEF BalanceAdjustedOf, LMTypeOK
    <2>. QED
        BY <1>2, <1>3, <1>4, <1>5, <1>6, <1>12, <1>h, <2>1 DEF UserStep, InitiateWithdrawal
<1>. QED  BY <1>1, <1>7, <1>8, <1>9, <1>10, <1>11, <1>12 DEF Next

-----------------------------------------------------------------------------
(* Every operation keeps the order of the integrals                        *)

LEMMA OrderStep ==
    ASSUME RecoveryInv, [Next]_vars
    PROVE  IntegralsOrdered'
<1>a. TypeOK /\ LMTypeOK /\ PositionsTypeOK /\ WithdrawalTypeOK  BY DEF RecoveryInv, TypeOK
<1>1. CASE MiningStep
    <2>1. totalStakedIntegral' \in {totalStakedIntegral, IntegralNow}
          /\ UNCHANGED perUserStakedIntegral
        BY <1>1 DEF MiningStep, Tick, GlobalCheckpoint, StopMining, StartMining, AdvanceIntegral,
                    stakeVars, integralVars, rewardVars
    <2>. QED  BY <1>1, <2>1, AdvanceKeepsOrder DEF MiningStep, recoveryVars, burnVars
<1>2. ASSUME NEW u \in Users, RecoveryUserCheckpoint(u)
      PROVE  IntegralsOrdered'
    BY <1>2, <1>a, CreditedTypes, CheckpointKeepsOrder
    DEF RecoveryUserCheckpoint, CheckpointRewards
<1>3. ASSUME NEW u \in Users, RecoveryClaimRewards(u)
      PROVE  IntegralsOrdered'
    BY <1>3, <1>a, CreditedTypes, CheckpointKeepsOrder DEF RecoveryClaimRewards
<1>4. ASSUME NEW u \in Users, NEW b \in Users, NEW amount \in GydAmounts,
             DepositFor(u, b, amount)
      PROVE  IntegralsOrdered'
    <2>. DEFINE p == PositionAfterCheckpoint(b)
                q == [p EXCEPT !.adjustedAmount = @ + AmountToAdjusted(amount)]
    <2>1. AmountToAdjusted(amount) \in Nat
        <3>1. adjustmentFactor \in Nat /\ adjustmentFactor > 0
            BY <1>a, ONEAssumption DEF TypeOK, BurnTypeOK
        <3>2. amount \in Nat  OBVIOUS
        <3>. QED  BY <3>1, <3>2, DivDownNat DEF AmountToAdjusted
    <2>2. p \in Position /\ p.lastUpdatedFullBurnId = nextFullBurnId  BY <1>a, CreditedTypes
    <2>3. q \in Position /\ q.lastUpdatedFullBurnId = nextFullBurnId
        BY <2>1, <2>2 DEF Position
    <2>4. positions' = [positions EXCEPT ![b] = q]  BY <1>4 DEF DepositFor
    <2>. QED  BY <1>4, <2>3, <2>4, CheckpointKeepsOrder DEF DepositFor, CheckpointRewards
<1>5. ASSUME NEW u \in Users, NEW amount \in GydAmounts, Donate(u, amount)
      PROVE  IntegralsOrdered'
    BY <1>5, AdvanceKeepsOrder DEF Donate, lmVars, integralVars, burnVars
<1>6. ASSUME NEW u \in Users, NEW a \in Nat, InitiateWithdrawalAdjusted(u, a)
      PROVE  IntegralsOrdered'
    BY <1>6, <1>a, CreditedTypes, CheckpointKeepsOrder
    DEF InitiateWithdrawalAdjusted, CheckpointRewards
<1>7. ASSUME NEW id \in DOMAIN pendingWithdrawals, WithdrawBurned(id)
      PROVE  IntegralsOrdered'
    BY <1>7, AdvanceKeepsOrder DEF WithdrawBurned, lmVars, integralVars, burnVars
<1>8. ASSUME NEW id \in DOMAIN pendingWithdrawals, WithdrawPaid(id)
      PROVE  IntegralsOrdered'
    <2>1. \A v \in Users :
            positions'[v].lastUpdatedFullBurnId = positions[v].lastUpdatedFullBurnId
        BY <1>8, <1>a DEF WithdrawPaid, PositionsTypeOK, Position
    <2>. QED  BY <1>8, <2>1, AdvanceKeepsOrder DEF WithdrawPaid, lmVars, integralVars, burnVars
<1>9. ASSUME NEW duration \in WaitDurations, SetWithdrawalWaitDuration(duration)
      PROVE  IntegralsOrdered'
    BY <1>9, AdvanceKeepsOrder DEF SetWithdrawalWaitDuration, lmVars, integralVars, burnVars
<1>10. ASSUME NEW value \in ReserveValues, CheckAndRun(value)
       PROVE  IntegralsOrdered'
    <2>. DEFINE amount == gydSupply - TargetGYDSupply(value)
    <2>1. ExecuteBurn(amount)  BY <1>10 DEF CheckAndRun
    <2>. HIDE DEF amount
    <2>2. AdvanceIntegral /\ UNCHANGED <<positions, perUserStakedIntegral>>
        BY <2>1 DEF ExecuteBurn
    <2>3. CASE FullBurn  BY <2>2, <2>3, FullBurnKeepsOrder
    <2>4. CASE PartialBurn(amount) \/ RefusedBurn(amount)
        BY <2>2, <2>4, AdvanceKeepsOrder DEF AdvanceIntegral, PartialBurn, RefusedBurn, burnVars
    <2>. QED  BY <2>1, <2>3, <2>4 DEF ExecuteBurn
<1>11. CASE UNCHANGED vars
    BY <1>11, AdvanceKeepsOrder DEF vars, lmVars, integralVars, recoveryVars, burnVars
<1>12. ASSUME NEW u \in Users, UserStep(u)
       PROVE  IntegralsOrdered'
    <2>1. BalanceAdjustedOf(u) \in Nat  BY <1>a DEF BalanceAdjustedOf, LMTypeOK
    <2>2. \A amount \in GydAmounts : amount \in Nat /\ AmountToAdjusted(amount) \in Nat
        <3>1. adjustmentFactor \in Nat /\ adjustmentFactor > 0
            BY <1>a, ONEAssumption DEF TypeOK, BurnTypeOK
        <3>2. \A amount \in GydAmounts : amount \in Nat  OBVIOUS
        <3>. QED  BY <3>1, <3>2, DivDownNat DEF AmountToAdjusted
    <2>. QED
        BY <1>2, <1>3, <1>4, <1>5, <1>6, <1>12, <2>1, <2>2 DEF UserStep, InitiateWithdrawal
<1>. QED  BY <1>1, <1>7, <1>8, <1>9, <1>10, <1>11, <1>12 DEF Next

LEMMA RecoveryInit ==
    ASSUME Init
    PROVE  RecoveryInv
<1>1. Cardinality(Users) \in Nat  BY FS_CardinalityType
<1>2. LMTypeOK  BY LMAssumption DEF Init, LMInit, LMTypeOK
<1>3. GydTypeOK  BY <1>1, ProductNat DEF Init, GydTypeOK
<1>4. PositionsTypeOK  BY DEF Init, PositionsTypeOK, Position
<1>5. BurnTypeOK  BY ONEAssumption DEF Init, BurnTypeOK
<1>6. WithdrawalTypeOK
    <2>1. withdrawalWaitDuration \in 0..MaxWithdrawalWaitDuration /\ nextWithdrawalId = 0
        BY DEF Init
    <2>2. DOMAIN pendingWithdrawals = {} /\ pendingWithdrawals \in [{} -> PendingWithdrawal]
        BY DEF Init
    <2>. QED  BY <2>1, <2>2 DEF WithdrawalTypeOK
<1>7. IntegralsOrdered  BY DEF Init, LMInit, IntegralsOrdered, Stale
<1>. QED  BY <1>2, <1>3, <1>4, <1>5, <1>6, <1>7 DEF RecoveryInv, TypeOK

-----------------------------------------------------------------------------
(* What the accounts add up to                                             *)

LiveStakes == [u \in Users |-> BalanceAdjustedOf(u)]

LivePositions == [u \in Users |-> TotalBalanceAdjustedOf(u)]

PendingAmounts == [id \in DOMAIN pendingWithdrawals |-> pendingWithdrawals[id].adjustedAmount]

LiveIds(u) == {id \in PendingWithdrawalIds(u) : LivePending(id)}

\* Solvent, LiveStakesAddUp and PositionsAddUp, in products and totals, are inductive
\* once it is known that a user who was never checkpointed has nothing, and that the
\* owner of a pending withdrawal was checkpointed when it was initiated.
UntouchedAreEmpty ==
    \A u \in Users : positions[u].lastUpdatedFullBurnId = 0 =>
                        perUserStaked[u] = 0 /\ positions[u].adjustedAmount = 0

OwnersCheckpointed ==
    \A id \in DOMAIN pendingWithdrawals :
        pendingWithdrawals[id].createdFullBurnId
            <= positions[pendingWithdrawals[id].to].lastUpdatedFullBurnId

StakesCounted == totalStaked = Total(LiveStakes, Users)

PendingCounted ==
    \A u \in Users : LivePositions[u] = LiveStakes[u] + Total(PendingAmounts, LiveIds(u))

ClaimsCovered == Total(LivePositions, Users) * adjustmentFactor <= underlying * ONE

AccountsInv ==
    /\ UntouchedAreEmpty
    /\ OwnersCheckpointed
    /\ StakesCounted
    /\ PendingCounted
    /\ ClaimsCovered

LEMMA LiveTypes ==
    ASSUME TypeOK
    PROVE  /\ LiveStakes \in [Users -> Nat] /\ Total(LiveStakes, Users) \in Nat
           /\ LivePositions \in [Users -> Nat] /\ Total(LivePositions, Users) \in Nat
           /\ PendingAmounts \in [DOMAIN pendingWithdrawals -> Nat]
           /\ \A u \in Users : /\ LiveIds(u) \subseteq DOMAIN pendingWithdrawals
                               /\ IsFiniteSet(LiveIds(u))
                               /\ Total(PendingAmounts, LiveIds(u)) \in Nat
<1>1. LiveStakes \in [Users -> Nat]
    BY DEF LiveStakes, BalanceAdjustedOf, TypeOK, LMTypeOK
<1>2. LivePositions \in [Users -> Nat]
    BY DEF LivePositions, TotalBalanceAdjustedOf, TypeOK, PositionsTypeOK, Position
<1>3. PendingAmounts \in [DOMAIN pendingWithdrawals -> Nat]
    BY DEF PendingAmounts, TypeOK, WithdrawalTypeOK, PendingWithdrawal
<1>4. IsFiniteSet(DOMAIN pendingWithdrawals)
    <2>1. /\ nextWithdrawalId - 1 \in Int
          /\ DOMAIN pendingWithdrawals \subseteq 0..(nextWithdrawalId - 1)
        BY DEF TypeOK, WithdrawalTypeOK
    <2>2. IsFiniteSet(0..(nextWithdrawalId - 1))  BY <2>1, FS_Interval
    <2>. QED  BY <2>1, <2>2, FS_Subset
<1>5. ASSUME NEW u \in Users
      PROVE  /\ LiveIds(u) \subseteq DOMAIN pendingWithdrawals
             /\ IsFiniteSet(LiveIds(u))
             /\ Total(PendingAmounts, LiveIds(u)) \in Nat
    <2>1. LiveIds(u) \subseteq DOMAIN pendingWithdrawals  BY DEF LiveIds, PendingWithdrawalIds
    <2>2. IsFiniteSet(LiveIds(u))  BY <1>4, <2>1, FS_Subset
    <2>. QED  BY <1>3, <2>1, <2>2, TotalStep
<1>. QED  BY <1>1, <1>2, <1>3, <1>5, TotalStep

\* A checkpoint leaves the user with what counts of the stake and of the position.
LEMMA AfterCheckpoint ==
    ASSUME RecoveryInv, UntouchedAreEmpty, NEW u \in Users
    PROVE  /\ StakedAfterCheckpoint(u) = LiveStakes[u]
           /\ PositionAfterCheckpoint(u) = [lastUpdatedFullBurnId |-> nextFullBurnId,
                                            adjustedAmount |-> LivePositions[u]]
<1>. DEFINE id == positions[u].lastUpdatedFullBurnId
<1>1. id \in Nat /\ nextFullBurnId \in Nat \ {0} /\ id <= nextFullBurnId
    BY DEF RecoveryInv, IntegralsOrdered, TypeOK, PositionsTypeOK, Position, BurnTypeOK
<1>2. CASE id = 0
    BY <1>1, <1>2 DEF UntouchedAreEmpty, LiveStakes, LivePositions, BalanceAdjustedOf,
                      TotalBalanceAdjustedOf, Current, Stale, StakedAfterCheckpoint,
                      PositionAfterCheckpoint
<1>3. CASE id # 0
    BY <1>1, <1>3 DEF LiveStakes, LivePositions, BalanceAdjustedOf, TotalBalanceAdjustedOf,
                      Current, Stale, StakedAfterCheckpoint, PositionAfterCheckpoint
<1>. QED  BY <1>2, <1>3

\* What setting the stake and the position of one user does to the accounts.
LEMMA UserUpdated ==
    ASSUME RecoveryInv, UntouchedAreEmpty, OwnersCheckpointed,
           NEW u \in Users, NEW s \in Nat, NEW p \in Nat,
           perUserStaked' = [perUserStaked EXCEPT ![u] = s],
           positions' = [positions EXCEPT ![u] = [lastUpdatedFullBurnId |-> nextFullBurnId,
                                                  adjustedAmount |-> p]],
           UNCHANGED nextFullBurnId
    PROVE  /\ UntouchedAreEmpty'
           /\ \A id \in DOMAIN pendingWithdrawals :
                  pendingWithdrawals[id].createdFullBurnId
                      <= positions'[pendingWithdrawals[id].to].lastUpdatedFullBurnId
           /\ LiveStakes' = [LiveStakes EXCEPT ![u] = s]
           /\ LivePositions' = [LivePositions EXCEPT ![u] = p]
           /\ Total(LiveStakes', Users) = Total(LiveStakes, Users) - LiveStakes[u] + s
           /\ Total(LivePositions', Users)
                 = Total(LivePositions, Users) - LivePositions[u] + p
<1>1. /\ positions \in [Users -> Position] /\ perUserStaked \in [Users -> Nat]
      /\ nextFullBurnId \in Nat \ {0}
      /\ \A v \in Users : positions[v].lastUpdatedFullBurnId <= nextFullBurnId
    BY DEF RecoveryInv, IntegralsOrdered, TypeOK, LMTypeOK, PositionsTypeOK, BurnTypeOK
<1>2. /\ positions'[u].lastUpdatedFullBurnId = nextFullBurnId
      /\ positions'[u].adjustedAmount = p /\ perUserStaked'[u] = s
      /\ \A v \in Users : v # u => /\ positions'[v] = positions[v]
                                   /\ perUserStaked'[v] = perUserStaked[v]
    BY <1>1
<1>3. UntouchedAreEmpty'
    BY <1>1, <1>2 DEF UntouchedAreEmpty
<1>4. ASSUME NEW id \in DOMAIN pendingWithdrawals
      PROVE  pendingWithdrawals[id].createdFullBurnId
                <= positions'[pendingWithdrawals[id].to].lastUpdatedFullBurnId
    <2>. DEFINE o == pendingWithdrawals[id].to
                c == pendingWithdrawals[id].createdFullBurnId
    <2>1. o \in Users /\ c \in Nat
        BY DEF RecoveryInv, TypeOK, WithdrawalTypeOK, PendingWithdrawal
    <2>2. c <= positions[o].lastUpdatedFullBurnId /\ positions[o].lastUpdatedFullBurnId \in Nat
        BY <1>1, <2>1 DEF OwnersCheckpointed, Position
    <2>3. positions[o].lastUpdatedFullBurnId <= positions'[o].lastUpdatedFullBurnId
        BY <1>1, <1>2, <2>1, <2>2
    <2>4. positions'[o].lastUpdatedFullBurnId \in Nat  BY <1>1, <1>2, <2>1, <2>2
    <2>. HIDE DEF o, c
    <2>5. c <= positions'[o].lastUpdatedFullBurnId  BY <2>1, <2>2, <2>3, <2>4
    <2>. QED  BY <2>5 DEF o, c
<1>5. LiveStakes' = [LiveStakes EXCEPT ![u] = s]
    BY <1>1, <1>2 DEF LiveStakes, BalanceAdjustedOf, Current
<1>6. LivePositions' = [LivePositions EXCEPT ![u] = p]
    BY <1>1, <1>2 DEF LivePositions, TotalBalanceAdjustedOf, Current
<1>7. /\ LiveStakes \in [Users -> Nat] /\ LivePositions \in [Users -> Nat]
      /\ Total(LiveStakes, Users) \in Nat /\ Total(LivePositions, Users) \in Nat
      /\ IsFiniteSet(Users)
    BY LiveTypes DEF RecoveryInv
<1>8. /\ LiveStakes'[u] = s /\ LivePositions'[u] = p
      /\ \A v \in Users : LiveStakes'[v] \in Nat /\ LivePositions'[v] \in Nat
      /\ \A v \in Users : v # u => LiveStakes'[v] = LiveStakes[v]
      /\ \A v \in Users : v # u => LivePositions'[v] = LivePositions[v]
    BY <1>5, <1>6, <1>7
<1>9. Total(LiveStakes', Users) = Total(LiveStakes, Users) - LiveStakes[u] + s
    <2>1. \A v \in Users : LiveStakes[v] \in Nat  BY <1>7
    <2>2. Total(LiveStakes', Users) + LiveStakes[u] = Total(LiveStakes, Users) + s
        BY <1>7, <1>8, <2>1, TotalUpdate
    <2>3. Total(LiveStakes', Users) \in Nat  BY <1>7, <1>8, TotalStep
    <2>. QED  BY <1>7, <2>1, <2>2, <2>3
<1>10. Total(LivePositions', Users) = Total(LivePositions, Users) - LivePositions[u] + p
    <2>1. \A v \in Users : LivePositions[v] \in Nat  BY <1>7
    <2>2. Total(LivePositions', Users) + LivePositions[u] = Total(LivePositions, Users) + p
        BY <1>7, <1>8, <2>1, TotalUpdate
    <2>3. Total(LivePositions', Users) \in Nat  BY <1>7, <1>8, TotalStep
    <2>. QED  BY <1>7, <2>1, <2>2, <2>3
<1>. QED  BY <1>3, <1>4, <1>5, <1>6, <1>9, <1>10

\* The claims are covered after a deposit that is worth what it pays in.
LEMMA ClaimsAdded ==
    ASSUME NEW t \in Nat, NEW f \in Nat, NEW pool \in Nat, NEW a \in Nat, NEW amount \in Nat,
           t * f <= pool * ONE, a * f <= amount * ONE
    PROVE  (t + a) * f <= (pool + amount) * ONE
<1>1. /\ t * f \in Nat /\ a * f \in Nat /\ pool * ONE \in Nat /\ amount * ONE \in Nat
    BY ONEAssumption, ProductNat
<1>2. (t + a) * f = t * f + a * f /\ (pool + amount) * ONE = pool * ONE + amount * ONE
    BY ONEAssumption
<1>. QED  BY <1>1, <1>2

\* A step that leaves the accounts alone and takes nothing from the pool.
LEMMA UntouchedAccounts ==
    ASSUME RecoveryInv, AccountsInv,
           UNCHANGED <<totalStaked, perUserStaked, positions, nextFullBurnId, adjustmentFactor,
                       pendingWithdrawals>>,
           underlying' \in Nat, underlying <= underlying'
    PROVE  AccountsInv'
<1>1. /\ LiveStakes' = LiveStakes /\ LivePositions' = LivePositions
      /\ PendingAmounts' = PendingAmounts /\ \A u \in Users : LiveIds(u)' = LiveIds(u)
    BY DEF LiveStakes, LivePositions, PendingAmounts, LiveIds, BalanceAdjustedOf,
           TotalBalanceAdjustedOf, Current, PendingWithdrawalIds, LivePending
<1>2. UntouchedAreEmpty' /\ OwnersCheckpointed'
    BY DEF AccountsInv, UntouchedAreEmpty, OwnersCheckpointed
<1>3. StakesCounted' /\ PendingCounted'
    BY <1>1 DEF AccountsInv, StakesCounted, PendingCounted
<1>4. ClaimsCovered'
    <2>1. /\ Total(LivePositions, Users) * adjustmentFactor \in Nat
          /\ underlying * ONE \in Nat /\ underlying' * ONE \in Nat
          /\ underlying * ONE <= underlying' * ONE
        <3>1. underlying \in Nat /\ adjustmentFactor \in Nat
            BY ONEAssumption DEF RecoveryInv, TypeOK, GydTypeOK, BurnTypeOK
        <3>2. underlying * ONE = ONE * underlying /\ underlying' * ONE = ONE * underlying'
            BY <3>1, ONEAssumption
        <3>. QED
            BY <3>1, <3>2, LiveTypes, ONEAssumption, ProductNat, ProductMono DEF RecoveryInv
    <2>. QED  BY <1>1, <2>1 DEF AccountsInv, ClaimsCovered
<1>. QED  BY <1>2, <1>3, <1>4 DEF AccountsInv

\* A checkpoint, with the deposit of a if a is not zero.
LEMMA CheckpointKeepsAccounts ==
    ASSUME RecoveryInv, AccountsInv, NEW u \in Users, NEW a \in Nat, NEW amount \in Nat,
           a * adjustmentFactor <= amount * ONE,
           perUserStaked' = [perUserStaked EXCEPT ![u] = StakedAfterCheckpoint(u) + a],
           positions' = [positions EXCEPT ![u] = [lastUpdatedFullBurnId |-> nextFullBurnId,
                                                  adjustedAmount |-> LivePositions[u] + a]],
           totalStaked' = totalStaked + a,
           underlying' = underlying + amount,
           UNCHANGED <<nextFullBurnId, adjustmentFactor, pendingWithdrawals>>
    PROVE  AccountsInv'
<1>1. /\ LiveStakes \in [Users -> Nat] /\ LivePositions \in [Users -> Nat]
      /\ Total(LiveStakes, Users) \in Nat /\ Total(LivePositions, Users) \in Nat
      /\ \A v \in Users : Total(PendingAmounts, LiveIds(v)) \in Nat
    BY LiveTypes DEF RecoveryInv
<1>. DEFINE s == LiveStakes[u] + a
            p == LivePositions[u] + a
<1>2. StakedAfterCheckpoint(u) + a = s
    BY AfterCheckpoint DEF AccountsInv
<1>3. /\ LiveStakes[u] \in Nat /\ LivePositions[u] \in Nat /\ s \in Nat /\ p \in Nat
      /\ s = LiveStakes[u] + a /\ p = LivePositions[u] + a
    BY <1>1
<1>. HIDE DEF s, p
<1>4. /\ UntouchedAreEmpty'
      /\ OwnersCheckpointed'
      /\ LiveStakes' = [LiveStakes EXCEPT ![u] = s]
      /\ LivePositions' = [LivePositions EXCEPT ![u] = p]
      /\ Total(LiveStakes', Users) = Total(LiveStakes, Users) - LiveStakes[u] + s
      /\ Total(LivePositions', Users) = Total(LivePositions, Users) - LivePositions[u] + p
    <2>1. /\ perUserStaked' = [perUserStaked EXCEPT ![u] = s]
          /\ positions' = [positions EXCEPT ![u] = [lastUpdatedFullBurnId |-> nextFullBurnId,
                                                    adjustedAmount |-> p]]
        BY <1>2 DEF p
    <2>2. UntouchedAreEmpty /\ OwnersCheckpointed /\ UNCHANGED nextFullBurnId
        BY DEF AccountsInv
    <2>3. \A id \in DOMAIN pendingWithdrawals :
              pendingWithdrawals[id].createdFullBurnId
                  <= positions'[pendingWithdrawals[id].to].lastUpdatedFullBurnId
        BY ONLY RecoveryInv, <1>3, <2>1, <2>2, UserUpdated
    <2>4. OwnersCheckpointed'  BY <2>3 DEF OwnersCheckpointed
    <2>. QED  BY ONLY RecoveryInv, <1>3, <2>1, <2>2, <2>4, UserUpdated
<1>5. /\ PendingAmounts' = PendingAmounts /\ \A v \in Users : LiveIds(v)' = LiveIds(v)
    BY DEF PendingAmounts, LiveIds, PendingWithdrawalIds, LivePending
<1>6. PendingCounted'
    <2>1. \A v \in Users : LivePositions[v] = LiveStakes[v] + Total(PendingAmounts, LiveIds(v))
        BY DEF AccountsInv, PendingCounted
    <2>2. \A v \in Users : LivePositions'[v] = LiveStakes'[v] + Total(PendingAmounts, LiveIds(v))
        BY <1>1, <1>3, <1>4, <2>1
    <2>. QED  BY <1>5, <2>2 DEF PendingCounted
<1>7. StakesCounted'
    BY <1>1, <1>3, <1>4 DEF AccountsInv, StakesCounted
<1>8. Total(LivePositions', Users) = Total(LivePositions, Users) + a
    BY <1>1, <1>3, <1>4
<1>9. ClaimsCovered'
    <2>1. underlying \in Nat /\ adjustmentFactor \in Nat
        BY ONEAssumption DEF RecoveryInv, TypeOK, GydTypeOK, BurnTypeOK
    <2>. QED  BY <1>1, <1>8, <2>1, ClaimsAdded DEF AccountsInv, ClaimsCovered
<1>. QED  BY <1>4, <1>6, <1>7, <1>9 DEF AccountsInv

\* Initiating a withdrawal moves a from the stake to the pending withdrawals.
LEMMA InitiateKeepsAccounts ==
    ASSUME RecoveryInv, AccountsInv, NEW u \in Users, NEW a \in Nat,
           InitiateWithdrawalAdjusted(u, a)
    PROVE  AccountsInv'
<1>. DEFINE s == LiveStakes[u] - a
            p == LivePositions[u]
            new == nextWithdrawalId
<1>1. /\ LiveStakes \in [Users -> Nat] /\ LivePositions \in [Users -> Nat]
      /\ Total(LiveStakes, Users) \in Nat /\ Total(LivePositions, Users) \in Nat
      /\ PendingAmounts \in [DOMAIN pendingWithdrawals -> Nat]
      /\ \A v \in Users : /\ LiveIds(v) \subseteq DOMAIN pendingWithdrawals
                          /\ IsFiniteSet(LiveIds(v))
                          /\ Total(PendingAmounts, LiveIds(v)) \in Nat
    BY LiveTypes DEF RecoveryInv
<1>2. /\ StakedAfterCheckpoint(u) = LiveStakes[u]
      /\ PositionAfterCheckpoint(u) = [lastUpdatedFullBurnId |-> nextFullBurnId,
                                       adjustedAmount |-> LivePositions[u]]
    BY AfterCheckpoint DEF AccountsInv
<1>3. /\ a <= LiveStakes[u] /\ totalStaked' = totalStaked - a
      /\ perUserStaked' = [perUserStaked EXCEPT ![u] = s]
      /\ positions' = [positions EXCEPT ![u] = [lastUpdatedFullBurnId |-> nextFullBurnId,
                                                adjustedAmount |-> p]]
      /\ UNCHANGED <<nextFullBurnId, adjustmentFactor, underlying>>
    BY <1>2 DEF InitiateWithdrawalAdjusted, burnVars, gydVars
<1>4. /\ new \notin DOMAIN pendingWithdrawals
      /\ DOMAIN pendingWithdrawals' = DOMAIN pendingWithdrawals \cup {new}
      /\ \A id \in DOMAIN pendingWithdrawals : pendingWithdrawals'[id] = pendingWithdrawals[id]
      /\ pendingWithdrawals'[new].createdFullBurnId = nextFullBurnId
      /\ pendingWithdrawals'[new].adjustedAmount = a /\ pendingWithdrawals'[new].to = u
    <2>1. new \notin DOMAIN pendingWithdrawals
        BY DEF RecoveryInv, TypeOK, WithdrawalTypeOK
    <2>. QED  BY <2>1 DEF InitiateWithdrawalAdjusted
<1>5. /\ LiveStakes[u] \in Nat /\ p \in Nat /\ s \in Nat /\ s + a = LiveStakes[u]
      /\ p = LivePositions[u]
    BY <1>1, <1>3
<1>. HIDE DEF s, p, new
<1>6. /\ UntouchedAreEmpty'
      /\ \A id \in DOMAIN pendingWithdrawals :
             pendingWithdrawals[id].createdFullBurnId
                 <= positions'[pendingWithdrawals[id].to].lastUpdatedFullBurnId
      /\ LiveStakes' = [LiveStakes EXCEPT ![u] = s]
      /\ LivePositions' = [LivePositions EXCEPT ![u] = p]
      /\ Total(LiveStakes', Users) = Total(LiveStakes, Users) - LiveStakes[u] + s
      /\ Total(LivePositions', Users) = Total(LivePositions, Users) - LivePositions[u] + p
    <2>1. UntouchedAreEmpty /\ OwnersCheckpointed /\ UNCHANGED nextFullBurnId
        BY <1>3 DEF AccountsInv
    <2>. QED  BY ONLY RecoveryInv, <1>3, <1>5, <2>1, UserUpdated
<1>7. OwnersCheckpointed'
    <2>1. nextFullBurnId \in Nat /\ positions'[u].lastUpdatedFullBurnId = nextFullBurnId
        BY <1>3 DEF RecoveryInv, TypeOK, BurnTypeOK, PositionsTypeOK
    <2>. QED  BY <1>4, <1>6, <2>1 DEF OwnersCheckpointed
<1>8. StakesCounted'
    BY <1>1, <1>3, <1>5, <1>6 DEF AccountsInv, StakesCounted
<1>9. ClaimsCovered'
    BY <1>1, <1>3, <1>5, <1>6 DEF AccountsInv, ClaimsCovered
<1>10. PendingCounted'
    <2>1. /\ \A id \in DOMAIN pendingWithdrawals : PendingAmounts'[id] = PendingAmounts[id]
          /\ PendingAmounts'[new] = a
        BY <1>4 DEF PendingAmounts
    <2>2. LiveIds(u)' = LiveIds(u) \cup {new}
        BY <1>3, <1>4 DEF LiveIds, PendingWithdrawalIds, LivePending
    <2>3. \A v \in Users : v # u => LiveIds(v)' = LiveIds(v)
        BY <1>3, <1>4 DEF LiveIds, PendingWithdrawalIds, LivePending
    <2>4. \A v \in Users : Total(PendingAmounts', LiveIds(v)) = Total(PendingAmounts, LiveIds(v))
        <3>. SUFFICES ASSUME NEW v \in Users
                      PROVE  Total(PendingAmounts', LiveIds(v)) = Total(PendingAmounts, LiveIds(v))
            OBVIOUS
        <3>1. /\ IsFiniteSet(LiveIds(v))
              /\ \A id \in LiveIds(v) : /\ PendingAmounts'[id] = PendingAmounts[id]
                                        /\ PendingAmounts[id] \in Nat
            BY <1>1, <2>1
        <3>. QED  BY <3>1, TotalSame
    <2>5. Total(PendingAmounts', LiveIds(u)') = a + Total(PendingAmounts, LiveIds(u))
        <3>. DEFINE ids == LiveIds(u) \cup {new}
        <3>1. new \in ids /\ ids \ {new} = LiveIds(u)  BY <1>1, <1>4
        <3>2. IsFiniteSet(ids)  BY <1>1, FS_AddElement
        <3>3. \A id \in ids : PendingAmounts'[id] \in Nat  BY <1>1, <2>1
        <3>. HIDE DEF ids
        <3>4. Total(PendingAmounts', ids) = PendingAmounts'[new] + Total(PendingAmounts', ids \ {new})
            BY <3>1, <3>2, <3>3, TotalRemove
        <3>. QED  BY <2>1, <2>2, <2>4, <3>1, <3>4 DEF ids
    <2>6. LivePositions'[u] = LiveStakes'[u] + Total(PendingAmounts', LiveIds(u)')
        <3>1. LivePositions'[u] = p /\ LiveStakes'[u] = s  BY <1>1, <1>6
        <3>2. p = LiveStakes[u] + Total(PendingAmounts, LiveIds(u))
            BY <1>5 DEF AccountsInv, PendingCounted
        <3>3. Total(PendingAmounts, LiveIds(u)) \in Nat  BY <1>1
        <3>. QED  BY <1>5, <2>5, <3>1, <3>2, <3>3
    <2>7. ASSUME NEW v \in Users, v # u
          PROVE  LivePositions'[v] = LiveStakes'[v] + Total(PendingAmounts', LiveIds(v)')
        <3>1. LivePositions'[v] = LivePositions[v] /\ LiveStakes'[v] = LiveStakes[v]
            BY <1>1, <1>6, <2>7
        <3>. QED  BY <2>3, <2>4, <2>7, <3>1 DEF AccountsInv, PendingCounted
    <2>. QED  BY <2>6, <2>7 DEF PendingCounted
<1>. QED  BY <1>6, <1>7, <1>8, <1>9, <1>10 DEF AccountsInv

\* A withdrawal that carries no claim is deleted.
LEMMA BurnedWithdrawalKeepsAccounts ==
    ASSUME RecoveryInv, AccountsInv, NEW id \in DOMAIN pendingWithdrawals, WithdrawBurned(id)
    PROVE  AccountsInv'
<1>1. /\ UNCHANGED <<totalStaked, perUserStaked, positions, nextFullBurnId, adjustmentFactor,
                     underlying>>
      /\ pendingWithdrawals[id].createdFullBurnId # nextFullBurnId
    <2>1. pendingWithdrawals[id].createdFullBurnId \in Nat /\ nextFullBurnId \in Nat
        BY DEF RecoveryInv, TypeOK, WithdrawalTypeOK, PendingWithdrawal, BurnTypeOK
    <2>. QED  BY <2>1 DEF WithdrawBurned, lmVars, stakeVars, gydVars, burnVars
<1>2. /\ DOMAIN pendingWithdrawals' = DOMAIN pendingWithdrawals \ {id}
      /\ \A i \in DOMAIN pendingWithdrawals \ {id} :
             pendingWithdrawals'[i] = pendingWithdrawals[i]
    BY DEF WithdrawBurned, Restrict
<1>3. LiveStakes' = LiveStakes /\ LivePositions' = LivePositions
    BY <1>1 DEF LiveStakes, LivePositions, BalanceAdjustedOf, TotalBalanceAdjustedOf, Current
<1>4. UntouchedAreEmpty' /\ OwnersCheckpointed'
    BY <1>1, <1>2 DEF AccountsInv, UntouchedAreEmpty, OwnersCheckpointed
<1>5. StakesCounted' /\ ClaimsCovered'
    BY <1>1, <1>3 DEF AccountsInv, StakesCounted, ClaimsCovered
<1>6. PendingCounted'
    <2>. SUFFICES ASSUME NEW u \in Users
                  PROVE  LivePositions'[u] = LiveStakes'[u] + Total(PendingAmounts', LiveIds(u)')
        BY DEF PendingCounted
    <2>1. LiveIds(u)' = LiveIds(u)
        BY <1>1, <1>2 DEF LiveIds, PendingWithdrawalIds, LivePending
    <2>2. \A i \in LiveIds(u) : PendingAmounts'[i] = PendingAmounts[i]
        BY <1>1, <1>2 DEF PendingAmounts, LiveIds, PendingWithdrawalIds, LivePending
    <2>3. /\ IsFiniteSet(LiveIds(u))
          /\ \A i \in LiveIds(u) : PendingAmounts[i] \in Nat
        BY LiveTypes DEF RecoveryInv
    <2>4. Total(PendingAmounts', LiveIds(u)) = Total(PendingAmounts, LiveIds(u))
        BY <2>2, <2>3, TotalSame
    <2>. QED  BY <1>3, <2>1, <2>4 DEF AccountsInv, PendingCounted
<1>. QED  BY <1>4, <1>5, <1>6 DEF AccountsInv

\* A withdrawal that is paid is of a position that counts, and is deducted from it.
LEMMA PaidWithdrawalPosition ==
    ASSUME RecoveryInv, AccountsInv, NEW id \in DOMAIN pendingWithdrawals, WithdrawPaid(id),
           NEW u \in Users, u = pendingWithdrawals[id].to
    PROVE  LET a == pendingWithdrawals[id].adjustedAmount
               amount == MulDown(a, adjustmentFactor)
               s == LiveStakes[u]
               p == LivePositions[u] - a
           IN  /\ pendingWithdrawals[id].createdFullBurnId = nextFullBurnId
               /\ a <= LivePositions[u]
               /\ amount <= underlying
               /\ underlying' = underlying - amount
               /\ perUserStaked' = [perUserStaked EXCEPT ![u] = s]
               /\ positions' = [positions EXCEPT ![u] =
                                    [lastUpdatedFullBurnId |-> nextFullBurnId,
                                     adjustedAmount |-> p]]
               /\ UNCHANGED <<totalStaked, nextFullBurnId, adjustmentFactor>>
<1>. DEFINE a == pendingWithdrawals[id].adjustedAmount
            amount == MulDown(a, adjustmentFactor)
            s == LiveStakes[u]
            p == LivePositions[u] - a
<1>1. /\ positions[u].lastUpdatedFullBurnId = nextFullBurnId
      /\ pendingWithdrawals[id].createdFullBurnId = nextFullBurnId
    <2>1. /\ pendingWithdrawals[id].createdFullBurnId \in Nat /\ nextFullBurnId \in Nat
          /\ positions[u].lastUpdatedFullBurnId \in Nat
        BY DEF RecoveryInv, TypeOK, WithdrawalTypeOK, PendingWithdrawal, BurnTypeOK,
               PositionsTypeOK, Position
    <2>2. /\ pendingWithdrawals[id].createdFullBurnId >= nextFullBurnId
          /\ pendingWithdrawals[id].createdFullBurnId <= positions[u].lastUpdatedFullBurnId
          /\ positions[u].lastUpdatedFullBurnId <= nextFullBurnId
        BY DEF WithdrawPaid, AccountsInv, OwnersCheckpointed, RecoveryInv, IntegralsOrdered
    <2>. QED  BY <2>1, <2>2
<1>2. /\ positions \in [Users -> Position] /\ perUserStaked \in [Users -> Nat]
      /\ s = perUserStaked[u] /\ LivePositions[u] = positions[u].adjustedAmount
    BY <1>1 DEF RecoveryInv, TypeOK, LMTypeOK, PositionsTypeOK, LiveStakes, LivePositions,
                      BalanceAdjustedOf, TotalBalanceAdjustedOf, Current
<1>3. /\ a <= LivePositions[u]
      /\ underlying' = underlying - amount
      /\ amount <= underlying
      /\ UNCHANGED <<totalStaked, perUserStaked, nextFullBurnId, adjustmentFactor>>
    BY <1>2 DEF WithdrawPaid, lmVars, stakeVars, burnVars
<1>4. /\ perUserStaked' = [perUserStaked EXCEPT ![u] = s]
      /\ positions' = [positions EXCEPT ![u] = [lastUpdatedFullBurnId |-> nextFullBurnId,
                                                adjustedAmount |-> p]]
    <2>1. perUserStaked' = [perUserStaked EXCEPT ![u] = s]  BY <1>2, <1>3
    <2>2. positions[u] \in Position  BY <1>2
    <2>3. [positions[u] EXCEPT !.adjustedAmount = p]
            = [lastUpdatedFullBurnId |-> nextFullBurnId, adjustedAmount |-> p]
        BY <1>1, <2>2 DEF Position
    <2>4. positions' = [positions EXCEPT ![u] = [positions[u] EXCEPT !.adjustedAmount = p]]
        BY <1>2 DEF WithdrawPaid
    <2>. QED  BY <2>1, <2>3, <2>4
<1>. QED  BY <1>1, <1>3, <1>4 DEF a, amount, s, p

\* A withdrawal that is paid takes its share of the claims, and rounds what it pays.
LEMMA PaidWithdrawalKeepsAccounts ==
    ASSUME RecoveryInv, AccountsInv, NEW id \in DOMAIN pendingWithdrawals, WithdrawPaid(id)
    PROVE  AccountsInv'
<1>0. PICK u \in Users : u = pendingWithdrawals[id].to
    BY DEF RecoveryInv, TypeOK, WithdrawalTypeOK, PendingWithdrawal
<1>. DEFINE a == pendingWithdrawals[id].adjustedAmount
            amount == MulDown(a, adjustmentFactor)
            s == LiveStakes[u]
            p == LivePositions[u] - a
<1>1. /\ LiveStakes \in [Users -> Nat] /\ LivePositions \in [Users -> Nat]
      /\ Total(LiveStakes, Users) \in Nat /\ Total(LivePositions, Users) \in Nat
      /\ PendingAmounts \in [DOMAIN pendingWithdrawals -> Nat]
      /\ \A v \in Users : /\ LiveIds(v) \subseteq DOMAIN pendingWithdrawals
                          /\ IsFiniteSet(LiveIds(v))
                          /\ Total(PendingAmounts, LiveIds(v)) \in Nat
    BY LiveTypes DEF RecoveryInv
<1>2. a \in Nat /\ PendingAmounts[id] = a
    BY DEF RecoveryInv, TypeOK, WithdrawalTypeOK, PendingWithdrawal, PendingAmounts
<1>3. /\ a <= LivePositions[u] /\ amount <= underlying /\ underlying' = underlying - amount
      /\ UNCHANGED <<totalStaked, nextFullBurnId, adjustmentFactor>>
      /\ pendingWithdrawals[id].createdFullBurnId = nextFullBurnId
    BY <1>0, PaidWithdrawalPosition
<1>4. /\ perUserStaked' = [perUserStaked EXCEPT ![u] = s]
      /\ positions' = [positions EXCEPT ![u] = [lastUpdatedFullBurnId |-> nextFullBurnId,
                                                adjustedAmount |-> p]]
    BY <1>0, PaidWithdrawalPosition
<1>5. /\ DOMAIN pendingWithdrawals' = DOMAIN pendingWithdrawals \ {id}
      /\ \A i \in DOMAIN pendingWithdrawals \ {id} :
             pendingWithdrawals'[i] = pendingWithdrawals[i]
    BY DEF WithdrawPaid, Restrict
<1>6. /\ s \in Nat /\ p \in Nat /\ p + a = LivePositions[u] /\ LivePositions[u] \in Nat
      /\ s = LiveStakes[u]
    BY <1>1, <1>2, <1>3
<1>7. /\ id \in LiveIds(u)
      /\ LiveIds(u)' = LiveIds(u) \ {id}
      /\ \A v \in Users : v # u => LiveIds(v)' = LiveIds(v) /\ id \notin LiveIds(v)
    BY <1>0, <1>3, <1>5 DEF LiveIds, PendingWithdrawalIds, LivePending
<1>8. \A i \in DOMAIN pendingWithdrawals \ {id} : PendingAmounts'[i] = PendingAmounts[i]
    BY <1>5 DEF PendingAmounts
<1>9. amount \in Nat /\ amount * ONE <= a * adjustmentFactor /\ adjustmentFactor \in Nat
      /\ underlying \in Nat
    <2>1. adjustmentFactor \in Nat /\ underlying \in Nat
        BY ONEAssumption DEF RecoveryInv, TypeOK, BurnTypeOK, GydTypeOK
    <2>. QED  BY <1>2, <2>1, ONEAssumption, ProductNat, Quotient DEF MulDown
<1>. HIDE DEF a, amount, s, p
<1>10. /\ UntouchedAreEmpty'
       /\ \A i \in DOMAIN pendingWithdrawals :
              pendingWithdrawals[i].createdFullBurnId
                  <= positions'[pendingWithdrawals[i].to].lastUpdatedFullBurnId
       /\ LiveStakes' = [LiveStakes EXCEPT ![u] = s]
       /\ LivePositions' = [LivePositions EXCEPT ![u] = p]
       /\ Total(LiveStakes', Users) = Total(LiveStakes, Users) - LiveStakes[u] + s
       /\ Total(LivePositions', Users) = Total(LivePositions, Users) - LivePositions[u] + p
    <2>1. UntouchedAreEmpty /\ OwnersCheckpointed /\ UNCHANGED nextFullBurnId
        BY <1>3 DEF AccountsInv
    <2>. QED  BY <1>4, <1>6, <2>1, UserUpdated
<1>11. OwnersCheckpointed'  BY <1>5, <1>10 DEF OwnersCheckpointed
<1>12. StakesCounted'
    BY <1>1, <1>3, <1>6, <1>10 DEF AccountsInv, StakesCounted
<1>13. ClaimsCovered'
    <2>. DEFINE t == Total(LivePositions, Users)
                left == Total(LivePositions', Users)
                f == adjustmentFactor
    <2>1. left \in Nat /\ t = left + a /\ t \in Nat
        <3>1. /\ IsFiniteSet(Users) /\ \A v \in Users : LivePositions'[v] \in Nat
            BY <1>1, <1>6, <1>10
        <3>2. left \in Nat  BY <3>1, TotalStep
        <3>. QED  BY <1>1, <1>2, <1>6, <1>10, <3>2
    <2>2. t * f <= underlying * ONE  BY DEF AccountsInv, ClaimsCovered
    <2>3. underlying' \in Nat /\ underlying = underlying' + amount  BY <1>3, <1>9
    <2>. HIDE DEF t, left, f
    <2>4. f \in Nat /\ amount * ONE <= a * f  BY <1>9 DEF f
    <2>5. t * f = left * f + a * f /\ underlying * ONE = underlying' * ONE + amount * ONE
        BY <1>2, <1>9, <2>1, <2>3, <2>4, ONEAssumption
    <2>6. /\ left * f \in Nat /\ a * f \in Nat /\ amount * ONE \in Nat /\ underlying' * ONE \in Nat
        BY <1>2, <1>9, <2>1, <2>3, <2>4, ONEAssumption, ProductNat
    <2>7. left * f <= underlying' * ONE  BY <2>2, <2>4, <2>5, <2>6
    <2>. QED  BY <1>3, <2>7 DEF ClaimsCovered, left, f
<1>14. PendingCounted'
    <2>1. Total(PendingAmounts, LiveIds(u)) = a + Total(PendingAmounts, LiveIds(u) \ {id})
        <3>1. /\ IsFiniteSet(LiveIds(u)) /\ PendingAmounts[id] = a
              /\ \A i \in LiveIds(u) : PendingAmounts[i] \in Nat
            BY <1>1, <1>2
        <3>. QED  BY <1>7, <3>1, TotalRemove
    <2>2. ASSUME NEW v \in Users
          PROVE  Total(PendingAmounts', LiveIds(v)') = Total(PendingAmounts, LiveIds(v)')
        <3>1. LiveIds(v)' \subseteq LiveIds(v) /\ id \notin LiveIds(v)'  BY <1>7
        <3>2. IsFiniteSet(LiveIds(v)')  BY <1>1, <3>1, FS_Subset
        <3>3. \A i \in LiveIds(v)' : /\ PendingAmounts'[i] = PendingAmounts[i]
                                     /\ PendingAmounts[i] \in Nat
            BY <1>1, <1>8, <3>1
        <3>. QED  BY <3>2, <3>3, TotalSame
    <2>3. LivePositions'[u] = LiveStakes'[u] + Total(PendingAmounts', LiveIds(u)')
        <3>1. LivePositions'[u] = p /\ LiveStakes'[u] = s  BY <1>1, <1>10
        <3>2. p + a = s + Total(PendingAmounts, LiveIds(u))
            BY <1>6 DEF AccountsInv, PendingCounted
        <3>3. Total(PendingAmounts', LiveIds(u)') = Total(PendingAmounts, LiveIds(u) \ {id})
            BY <1>7, <2>2
        <3>4. Total(PendingAmounts, LiveIds(u) \ {id}) \in Nat
            <4>1. IsFiniteSet(LiveIds(u) \ {id})  BY <1>1, FS_Subset
            <4>2. \A i \in LiveIds(u) \ {id} : PendingAmounts[i] \in Nat  BY <1>1
            <4>. QED  BY <4>1, <4>2, TotalStep
        <3>. DEFINE rest == Total(PendingAmounts, LiveIds(u) \ {id})
        <3>5. p + a = s + (a + rest) /\ rest \in Nat  BY <2>1, <3>2, <3>4
        <3>. HIDE DEF rest
        <3>6. p = s + rest  BY <1>2, <1>6, <3>5
        <3>. QED  BY <3>1, <3>3, <3>6 DEF rest
    <2>4. ASSUME NEW v \in Users, v # u
          PROVE  LivePositions'[v] = LiveStakes'[v] + Total(PendingAmounts', LiveIds(v)')
        <3>1. LivePositions'[v] = LivePositions[v] /\ LiveStakes'[v] = LiveStakes[v]
            BY <1>1, <1>10, <2>4
        <3>2. LiveIds(v)' = LiveIds(v)  BY <1>7, <2>4
        <3>. QED  BY <2>2, <3>1, <3>2 DEF AccountsInv, PendingCounted
    <2>. QED  BY <2>3, <2>4 DEF PendingCounted
<1>. QED  BY <1>10, <1>11, <1>12, <1>13, <1>14 DEF AccountsInv

\* A full burn leaves nobody with a claim: every position is of an earlier id.
LEMMA FullBurnKeepsAccounts ==
    ASSUME RecoveryInv, AccountsInv, FullBurn,
           UNCHANGED <<perUserStaked, positions, pendingWithdrawals>>
    PROVE  AccountsInv'
<1>1. /\ nextFullBurnId' = nextFullBurnId + 1 /\ totalStaked' = 0 /\ underlying' = 0
      /\ nextFullBurnId \in Nat /\ underlying \in Nat
    BY DEF FullBurn, BurnGyd, RecoveryInv, TypeOK, BurnTypeOK, GydTypeOK
<1>2. \A u \in Users : positions[u].lastUpdatedFullBurnId # nextFullBurnId'
    BY <1>1 DEF RecoveryInv, IntegralsOrdered, TypeOK, PositionsTypeOK, Position
<1>3. /\ \A u \in Users : LiveStakes'[u] = 0 /\ LivePositions'[u] = 0
    BY <1>2 DEF LiveStakes, LivePositions, BalanceAdjustedOf, TotalBalanceAdjustedOf, Current
<1>4. \A u \in Users : LiveIds(u)' = {}
    <2>1. ASSUME NEW id \in DOMAIN pendingWithdrawals
          PROVE  pendingWithdrawals[id].createdFullBurnId # nextFullBurnId'
        <3>1. /\ pendingWithdrawals[id].createdFullBurnId \in Nat
              /\ pendingWithdrawals[id].to \in Users
              /\ positions[pendingWithdrawals[id].to].lastUpdatedFullBurnId \in Nat
            BY DEF RecoveryInv, TypeOK, WithdrawalTypeOK, PendingWithdrawal, PositionsTypeOK,
                   Position
        <3>2. /\ pendingWithdrawals[id].createdFullBurnId
                    <= positions[pendingWithdrawals[id].to].lastUpdatedFullBurnId
              /\ positions[pendingWithdrawals[id].to].lastUpdatedFullBurnId <= nextFullBurnId
            BY <3>1 DEF AccountsInv, OwnersCheckpointed, RecoveryInv, IntegralsOrdered
        <3>. QED  BY <1>1, <3>1, <3>2
    <2>. QED  BY <2>1 DEF LiveIds, PendingWithdrawalIds, LivePending
<1>5. /\ Total(LiveStakes', Users) = 0 /\ Total(LivePositions', Users) = 0
      /\ Total(PendingAmounts', {}) = 0
    BY <1>3, TotalOfNothing, FS_EmptySet
<1>6. UntouchedAreEmpty' /\ OwnersCheckpointed'
    BY DEF AccountsInv, UntouchedAreEmpty, OwnersCheckpointed
<1>7. StakesCounted' /\ PendingCounted'
    BY <1>1, <1>3, <1>4, <1>5 DEF StakesCounted, PendingCounted
<1>8. ClaimsCovered'
    <2>1. adjustmentFactor' = ONE /\ ONE \in Nat  BY ONEAssumption DEF FullBurn
    <2>. QED  BY <1>1, <1>5, <2>1 DEF ClaimsCovered
<1>. QED  BY <1>6, <1>7, <1>8 DEF AccountsInv

\* A partial burn reduces the claims, through the factor, by at least as much as the
\* pool, relative to what they were.
LEMMA PartialBurnKeepsAccounts ==
    ASSUME RecoveryInv, AccountsInv, NEW amount \in Nat, underlying > 0, PartialBurn(amount),
           UNCHANGED <<perUserStaked, positions, pendingWithdrawals>>
    PROVE  AccountsInv'
<1>1. /\ UNCHANGED <<totalStaked, nextFullBurnId>>
      /\ underlying' = underlying - amount /\ amount <= underlying
      /\ adjustmentFactor' = NextFactor(amount)
    BY DEF PartialBurn, BurnGyd
<1>2. /\ LiveStakes' = LiveStakes /\ LivePositions' = LivePositions
      /\ PendingAmounts' = PendingAmounts /\ \A u \in Users : LiveIds(u)' = LiveIds(u)
    BY <1>1 DEF LiveStakes, LivePositions, PendingAmounts, LiveIds, BalanceAdjustedOf,
                TotalBalanceAdjustedOf, Current, PendingWithdrawalIds, LivePending
<1>3. UntouchedAreEmpty' /\ OwnersCheckpointed'
    BY DEF AccountsInv, UntouchedAreEmpty, OwnersCheckpointed
<1>4. StakesCounted' /\ PendingCounted'
    BY <1>1, <1>2 DEF AccountsInv, StakesCounted, PendingCounted
<1>5. ClaimsCovered'
    <2>. DEFINE t == Total(LivePositions, Users)
                f == adjustmentFactor
                pool == underlying
                left == underlying - amount
                m == MulDown(f, left)
                q == DivDown(m, pool)
    <2>1. t \in Nat /\ f \in Nat /\ pool \in Nat /\ pool > 0 /\ left \in Nat
        BY <1>1, LiveTypes, ONEAssumption DEF RecoveryInv, TypeOK, GydTypeOK, BurnTypeOK
    <2>2. f * t <= ONE * pool
        <3>1. t * f <= pool * ONE  BY DEF AccountsInv, ClaimsCovered
        <3>. HIDE DEF t, f, pool
        <3>2. t * f = f * t /\ pool * ONE = ONE * pool  BY <2>1, ONEAssumption
        <3>. QED  BY <3>1, <3>2
    <2>3. adjustmentFactor' = q  BY <1>1 DEF NextFactor, NextAdjustmentFactor
    <2>4. Total(LivePositions', Users) = t /\ underlying' = left  BY <1>1, <1>2
    <2>. HIDE DEF t, f, pool, left
    <2>5. m \in Nat /\ m * ONE <= f * left
        BY <2>1, ONEAssumption, ProductNat, Quotient DEF MulDown
    <2>. HIDE DEF m
    <2>6. q \in Nat /\ q * pool <= m * ONE
        BY <2>1, <2>5, ONEAssumption, ProductNat, Quotient DEF DivDown
    <2>. HIDE DEF q
    <2>7. q * pool <= left * f
        <3>1. f * left = left * f /\ f * left \in Nat /\ m * ONE \in Nat /\ q * pool \in Nat
            BY <2>1, <2>5, <2>6, ONEAssumption, ProductNat
        <3>. QED  BY <2>5, <2>6, <3>1
    <2>8. q * t <= left * ONE
        BY <2>1, <2>2, <2>6, <2>7, ONEAssumption, ThroughPrice
    <2>9. t * q <= left * ONE
        <3>1. t * q = q * t  BY <2>1, <2>6
        <3>. QED  BY <2>8, <3>1
    <2>. QED  BY <2>3, <2>4, <2>9 DEF ClaimsCovered
<1>. QED  BY <1>3, <1>4, <1>5 DEF AccountsInv

LEMMA AccountsStep ==
    ASSUME RecoveryInv, AccountsInv, [Next]_vars, TypeOK'
    PROVE  AccountsInv'
<1>a. /\ underlying \in Nat /\ adjustmentFactor \in Nat /\ adjustmentFactor > 0
      /\ underlying' \in Nat /\ totalStaked \in Nat
      /\ \A u \in Users : LiveStakes[u] \in Nat /\ LivePositions[u] \in Nat
    <2>1. underlying \in Nat /\ adjustmentFactor \in 1..ONE /\ totalStaked \in Nat
        BY DEF RecoveryInv, TypeOK, GydTypeOK, BurnTypeOK, LMTypeOK
    <2>2. underlying' \in Nat  BY DEF TypeOK, GydTypeOK
    <2>3. \A u \in Users : LiveStakes[u] \in Nat /\ LivePositions[u] \in Nat
        BY LiveTypes DEF RecoveryInv
    <2>. QED  BY <2>1, <2>2, <2>3, ONEAssumption
<1>b. \A amount \in GydAmounts :
          /\ amount \in Nat /\ AmountToAdjusted(amount) \in Nat
          /\ AmountToAdjusted(amount) * adjustmentFactor <= amount * ONE
    <2>1. \A amount \in GydAmounts : amount \in Nat  OBVIOUS
    <2>. QED
        BY <1>a, <2>1, ONEAssumption, ProductNat, DivDownNat, Quotient
        DEF AmountToAdjusted, DivDown
<1>c. \A u \in Users :
          PositionAfterCheckpoint(u) = [lastUpdatedFullBurnId |-> nextFullBurnId,
                                        adjustedAmount |-> LivePositions[u]]
    BY AfterCheckpoint DEF AccountsInv
<1>1. CASE MiningStep
    <2>1. UNCHANGED <<totalStaked, perUserStaked>>
        BY <1>1 DEF MiningStep, Tick, GlobalCheckpoint, StopMining, StartMining, stakeVars
    <2>. QED
        BY <1>1, <1>a, <2>1, UntouchedAccounts
        DEF MiningStep, recoveryVars, gydVars, burnVars, withdrawalVars
<1>2. ASSUME NEW u \in Users, RecoveryUserCheckpoint(u) \/ RecoveryClaimRewards(u)
      PROVE  AccountsInv'
    <2>1. /\ perUserStaked' = [perUserStaked EXCEPT ![u] = StakedAfterCheckpoint(u)]
          /\ positions' = [positions EXCEPT ![u] = PositionAfterCheckpoint(u)]
          /\ UNCHANGED <<totalStaked, underlying, nextFullBurnId, adjustmentFactor,
                         pendingWithdrawals>>
        BY <1>2 DEF RecoveryUserCheckpoint, RecoveryClaimRewards, gydVars, burnVars,
                    withdrawalVars
    <2>2. /\ 0 * adjustmentFactor <= 0 * ONE
          /\ StakedAfterCheckpoint(u) + 0 = StakedAfterCheckpoint(u)
          /\ LivePositions[u] + 0 = LivePositions[u]
          /\ totalStaked + 0 = totalStaked /\ underlying + 0 = underlying
        BY <1>a, CreditedTypes, ONEAssumption DEF RecoveryInv
    <2>3. /\ perUserStaked' = [perUserStaked EXCEPT ![u] = StakedAfterCheckpoint(u) + 0]
          /\ positions' = [positions EXCEPT ![u] = [lastUpdatedFullBurnId |-> nextFullBurnId,
                                                    adjustedAmount |-> LivePositions[u] + 0]]
          /\ totalStaked' = totalStaked + 0 /\ underlying' = underlying + 0
        BY <1>c, <2>1, <2>2
    <2>. QED  BY <2>1, <2>2, <2>3, CheckpointKeepsAccounts
<1>3. ASSUME NEW u \in Users, NEW b \in Users, NEW amount \in GydAmounts,
             DepositFor(u, b, amount)
      PROVE  AccountsInv'
    <2>. DEFINE a == AmountToAdjusted(amount)
    <2>1. /\ perUserStaked' = [perUserStaked EXCEPT ![b] = StakedAfterCheckpoint(b) + a]
          /\ totalStaked' = totalStaked + a
          /\ underlying' = underlying + amount
          /\ UNCHANGED <<nextFullBurnId, adjustmentFactor, pendingWithdrawals>>
        BY <1>3 DEF DepositFor, burnVars, withdrawalVars
    <2>2. positions' = [positions EXCEPT ![b] = [lastUpdatedFullBurnId |-> nextFullBurnId,
                                                 adjustedAmount |-> LivePositions[b] + a]]
        <3>. DEFINE at == [lastUpdatedFullBurnId |-> nextFullBurnId,
                           adjustedAmount |-> LivePositions[b]]
        <3>1. PositionAfterCheckpoint(b) = at  BY <1>c
        <3>2. positions' = [positions EXCEPT ![b] = [at EXCEPT !.adjustedAmount = @ + a]]
            BY <1>3, <3>1 DEF DepositFor
        <3>3. [at EXCEPT !.adjustedAmount = @ + a]
                = [lastUpdatedFullBurnId |-> nextFullBurnId,
                   adjustedAmount |-> LivePositions[b] + a]
            OBVIOUS
        <3>. QED  BY <3>2, <3>3
    <2>3. a \in Nat /\ amount \in Nat /\ a * adjustmentFactor <= amount * ONE  BY <1>b
    <2>. HIDE DEF a
    <2>. QED  BY <2>1, <2>2, <2>3, CheckpointKeepsAccounts
<1>4. ASSUME NEW u \in Users, NEW amount \in GydAmounts, Donate(u, amount)
      PROVE  AccountsInv'
    <2>1. underlying' = underlying + amount /\ amount \in Nat  BY <1>4, <1>b DEF Donate
    <2>2. underlying <= underlying'  BY <1>a, <2>1
    <2>. QED
        BY <1>4, <1>a, <2>2, UntouchedAccounts
        DEF Donate, lmVars, stakeVars, burnVars, withdrawalVars
<1>5. ASSUME NEW duration \in WaitDurations, SetWithdrawalWaitDuration(duration)
      PROVE  AccountsInv'
    BY <1>5, <1>a, UntouchedAccounts
    DEF SetWithdrawalWaitDuration, lmVars, stakeVars, gydVars, burnVars
<1>6. ASSUME NEW value \in ReserveValues, CheckAndRun(value)
      PROVE  AccountsInv'
    <2>. DEFINE amount == gydSupply - TargetGYDSupply(value)
    <2>1. ExecuteBurn(amount) /\ underlying > 0 /\ amount \in Nat
        <3>1. TargetGYDSupply(value) \in Nat  BY DivDownNat DEF TargetGYDSupply
        <3>2. gydSupply \in Nat  BY DEF RecoveryInv, TypeOK, GydTypeOK
        <3>. QED  BY <1>6, <3>1, <3>2 DEF CheckAndRun, ShouldRun
    <2>. HIDE DEF amount
    <2>2. UNCHANGED <<perUserStaked, positions, pendingWithdrawals>>
        BY <2>1 DEF ExecuteBurn, withdrawalVars
    <2>3. CASE FullBurn  BY <2>2, <2>3, FullBurnKeepsAccounts
    <2>4. CASE PartialBurn(amount)  BY <2>1, <2>2, <2>4, PartialBurnKeepsAccounts
    <2>5. CASE RefusedBurn(amount)
        BY <1>a, <2>2, <2>5, UntouchedAccounts DEF RefusedBurn, gydVars, burnVars
    <2>. QED  BY <2>1, <2>3, <2>4, <2>5 DEF ExecuteBurn
<1>7. CASE UNCHANGED vars
    BY <1>7, <1>a, UntouchedAccounts
    DEF vars, lmVars, stakeVars, recoveryVars, gydVars, burnVars, withdrawalVars
<1>8. ASSUME NEW u \in Users, UserStep(u)
      PROVE  AccountsInv'
    <2>1. BalanceAdjustedOf(u) \in Nat
        BY DEF BalanceAdjustedOf, RecoveryInv, TypeOK, LMTypeOK
    <2>. QED
        BY <1>2, <1>3, <1>4, <1>8, <1>b, <2>1, InitiateKeepsAccounts
        DEF UserStep, InitiateWithdrawal
<1>. QED
    BY <1>1, <1>5, <1>6, <1>7, <1>8, BurnedWithdrawalKeepsAccounts, PaidWithdrawalKeepsAccounts
    DEF Next

LEMMA AccountsInit ==
    ASSUME Init
    PROVE  AccountsInv
<1>1. /\ \A u \in Users : LiveStakes[u] = 0 /\ LivePositions[u] = 0
      /\ \A u \in Users : LiveIds(u) = {}
    BY DEF Init, LiveStakes, LivePositions, LiveIds, BalanceAdjustedOf, TotalBalanceAdjustedOf,
           Current, PendingWithdrawalIds
<1>2. /\ Total(LiveStakes, Users) = 0 /\ Total(LivePositions, Users) = 0
      /\ Total(PendingAmounts, {}) = 0
    BY <1>1, TotalOfNothing, FS_EmptySet
<1>3. UntouchedAreEmpty /\ OwnersCheckpointed
    BY DEF Init, LMInit, UntouchedAreEmpty, OwnersCheckpointed
<1>4. StakesCounted  BY <1>2 DEF Init, LMInit, StakesCounted
<1>5. PendingCounted  BY <1>1, <1>2 DEF PendingCounted
<1>6. ClaimsCovered
    <2>1. adjustmentFactor = ONE /\ underlying = 0  BY DEF Init
    <2>. QED  BY <1>2, <2>1, ONEAssumption DEF ClaimsCovered
<1>. QED  BY <1>3, <1>4, <1>5, <1>6 DEF AccountsInv

-----------------------------------------------------------------------------
(* What the users are owed                                                 *)

\* The integral up to which u is credited without a further accrual.
SettledIntegral(u) ==
    IF Stale(u) THEN fullBurnHistory[positions[u].lastUpdatedFullBurnId]
    ELSE totalStakedIntegral

\* What each user is owed, exactly and times ONE, at the last checkpoint of the contract
\* and after a checkpoint now.
OwedSettled ==
    [u \in Users |-> perUserShare[u] * ONE
                        + perUserStaked[u] * (SettledIntegral(u) - perUserStakedIntegral[u])]

OwedNow ==
    [u \in Users |-> perUserShare[u] * ONE
                        + perUserStaked[u] * (CreditedIntegral(u) - perUserStakedIntegral[u])]

\* What is counted as unclaimed covers the exact amounts: RecoverySharesCovered, which
\* speaks of the rounded ones, is not inductive.
SharesCounted == Total(OwedSettled, Users) <= totalUnclaimedRewards * ONE

LEMMA OwedTypes ==
    ASSUME RecoveryInv
    PROVE  /\ IntegralNow \in Nat /\ UnclaimedNow \in Nat /\ NewRewards \in Nat
           /\ totalStakedIntegral \in Nat /\ totalStakedIntegral <= IntegralNow
           /\ \A u \in Users :
                  /\ perUserShare[u] \in Nat /\ perUserStaked[u] \in Nat
                  /\ SettledIntegral(u) - perUserStakedIntegral[u] \in Nat
                  /\ CreditedIntegral(u) - perUserStakedIntegral[u] \in Nat
                  /\ OwedSettled[u] \in Nat /\ OwedNow[u] \in Nat
<1>1. LMTypeOK  BY DEF RecoveryInv, TypeOK
<1>2. /\ IntegralNow \in Nat /\ UnclaimedNow \in Nat /\ NewRewards \in Nat
      /\ totalStakedIntegral \in Nat /\ totalStakedIntegral <= IntegralNow
    BY <1>1, AccountingTypes DEF LMTypeOK
<1>3. ASSUME NEW u \in Users
      PROVE  /\ perUserShare[u] \in Nat /\ perUserStaked[u] \in Nat
             /\ SettledIntegral(u) - perUserStakedIntegral[u] \in Nat
             /\ CreditedIntegral(u) - perUserStakedIntegral[u] \in Nat
             /\ OwedSettled[u] \in Nat /\ OwedNow[u] \in Nat
    <2>1. perUserShare[u] \in Nat /\ perUserStaked[u] \in Nat /\ perUserStakedIntegral[u] \in Nat
        BY <1>1 DEF LMTypeOK
    <2>2. /\ fullBurnHistory \in [1..(nextFullBurnId - 1) -> Nat]
          /\ perUserStakedIntegral[u] <= totalStakedIntegral
          /\ Stale(u) => /\ positions[u].lastUpdatedFullBurnId \in 1..(nextFullBurnId - 1)
                         /\ perUserStakedIntegral[u]
                                <= fullBurnHistory[positions[u].lastUpdatedFullBurnId]
        BY DEF RecoveryInv, TypeOK, BurnTypeOK, IntegralsOrdered, Stale
    <2>3. /\ SettledIntegral(u) - perUserStakedIntegral[u] \in Nat
          /\ CreditedIntegral(u) - perUserStakedIntegral[u] \in Nat
        BY <1>2, <2>1, <2>2 DEF SettledIntegral, CreditedIntegral
    <2>4. \A d \in Nat : perUserShare[u] * ONE + perUserStaked[u] * d \in Nat
        BY <2>1, ONEAssumption, ProductNat
    <2>. QED  BY <2>1, <2>3, <2>4 DEF OwedSettled, OwedNow
<1>. QED  BY <1>2, <1>3

\* The integral is rounded down, so accruing to now adds no more to what the stakes that
\* count are owed than to the rewards counted as unclaimed.
LEMMA AccrualCounted ==
    ASSUME RecoveryInv, AccountsInv, SharesCounted
    PROVE  Total(OwedNow, Users) <= UnclaimedNow * ONE
<1>. DEFINE d == IntegralNow - totalStakedIntegral
<1>1. /\ NewRewards \in Nat /\ totalStaked \in Nat /\ totalUnclaimedRewards \in Nat
      /\ UnclaimedNow = totalUnclaimedRewards + NewRewards
    BY OwedTypes DEF RecoveryInv, TypeOK, LMTypeOK, UnclaimedNow
<1>2. d \in Nat  BY OwedTypes
<1>3. d * totalStaked <= NewRewards * ONE
    <2>1. NewRewards * ONE \in Nat  BY <1>1, ONEAssumption, ProductNat
    <2>2. CASE totalStaked > 0
        <3>. DEFINE q == DivDown(NewRewards, totalStaked)
        <3>1. q \in Nat /\ q * totalStaked <= NewRewards * ONE
            BY <1>1, <2>1, <2>2, Quotient DEF DivDown
        <3>2. IntegralNow = totalStakedIntegral + q /\ totalStakedIntegral \in Nat
            BY <2>2, OwedTypes DEF IntegralNow
        <3>. HIDE DEF q
        <3>3. d = q  BY <3>1, <3>2
        <3>. QED  BY <3>1, <3>3
    <2>3. CASE totalStaked = 0
        <3>1. IntegralNow = totalStakedIntegral + 0 /\ totalStakedIntegral \in Nat
            BY <2>3, OwedTypes DEF IntegralNow
        <3>. QED  BY <2>1, <2>3, <3>1
    <2>. QED  BY <1>1, <2>2, <2>3
<1>4. \A u \in Users : /\ OwedSettled[u] \in Nat /\ LiveStakes[u] \in Nat
                       /\ OwedNow[u] = OwedSettled[u] + d * LiveStakes[u]
    <2>. SUFFICES ASSUME NEW u \in Users
                  PROVE  OwedNow[u] = OwedSettled[u] + d * LiveStakes[u]
        BY OwedTypes, LiveTypes DEF RecoveryInv
    <2>. DEFINE share == perUserShare[u] * ONE
                stake == perUserStaked[u]
                settled == SettledIntegral(u) - perUserStakedIntegral[u]
                credited == CreditedIntegral(u) - perUserStakedIntegral[u]
    <2>1. share \in Nat /\ stake \in Nat /\ settled \in Nat /\ credited \in Nat
        BY OwedTypes, ONEAssumption, ProductNat
    <2>2. /\ OwedNow[u] = share + stake * credited
          /\ OwedSettled[u] = share + stake * settled
        BY DEF OwedNow, OwedSettled
    <2>3. CASE Current(u)
        <3>1. LiveStakes[u] = stake  BY <2>3 DEF LiveStakes, BalanceAdjustedOf
        <3>2. ~Stale(u)
            BY <2>3 DEF Current, Stale, RecoveryInv, TypeOK, BurnTypeOK
        <3>3. credited = settled + d
            <4>1. perUserStakedIntegral[u] \in Nat /\ totalStakedIntegral \in Nat
                  /\ IntegralNow \in Nat
                BY OwedTypes DEF RecoveryInv, TypeOK, LMTypeOK
            <4>. QED  BY <3>2, <4>1 DEF SettledIntegral, CreditedIntegral
        <3>. HIDE DEF share, stake, settled, credited, d
        <3>4. stake * credited = stake * settled + d * stake  BY <1>2, <2>1, <3>3
        <3>5. stake * settled \in Nat /\ d * stake \in Nat  BY <1>2, <2>1, ProductNat
        <3>. QED  BY <2>1, <2>2, <3>1, <3>4, <3>5
    <2>4. CASE ~Current(u)
        <3>1. LiveStakes[u] = 0  BY <2>4 DEF LiveStakes, BalanceAdjustedOf
        <3>2. stake * credited = stake * settled
            <4>1. CASE Stale(u)  BY <4>1 DEF SettledIntegral, CreditedIntegral
            <4>2. CASE ~Stale(u)
                <5>1. positions[u].lastUpdatedFullBurnId = 0
                    <6>1. /\ positions[u].lastUpdatedFullBurnId \in Nat
                          /\ nextFullBurnId \in Nat
                          /\ positions[u].lastUpdatedFullBurnId <= nextFullBurnId
                        BY DEF RecoveryInv, IntegralsOrdered, TypeOK, PositionsTypeOK,
                               Position, BurnTypeOK
                    <6>. QED  BY <2>4, <4>2, <6>1 DEF Current, Stale
                <5>2. stake = 0  BY <5>1 DEF AccountsInv, UntouchedAreEmpty
                <5>. QED  BY <2>1, <5>2
            <4>. QED  BY <4>1, <4>2
        <3>. HIDE DEF share, stake, settled, credited, d
        <3>3. d * 0 = 0 /\ stake * settled \in Nat  BY <1>2, <2>1, ProductNat
        <3>. QED  BY <2>1, <2>2, <3>1, <3>2, <3>3
    <2>. QED  BY <2>3, <2>4
<1>. HIDE DEF d
<1>5. Total(OwedNow, Users) = Total(OwedSettled, Users) + d * Total(LiveStakes, Users)
    BY <1>2, <1>4, TotalLinear
<1>6. Total(LiveStakes, Users) = totalStaked  BY DEF AccountsInv, StakesCounted
<1>7. UnclaimedNow * ONE = totalUnclaimedRewards * ONE + NewRewards * ONE
    BY <1>1, ONEAssumption
<1>8. /\ Total(OwedSettled, Users) \in Nat /\ d * totalStaked \in Nat
      /\ totalUnclaimedRewards * ONE \in Nat /\ NewRewards * ONE \in Nat
    BY <1>1, <1>2, <1>4, ONEAssumption, ProductNat, TotalStep
<1>9. Total(OwedSettled, Users) <= totalUnclaimedRewards * ONE  BY DEF SharesCounted
<1>. QED  BY <1>3, <1>5, <1>6, <1>7, <1>8, <1>9

\* A step that moves no reward.
LEMMA NoAccrual ==
    ASSUME RecoveryInv, SharesCounted,
           UNCHANGED <<totalStakedIntegral, totalUnclaimedRewards, perUserStakedIntegral,
                       perUserShare, perUserStaked, nextFullBurnId, fullBurnHistory>>,
           \A u \in Users : positions'[u].lastUpdatedFullBurnId = positions[u].lastUpdatedFullBurnId
    PROVE  SharesCounted'
<1>1. \A u \in Users : SettledIntegral(u)' = SettledIntegral(u)
    BY DEF SettledIntegral, Stale
<1>2. OwedSettled' = OwedSettled  BY <1>1 DEF OwedSettled
<1>. QED  BY <1>2 DEF SharesCounted

\* A step that accrues to now and credits nobody.
LEMMA AccrualKeepsShares ==
    ASSUME RecoveryInv, AccountsInv, SharesCounted,
           totalUnclaimedRewards' = UnclaimedNow,
           UNCHANGED <<perUserStakedIntegral, perUserShare, perUserStaked>>,
           \A u \in Users : SettledIntegral(u)' = CreditedIntegral(u)
    PROVE  SharesCounted'
<1>1. OwedSettled' = OwedNow  BY DEF OwedSettled, OwedNow
<1>. QED  BY <1>1, AccrualCounted DEF SharesCounted

\* A checkpoint of one user, who is paid so much of the share at once: what is credited
\* was owed, and rounding is at the expense of the user.
LEMMA CreditKeepsShares ==
    ASSUME RecoveryInv, AccountsInv, SharesCounted, TypeOK',
           NEW u \in Users, NEW paid \in Nat,
           AdvanceIntegral, CreditUpTo(u, CreditedIntegral(u)),
           totalUnclaimedRewards' + paid = UnclaimedNow,
           perUserShare'[u] + paid = ShareUpTo(u, CreditedIntegral(u)),
           positions'[u].lastUpdatedFullBurnId = nextFullBurnId,
           Stale(u) => perUserStaked'[u] = 0,
           \A v \in Users : v # u => /\ perUserShare'[v] = perUserShare[v]
                                     /\ perUserStaked'[v] = perUserStaked[v]
                                     /\ positions'[v] = positions[v],
           UNCHANGED <<nextFullBurnId, fullBurnHistory>>
    PROVE  SharesCounted'
<1>1. /\ totalStakedIntegral' = IntegralNow /\ IntegralNow \in Nat
      /\ perUserStakedIntegral'[u] = CreditedIntegral(u)
      /\ \A v \in Users : v # u => perUserStakedIntegral'[v] = perUserStakedIntegral[v]
    BY OwedTypes DEF AdvanceIntegral, CreditUpTo, RecoveryInv, TypeOK, LMTypeOK
<1>2. ASSUME NEW v \in Users, v # u
      PROVE  OwedSettled'[v] = OwedNow[v]
    <2>1. SettledIntegral(v)' = CreditedIntegral(v)
        BY <1>1, <1>2 DEF SettledIntegral, CreditedIntegral, Stale
    <2>. QED  BY <1>1, <1>2, <2>1 DEF OwedSettled, OwedNow
<1>3. perUserShare'[u] \in Nat /\ perUserStaked'[u] \in Nat /\ totalUnclaimedRewards' \in Nat
    BY DEF TypeOK, LMTypeOK
<1>4. OwedSettled'[u] = perUserShare'[u] * ONE
    <2>1. SettledIntegral(u)' = IntegralNow
        <3>1. ~Stale(u)'  BY DEF Stale, RecoveryInv, TypeOK, BurnTypeOK
        <3>. QED  BY <1>1, <3>1 DEF SettledIntegral
    <2>2. OwedSettled'[u] = perUserShare'[u] * ONE
                                + perUserStaked'[u] * (IntegralNow - CreditedIntegral(u))
        BY <1>1, <2>1 DEF OwedSettled
    <2>3. perUserShare'[u] * ONE \in Nat  BY <1>3, ONEAssumption, ProductNat
    <2>4. CASE Stale(u)
        <3>1. CreditedIntegral(u) \in Nat  BY CreditedTypes DEF RecoveryInv
        <3>2. 0 * (IntegralNow - CreditedIntegral(u)) = 0  BY <1>1, <3>1
        <3>. QED  BY <2>2, <2>3, <2>4, <3>2
    <2>5. CASE ~Stale(u)
        <3>1. IntegralNow - CreditedIntegral(u) = 0  BY <1>1, <2>5 DEF CreditedIntegral
        <3>2. perUserStaked'[u] * 0 = 0  BY <1>3
        <3>. QED  BY <2>2, <2>3, <3>1, <3>2
    <2>. QED  BY <2>4, <2>5
<1>5. OwedSettled'[u] \in Nat /\ OwedSettled'[u] + paid * ONE <= OwedNow[u]
    <2>. DEFINE share == perUserShare[u]
                stake == perUserStaked[u]
                d == CreditedIntegral(u) - perUserStakedIntegral[u]
                m == MulDown(stake, d)
                left == perUserShare'[u]
    <2>1. share \in Nat /\ stake \in Nat /\ d \in Nat  BY OwedTypes
    <2>2. OwedNow[u] = share * ONE + stake * d  BY DEF OwedNow
    <2>3. left + paid = share + m /\ left \in Nat  BY <1>3 DEF ShareUpTo
    <2>. HIDE DEF share, stake, d, left
    <2>4. m \in Nat /\ m * ONE <= stake * d
        BY <2>1, ONEAssumption, ProductNat, Quotient DEF MulDown
    <2>. HIDE DEF m
    <2>5. left * ONE + paid * ONE = share * ONE + m * ONE
        <3>1. (left + paid) * ONE = left * ONE + paid * ONE
              /\ (share + m) * ONE = share * ONE + m * ONE
            BY <2>1, <2>3, <2>4, ONEAssumption
        <3>. QED  BY <2>3, <3>1
    <2>6. /\ left * ONE \in Nat /\ share * ONE \in Nat /\ m * ONE \in Nat /\ stake * d \in Nat
          /\ paid * ONE \in Nat
        BY <2>1, <2>3, <2>4, ONEAssumption, ProductNat
    <2>7. OwedSettled'[u] = left * ONE  BY <1>4 DEF left
    <2>. QED  BY <2>2, <2>4, <2>5, <2>6, <2>7
<1>6. \A v \in Users : OwedNow[v] \in Nat /\ OwedSettled'[v] \in Nat
    <2>1. \A v \in Users : OwedNow[v] \in Nat  BY OwedTypes
    <2>. QED  BY <1>2, <1>5, <2>1
<1>7. Total(OwedSettled', Users) + OwedNow[u] = Total(OwedNow, Users) + OwedSettled'[u]
    BY <1>2, <1>6, TotalUpdate, SMTT(40)
<1>8. Total(OwedSettled', Users) \in Nat /\ Total(OwedNow, Users) \in Nat
    BY <1>6, TotalStep
<1>9. Total(OwedNow, Users) <= UnclaimedNow * ONE  BY AccrualCounted
<1>10. UnclaimedNow * ONE = totalUnclaimedRewards' * ONE + paid * ONE
    <2>1. (totalUnclaimedRewards' + paid) * ONE = totalUnclaimedRewards' * ONE + paid * ONE
        BY <1>3, ONEAssumption
    <2>. QED  BY <2>1
<1>11. totalUnclaimedRewards' * ONE \in Nat /\ paid * ONE \in Nat /\ OwedNow[u] \in Nat
    BY <1>3, <1>6, ONEAssumption, ProductNat
<1>12. Total(OwedSettled', Users) <= totalUnclaimedRewards' * ONE
    <2>. HIDE DEF OwedSettled, OwedNow
    <2>. QED  BY <1>5, <1>7, <1>8, <1>9, <1>10, <1>11
<1>. QED  BY <1>12 DEF SharesCounted

LEMMA SharesStep ==
    ASSUME RecoveryInv, AccountsInv, SharesCounted, TypeOK',
           [Next /\ CheckpointsBeforeDeposit]_vars
    PROVE  SharesCounted'
<1>a. /\ UnclaimedNow \in Nat /\ totalUnclaimedRewards \in Nat
      /\ positions \in [Users -> Position] /\ positions' \in [Users -> Position]
      /\ perUserShare \in [Users -> Nat] /\ perUserStaked \in [Users -> Nat]
      /\ nextFullBurnId \in Nat \ {0}
    <2>1. positions' \in [Users -> Position]  BY DEF TypeOK, PositionsTypeOK
    <2>. QED
        BY <2>1, OwedTypes DEF RecoveryInv, TypeOK, LMTypeOK, PositionsTypeOK, BurnTypeOK
<1>b. totalStakedIntegral' = IntegralNow /\ UNCHANGED <<positions, nextFullBurnId, fullBurnHistory>>
        => \A u \in Users : SettledIntegral(u)' = CreditedIntegral(u)
    BY DEF SettledIntegral, CreditedIntegral, Stale
\* The checkpoint of u by an operation that pays nothing out.
<1>c. ASSUME NEW u \in Users, NEW p, CheckpointRewards(u), UNCHANGED burnVars,
             positions' = [positions EXCEPT ![u] = p],
             p.lastUpdatedFullBurnId = nextFullBurnId,
             NEW s, perUserStaked' = [perUserStaked EXCEPT ![u] = s],
             Stale(u) => s = 0
      PROVE  SharesCounted'
    <2>1. /\ AdvanceIntegral /\ CreditUpTo(u, CreditedIntegral(u))
          /\ totalUnclaimedRewards' + 0 = UnclaimedNow
          /\ UNCHANGED <<nextFullBurnId, fullBurnHistory>>
        BY <1>c, <1>a DEF CheckpointRewards, burnVars
    <2>2. perUserShare'[u] + 0 = ShareUpTo(u, CreditedIntegral(u))
        <3>1. perUserShare'[u] = ShareUpTo(u, CreditedIntegral(u))
            BY <1>c, <1>a DEF CheckpointRewards
        <3>2. perUserShare'[u] \in Nat  BY DEF TypeOK, LMTypeOK
        <3>. QED  BY <3>1, <3>2
    <2>3. /\ \A v \in Users : v # u => /\ perUserShare'[v] = perUserShare[v]
                                       /\ perUserStaked'[v] = perUserStaked[v]
                                       /\ positions'[v] = positions[v]
          /\ positions'[u].lastUpdatedFullBurnId = nextFullBurnId
          /\ Stale(u) => perUserStaked'[u] = 0
        BY <1>c, <1>a DEF CheckpointRewards
    <2>. QED  BY <2>1, <2>2, <2>3, CreditKeepsShares
<1>d. \A u \in Users :
          /\ PositionAfterCheckpoint(u).lastUpdatedFullBurnId = nextFullBurnId
          /\ Stale(u) => StakedAfterCheckpoint(u) = 0
    BY DEF PositionAfterCheckpoint, StakedAfterCheckpoint
<1>1. CASE MiningStep
    <2>1. UNCHANGED <<positions, nextFullBurnId, fullBurnHistory>>
        BY <1>1 DEF MiningStep, recoveryVars, burnVars
    <2>2. CASE Tick
        BY <2>1, <2>2, NoAccrual DEF Tick, stakeVars, integralVars, rewardVars
    <2>3. CASE ~Tick
        <3>1. /\ totalStakedIntegral' = IntegralNow /\ totalUnclaimedRewards' = UnclaimedNow
              /\ UNCHANGED <<perUserStakedIntegral, perUserShare, perUserStaked>>
            BY <1>1, <2>3
            DEF MiningStep, GlobalCheckpoint, StopMining, StartMining, AdvanceIntegral, stakeVars
        <3>. QED  BY <1>b, <2>1, <3>1, AccrualKeepsShares
    <2>. QED  BY <2>2, <2>3
<1>2. ASSUME NEW u \in Users, RecoveryUserCheckpoint(u)
      PROVE  SharesCounted'
    BY <1>2, <1>c, <1>d DEF RecoveryUserCheckpoint
<1>3. ASSUME NEW u \in Users, RecoveryClaimRewards(u)
      PROVE  SharesCounted'
    <2>. DEFINE paid == ShareUpTo(u, CreditedIntegral(u))
    <2>1. paid \in Nat
        <3>1. /\ LMTypeOK /\ CreditedIntegral(u) \in Nat
              /\ CreditedIntegral(u) >= perUserStakedIntegral[u]
            BY <1>3, CreditedTypes DEF RecoveryInv, TypeOK, RecoveryClaimRewards, CreditUpTo
        <3>. QED  BY <3>1, AccountingTypes
    <2>. HIDE DEF paid
    <2>2. /\ AdvanceIntegral /\ CreditUpTo(u, CreditedIntegral(u))
          /\ totalUnclaimedRewards' = UnclaimedNow - paid
          /\ perUserShare' = [perUserShare EXCEPT ![u] = 0]
          /\ perUserStaked' = [perUserStaked EXCEPT ![u] = StakedAfterCheckpoint(u)]
          /\ positions' = [positions EXCEPT ![u] = PositionAfterCheckpoint(u)]
          /\ UNCHANGED <<nextFullBurnId, fullBurnHistory>>
        BY <1>3 DEF RecoveryClaimRewards, PayRewards, burnVars, paid
    <2>3. /\ totalUnclaimedRewards' + paid = UnclaimedNow
          /\ perUserShare'[u] + paid = paid
        BY <1>a, <2>1, <2>2
    <2>4. perUserShare'[u] + paid = ShareUpTo(u, CreditedIntegral(u))  BY <2>3 DEF paid
    <2>5. /\ \A v \in Users : v # u => /\ perUserShare'[v] = perUserShare[v]
                                       /\ perUserStaked'[v] = perUserStaked[v]
                                       /\ positions'[v] = positions[v]
          /\ positions'[u].lastUpdatedFullBurnId = nextFullBurnId
          /\ Stale(u) => perUserStaked'[u] = 0
        BY <1>a, <1>d, <2>2
    <2>. QED  BY <2>1, <2>2, <2>3, <2>4, <2>5, CreditKeepsShares
<1>4. ASSUME NEW u \in Users, NEW b \in Users, NEW amount \in GydAmounts,
             DepositFor(u, b, amount), CheckpointsBeforeDeposit
      PROVE  SharesCounted'
    <2>. DEFINE s == StakedAfterCheckpoint(b) + AmountToAdjusted(amount)
                p == [PositionAfterCheckpoint(b)
                        EXCEPT !.adjustedAmount = @ + AmountToAdjusted(amount)]
    <2>1. /\ CheckpointRewards(b) /\ UNCHANGED burnVars
          /\ positions' = [positions EXCEPT ![b] = p]
          /\ perUserStaked' = [perUserStaked EXCEPT ![b] = s]
        BY <1>4 DEF DepositFor
    <2>2. p.lastUpdatedFullBurnId = nextFullBurnId  BY DEF PositionAfterCheckpoint
    <2>3. Stale(b) => s = 0
        <3>. HIDE DEF s, p
        <3>1. Current(b)'
            BY <1>a, <2>1, <2>2 DEF Current, burnVars
        <3>2. perUserStaked'[b] = s  BY <1>a, <2>1
        <3>. QED  BY <1>4, <3>1, <3>2 DEF CheckpointsBeforeDeposit
    <2>. HIDE DEF s, p
    <2>. QED  BY <2>1, <2>2, <2>3, <1>c
<1>5. ASSUME NEW u \in Users, NEW amount \in GydAmounts, Donate(u, amount)
      PROVE  SharesCounted'
    BY <1>5, NoAccrual DEF Donate, lmVars, stakeVars, integralVars, rewardVars, burnVars
<1>6. ASSUME NEW u \in Users, NEW a \in Nat, InitiateWithdrawalAdjusted(u, a)
      PROVE  SharesCounted'
    <2>. DEFINE s == StakedAfterCheckpoint(u) - a
    <2>1. /\ CheckpointRewards(u) /\ UNCHANGED burnVars
          /\ positions' = [positions EXCEPT ![u] = PositionAfterCheckpoint(u)]
          /\ perUserStaked' = [perUserStaked EXCEPT ![u] = s]
        BY <1>6 DEF InitiateWithdrawalAdjusted
    <2>2. Stale(u) => s = 0  BY <1>6, <1>d DEF InitiateWithdrawalAdjusted
    <2>. HIDE DEF s
    <2>. QED  BY <1>d, <2>1, <2>2, <1>c
<1>7. ASSUME NEW id \in DOMAIN pendingWithdrawals, WithdrawBurned(id) \/ WithdrawPaid(id)
      PROVE  SharesCounted'
    <2>1. /\ UNCHANGED lmVars /\ UNCHANGED <<nextFullBurnId, fullBurnHistory>>
          /\ \A u \in Users :
                positions'[u].lastUpdatedFullBurnId = positions[u].lastUpdatedFullBurnId
        BY <1>7, <1>a DEF WithdrawBurned, WithdrawPaid, Position, burnVars
    <2>. QED  BY <2>1, NoAccrual DEF lmVars, stakeVars, integralVars, rewardVars
<1>8. ASSUME NEW duration \in WaitDurations, SetWithdrawalWaitDuration(duration)
      PROVE  SharesCounted'
    BY <1>8, NoAccrual
    DEF SetWithdrawalWaitDuration, lmVars, stakeVars, integralVars, rewardVars, burnVars
<1>9. ASSUME NEW value \in ReserveValues, CheckAndRun(value)
      PROVE  SharesCounted'
    <2>. DEFINE amount == gydSupply - TargetGYDSupply(value)
    <2>1. ExecuteBurn(amount)  BY <1>9 DEF CheckAndRun
    <2>. HIDE DEF amount
    <2>2. /\ totalStakedIntegral' = IntegralNow /\ totalUnclaimedRewards' = UnclaimedNow
          /\ UNCHANGED <<perUserStakedIntegral, perUserShare, perUserStaked, positions>>
        BY <2>1 DEF ExecuteBurn, AdvanceIntegral
    <2>3. \A u \in Users : SettledIntegral(u)' = CreditedIntegral(u)
        <3>1. CASE FullBurn
            <4>1. /\ nextFullBurnId' = nextFullBurnId + 1
                  /\ fullBurnHistory'[nextFullBurnId] = IntegralNow
                  /\ \A id \in 1..(nextFullBurnId - 1) : fullBurnHistory'[id] = fullBurnHistory[id]
                BY <1>a, <3>1 DEF FullBurn, HistoryWithBurn
            <4>. SUFFICES ASSUME NEW u \in Users
                          PROVE  SettledIntegral(u)' = CreditedIntegral(u)
                OBVIOUS
            <4>2. /\ positions[u].lastUpdatedFullBurnId \in Nat
                  /\ positions[u].lastUpdatedFullBurnId <= nextFullBurnId
                BY <1>a DEF Position, RecoveryInv, IntegralsOrdered
            <4>3. CASE Stale(u)
                <5>1. /\ positions[u].lastUpdatedFullBurnId \in 1..(nextFullBurnId - 1)
                      /\ Stale(u)'
                    BY <1>a, <2>2, <4>1, <4>2, <4>3 DEF Stale
                <5>. QED
                    BY <2>2, <4>1, <4>3, <5>1 DEF SettledIntegral, CreditedIntegral
            <4>4. CASE Current(u)
                <5>1. Stale(u)' /\ ~Stale(u)
                    BY <1>a, <2>2, <4>1, <4>2, <4>4 DEF Stale, Current
                <5>. QED
                    BY <2>2, <4>1, <4>4, <5>1 DEF SettledIntegral, CreditedIntegral, Current
            <4>5. CASE ~Stale(u) /\ ~Current(u)
                <5>1. ~Stale(u)'
                    BY <1>a, <2>2, <4>1, <4>2, <4>5 DEF Stale, Current
                <5>. QED  BY <2>2, <4>5, <5>1 DEF SettledIntegral, CreditedIntegral
            <4>. QED  BY <4>3, <4>4, <4>5
        <3>2. CASE PartialBurn(amount) \/ RefusedBurn(amount)
            BY <1>b, <2>2, <3>2 DEF PartialBurn, RefusedBurn, burnVars
        <3>. QED  BY <2>1, <3>1, <3>2 DEF ExecuteBurn
    <2>. QED  BY <2>2, <2>3, AccrualKeepsShares
<1>10. CASE UNCHANGED vars
    BY <1>10, NoAccrual
    DEF vars, lmVars, stakeVars, integralVars, rewardVars, recoveryVars, burnVars
<1>11. ASSUME NEW u \in Users, UserStep(u), CheckpointsBeforeDeposit
       PROVE  SharesCounted'
    <2>1. BalanceAdjustedOf(u) \in Nat  BY <1>a DEF BalanceAdjustedOf
    <2>2. \A amount \in GydAmounts : amount \in Nat /\ AmountToAdjusted(amount) \in Nat
        <3>1. adjustmentFactor \in Nat /\ adjustmentFactor > 0
            BY ONEAssumption DEF RecoveryInv, TypeOK, BurnTypeOK
        <3>2. \A amount \in GydAmounts : amount \in Nat  OBVIOUS
        <3>. QED  BY <3>1, <3>2, DivDownNat DEF AmountToAdjusted
    <2>. QED
        BY <1>2, <1>3, <1>4, <1>5, <1>6, <1>11, <2>1, <2>2 DEF UserStep, InitiateWithdrawal
<1>. QED  BY <1>1, <1>7, <1>8, <1>9, <1>10, <1>11 DEF Next

\* At the start nobody is owed anything.
LEMMA SharesInit ==
    ASSUME Init
    PROVE  SharesCounted
<1>1. \A u \in Users : OwedSettled[u] = 0
    <2>. SUFFICES ASSUME NEW u \in Users PROVE OwedSettled[u] = 0  OBVIOUS
    <2>1. perUserShare[u] = 0 /\ perUserStaked[u] = 0 /\ perUserStakedIntegral[u] = 0
        BY DEF Init, LMInit
    <2>2. SettledIntegral(u) = 0  BY DEF Init, LMInit, SettledIntegral, Stale
    <2>3. 0 * ONE + 0 * (0 - 0) = 0  BY ONEAssumption
    <2>. QED  BY <2>1, <2>2, <2>3 DEF OwedSettled
<1>2. Total(OwedSettled, Users) = 0  BY <1>1, TotalOfNothing
<1>3. totalUnclaimedRewards = 0  BY DEF Init, LMInit
<1>. QED  BY <1>2, <1>3, ONEAssumption DEF SharesCounted

-----------------------------------------------------------------------------
(* The sums of the properties                                              *)

\* The sums that the properties write with MapThenSumSet are the totals above.
LEMMA SumOfStakes ==
    ASSUME TypeOK
    PROVE  MapThenSumSet(BalanceAdjustedOf, Users) = Total(LiveStakes, Users)
<1>. DEFINE Q(sum) == sum = [s \in SUBSET Users |->
                IF s = {} THEN 0
                ELSE BalanceAdjustedOf(CHOOSE x \in s : TRUE) + sum[s \ {CHOOSE x \in s : TRUE}]]
<1>1. MapThenSumSet(BalanceAdjustedOf, Users) = (CHOOSE sum : Q(sum))[Users]
    BY DEF MapThenSumSet, MapThenFoldSet
<1>2. \A sum : Q(sum) <=> SumTable(LiveStakes, Users, sum)
    BY DEF SumTable, SumStep, First, LiveStakes
<1>3. IsFiniteSet(Users) /\ \A x \in Users : LiveStakes[x] \in Nat
    BY LiveTypes
<1>. HIDE DEF Q
<1>4. SumTable(LiveStakes, Users, CHOOSE sum : Q(sum))
    <2>1. PICK sum : SumTable(LiveStakes, Users, sum)  BY <1>3, SumTableExists
    <2>2. Q(sum)  BY <1>2, <2>1
    <2>. QED  BY <1>2, <2>2
<1>5. (CHOOSE sum : Q(sum))[Users] = Total(LiveStakes, Users)
    BY <1>3, <1>4, TotalOfTable
<1>. QED  BY <1>1, <1>5

LEMMA SumOfPositions ==
    ASSUME TypeOK
    PROVE  MapThenSumSet(TotalBalanceAdjustedOf, Users) = Total(LivePositions, Users)
<1>. DEFINE Q(sum) == sum = [s \in SUBSET Users |->
                IF s = {} THEN 0
                ELSE TotalBalanceAdjustedOf(CHOOSE x \in s : TRUE) + sum[s \ {CHOOSE x \in s : TRUE}]]
<1>1. MapThenSumSet(TotalBalanceAdjustedOf, Users) = (CHOOSE sum : Q(sum))[Users]
    BY DEF MapThenSumSet, MapThenFoldSet
<1>2. \A sum : Q(sum) <=> SumTable(LivePositions, Users, sum)
    BY DEF SumTable, SumStep, First, LivePositions
<1>3. IsFiniteSet(Users) /\ \A x \in Users : LivePositions[x] \in Nat
    BY LiveTypes
<1>. HIDE DEF Q
<1>4. SumTable(LivePositions, Users, CHOOSE sum : Q(sum))
    <2>1. PICK sum : SumTable(LivePositions, Users, sum)  BY <1>3, SumTableExists
    <2>2. Q(sum)  BY <1>2, <2>1
    <2>. QED  BY <1>2, <2>2
<1>5. (CHOOSE sum : Q(sum))[Users] = Total(LivePositions, Users)
    BY <1>3, <1>4, TotalOfTable
<1>. QED  BY <1>1, <1>5

LEMMA SumOfPending ==
    ASSUME TypeOK, NEW u \in Users
    PROVE  PendingAdjustedOf(u) = Total(PendingAmounts, LiveIds(u))
<1>. DEFINE Q(sum) == sum = [s \in SUBSET LiveIds(u) |->
                IF s = {} THEN 0
                ELSE pendingWithdrawals[CHOOSE x \in s : TRUE].adjustedAmount + sum[s \ {CHOOSE x \in s : TRUE}]]
<1>1. PendingAdjustedOf(u) = (CHOOSE sum : Q(sum))[LiveIds(u)]
    BY DEF PendingAdjustedOf, MapThenSumSet, MapThenFoldSet, LiveIds
<1>2. \A sum : Q(sum) <=> SumTable(PendingAmounts, LiveIds(u), sum)
    BY DEF SumTable, SumStep, First, PendingAmounts, LiveIds, PendingWithdrawalIds
<1>3. IsFiniteSet(LiveIds(u)) /\ \A x \in LiveIds(u) : PendingAmounts[x] \in Nat
    BY LiveTypes
<1>. HIDE DEF Q
<1>4. SumTable(PendingAmounts, LiveIds(u), CHOOSE sum : Q(sum))
    <2>1. PICK sum : SumTable(PendingAmounts, LiveIds(u), sum)  BY <1>3, SumTableExists
    <2>2. Q(sum)  BY <1>2, <2>1
    <2>. QED  BY <1>2, <2>2
<1>5. (CHOOSE sum : Q(sum))[LiveIds(u)] = Total(PendingAmounts, LiveIds(u))
    BY <1>3, <1>4, TotalOfTable
<1>. QED  BY <1>1, <1>5

Claimables == [u \in Users |-> RecoveryClaimableNow(u)]

\* What a user can claim is what the user is owed, rounded down.
LEMMA ClaimableAtMostOwed ==
    ASSUME RecoveryInv, NEW u \in Users
    PROVE  Claimables[u] \in Nat /\ Claimables[u] * ONE <= OwedNow[u]
<1>. DEFINE share == perUserShare[u]
            p == perUserStaked[u] * (CreditedIntegral(u) - perUserStakedIntegral[u])
            m == p \div ONE
<1>1. share \in Nat /\ p \in Nat  BY OwedTypes, ProductNat
<1>2. Claimables[u] = share + m
    BY DEF Claimables, RecoveryClaimableNow, ShareUpTo, MulDown
<1>3. OwedNow[u] = share * ONE + p  BY DEF OwedNow
<1>. HIDE DEF share, p
<1>4. m \in Nat /\ m * ONE <= p  BY <1>1, ONEAssumption, Quotient
<1>. HIDE DEF m
<1>5. (share + m) * ONE = share * ONE + m * ONE  BY <1>1, <1>4, ONEAssumption
<1>6. share * ONE \in Nat /\ m * ONE \in Nat  BY <1>1, <1>4, ONEAssumption, ProductNat
<1>. QED  BY <1>1, <1>2, <1>3, <1>4, <1>5, <1>6

LEMMA SumOfClaims ==
    ASSUME RecoveryInv
    PROVE  MapThenSumSet(RecoveryClaimableNow, Users) = Total(Claimables, Users)
<1>. DEFINE Q(sum) == sum = [s \in SUBSET Users |->
                IF s = {} THEN 0
                ELSE RecoveryClaimableNow(CHOOSE x \in s : TRUE) + sum[s \ {CHOOSE x \in s : TRUE}]]
<1>1. MapThenSumSet(RecoveryClaimableNow, Users) = (CHOOSE sum : Q(sum))[Users]
    BY DEF MapThenSumSet, MapThenFoldSet
<1>2. \A sum : Q(sum) <=> SumTable(Claimables, Users, sum)
    BY DEF SumTable, SumStep, First, Claimables
<1>3. IsFiniteSet(Users) /\ \A x \in Users : Claimables[x] \in Nat
    BY LiveTypes, ClaimableAtMostOwed DEF RecoveryInv
<1>. HIDE DEF Q
<1>4. SumTable(Claimables, Users, CHOOSE sum : Q(sum))
    <2>1. PICK sum : SumTable(Claimables, Users, sum)  BY <1>3, SumTableExists
    <2>2. Q(sum)  BY <1>2, <2>1
    <2>. QED  BY <1>2, <2>2
<1>5. (CHOOSE sum : Q(sum))[Users] = Total(Claimables, Users)
    BY <1>3, <1>4, TotalOfTable
<1>. QED  BY <1>1, <1>5

-----------------------------------------------------------------------------
(* The theorems                                                            *)

LEMMA RecoveryInvariance == Spec => []RecoveryInv
<1>1. Init => RecoveryInv  BY RecoveryInit
<1>2. RecoveryInv /\ [Next]_vars => RecoveryInv'
    BY RecoveryTypeStep, OrderStep DEF RecoveryInv
<1>. QED  BY <1>1, <1>2, PTL DEF Spec

\* No sequence of deposits, withdrawals, burns and mining programs leaves a
\* variable of GydRecovery.sol outside its type: in particular the adjustment
\* factor stays positive, so amounts can always be converted, and never exceeds one.
THEOREM TypeCorrect == Spec => []TypeOK
<1>1. RecoveryInv => TypeOK  BY DEF RecoveryInv
<1>. QED  BY <1>1, RecoveryInvariance, PTL

\* The subtraction of integrals in userCheckpoint never reverts, for up to date and
\* for stale users, so no user is locked out of depositing or withdrawing.
THEOREM CheckpointAlwaysPossible == Spec => []CheckpointNeverReverts
<1>1. RecoveryInv => CheckpointNeverReverts
    <2>. SUFFICES ASSUME RecoveryInv, NEW u \in Users
                  PROVE  perUserStakedIntegral[u] <= CreditedIntegral(u)
        BY DEF CheckpointNeverReverts
    <2>1. LMTypeOK  BY DEF RecoveryInv, TypeOK
    <2>2. /\ totalStakedIntegral \in Nat /\ IntegralNow \in Nat
          /\ totalStakedIntegral <= IntegralNow /\ perUserStakedIntegral[u] \in Nat
        BY <2>1, AccountingTypes DEF LMTypeOK
    <2>. QED  BY <2>2 DEF RecoveryInv, IntegralsOrdered, CreditedIntegral
<1>. QED  BY <1>1, RecoveryInvariance, PTL

LEMMA AccountsInvariance == Spec => [](RecoveryInv /\ AccountsInv)
<1>1. Init => RecoveryInv /\ AccountsInv  BY RecoveryInit, AccountsInit
<1>2. RecoveryInv /\ AccountsInv /\ [Next]_vars => (RecoveryInv /\ AccountsInv)'
    BY RecoveryTypeStep, OrderStep, AccountsStep DEF RecoveryInv
<1>. QED  BY <1>1, <1>2, PTL DEF Spec

\* Whatever is deposited, burned and withdrawn, and however each step rounds, the GYD
\* in the pool covers the claims on it: the last provider to withdraw is paid.
THEOREM AlwaysSolvent == Spec => []Solvent
<1>1. RecoveryInv /\ AccountsInv => Solvent
    <2>. SUFFICES ASSUME RecoveryInv, AccountsInv PROVE Solvent  OBVIOUS
    <2>. DEFINE t == Total(LivePositions, Users)
                p == t * adjustmentFactor
    <2>1. t \in Nat /\ adjustmentFactor \in Nat /\ underlying \in Nat
        BY LiveTypes, ONEAssumption DEF RecoveryInv, TypeOK, GydTypeOK, BurnTypeOK
    <2>2. MapThenSumSet(TotalBalanceAdjustedOf, Users) = t
        BY SumOfPositions DEF RecoveryInv
    <2>3. p <= underlying * ONE  BY DEF AccountsInv, ClaimsCovered
    <2>. HIDE DEF t
    <2>4. p \in Nat  BY <2>1, ProductNat
    <2>5. MulDown(t, adjustmentFactor) = p \div ONE  BY DEF MulDown
    <2>. HIDE DEF p
    <2>6. p \div ONE <= underlying
        BY <2>1, <2>3, <2>4, ONEAssumption, QuotientAtMost
    <2>. QED  BY <2>2, <2>5, <2>6 DEF Solvent
<1>. QED  BY <1>1, AccountsInvariance, PTL

\* totalStaked, by which rewards are shared out, is the sum of the stakes that count,
\* although a full burn resets it without visiting the users whose stakes it voids.
THEOREM LiveStakesAlwaysAddUp == Spec => []LiveStakesAddUp
<1>1. RecoveryInv /\ AccountsInv => LiveStakesAddUp
    BY SumOfStakes DEF RecoveryInv, AccountsInv, StakesCounted, LiveStakesAddUp
<1>. QED  BY <1>1, AccountsInvariance, PTL

\* A position is what its owner stakes and what is marked for withdrawal, so that
\* executing a withdrawal never takes more than the position holds.
THEOREM PositionsAlwaysAddUp == Spec => []PositionsAddUp
<1>1. RecoveryInv /\ AccountsInv => PositionsAddUp
    <2>. SUFFICES ASSUME RecoveryInv, AccountsInv, NEW u \in Users
                  PROVE  TotalBalanceAdjustedOf(u) = BalanceAdjustedOf(u) + PendingAdjustedOf(u)
        BY DEF PositionsAddUp
    <2>1. PendingAdjustedOf(u) = Total(PendingAmounts, LiveIds(u))
        BY SumOfPending DEF RecoveryInv
    <2>2. LivePositions[u] = TotalBalanceAdjustedOf(u) /\ LiveStakes[u] = BalanceAdjustedOf(u)
        BY DEF LivePositions, LiveStakes
    <2>. QED  BY <2>1, <2>2 DEF AccountsInv, PendingCounted
<1>. QED  BY <1>1, AccountsInvariance, PTL

LEMMA SharesInvariance == CarefulSpec => [](RecoveryInv /\ AccountsInv /\ SharesCounted)
<1>1. Init => RecoveryInv /\ AccountsInv /\ SharesCounted
    BY RecoveryInit, AccountsInit, SharesInit
<1>2. ASSUME RecoveryInv /\ AccountsInv /\ SharesCounted,
             [Next /\ StartsCleanly /\ CheckpointsBeforeDeposit]_vars
      PROVE  (RecoveryInv /\ AccountsInv /\ SharesCounted)'
    <2>1. [Next]_vars /\ [Next /\ CheckpointsBeforeDeposit]_vars  BY <1>2
    <2>2. RecoveryInv' /\ AccountsInv'
        BY <1>2, <2>1, RecoveryTypeStep, OrderStep, AccountsStep DEF RecoveryInv
    <2>3. SharesCounted'  BY <1>2, <2>1, <2>2, SharesStep DEF RecoveryInv
    <2>. QED  BY <2>2, <2>3
<1>. QED  BY <1>1, <1>2, PTL DEF CarefulSpec

\* If nobody stakes on a position that a full burn made stale, all users together can
\* claim no more than is counted as unclaimed: no claim underflows the counter.
THEOREM SharesAlwaysCovered == CarefulSpec => []RecoverySharesCovered
<1>1. RecoveryInv /\ AccountsInv /\ SharesCounted => RecoverySharesCovered
    <2>. SUFFICES ASSUME RecoveryInv, AccountsInv, SharesCounted PROVE RecoverySharesCovered
        OBVIOUS
    <2>. DEFINE exact == [u \in Users |-> ONE * Claimables[u]]
                t == Total(Claimables, Users)
    <2>1. IsFiniteSet(Users) /\ ONE \in Nat /\ ONE > 0 /\ UnclaimedNow \in Nat
        BY LiveTypes, OwedTypes, ONEAssumption DEF RecoveryInv
    <2>2. \A u \in Users : Claimables[u] \in Nat /\ exact[u] = ONE * Claimables[u]
        BY ClaimableAtMostOwed
    <2>3. \A u \in Users : exact[u] \in Nat /\ OwedNow[u] \in Nat /\ exact[u] <= OwedNow[u]
        <3>. SUFFICES ASSUME NEW u \in Users
                      PROVE  exact[u] \in Nat /\ OwedNow[u] \in Nat /\ exact[u] <= OwedNow[u]
            OBVIOUS
        <3>1. Claimables[u] \in Nat /\ Claimables[u] * ONE <= OwedNow[u] /\ OwedNow[u] \in Nat
            BY OwedTypes, ClaimableAtMostOwed
        <3>2. exact[u] = ONE * Claimables[u]  OBVIOUS
        <3>3. ONE * Claimables[u] = Claimables[u] * ONE /\ ONE * Claimables[u] \in Nat
            BY <2>1, <3>1, ProductNat
        <3>. HIDE DEF exact
        <3>. QED  BY <3>1, <3>2, <3>3
    <2>. HIDE DEF exact
    <2>4. Total(exact, Users) = ONE * t
        BY <2>1, <2>2, TotalScaled
    <2>5. Total(exact, Users) <= Total(OwedNow, Users)  BY <2>1, <2>3, TotalMono
    <2>6. Total(OwedNow, Users) <= UnclaimedNow * ONE  BY AccrualCounted
    <2>7. t \in Nat /\ Total(OwedNow, Users) \in Nat  BY <2>1, <2>2, <2>3, TotalStep
    <2>. HIDE DEF t
    <2>8. t * ONE <= UnclaimedNow * ONE
        <3>1. ONE * t = t * ONE /\ ONE * t \in Nat /\ UnclaimedNow * ONE \in Nat
            BY <2>1, <2>7, ProductNat
        <3>. QED  BY <2>4, <2>5, <2>6, <2>7, <3>1
    <2>9. t <= UnclaimedNow  BY <2>1, <2>7, <2>8, CancelFactor
    <2>. QED  BY <2>9, SumOfClaims DEF t, RecoverySharesCovered
<1>. QED  BY <1>1, SharesInvariance, PTL

\* With the user checkpoint of this contract, too, no step leaves the rewards unfunded.
LEMMA RecoveryBackedStep ==
    ASSUME RecoveryInv, BackedInv, TypeOK', [Next /\ StartsCleanly]_vars
    PROVE  BackedInv'
<1>1. LMTypeOK'  BY DEF TypeOK
<1>2. UnclaimedNow \in Nat /\ rewardBalance \in Nat
    BY AccountingTypes DEF BackedInv, LMTypeOK
<1>3. ASSUME AdvanceIntegral, totalUnclaimedRewards' = UnclaimedNow,
             UNCHANGED <<now, rewardBalance, emissionVars>>
      PROVE  BackedInv'
    <2>1. 0 \in Nat /\ 0 <= UnclaimedNow /\ 0 <= rewardBalance
          /\ totalUnclaimedRewards' = UnclaimedNow - 0 /\ rewardBalance' = rewardBalance - 0
        BY <1>2, <1>3
    <2>. QED  BY <1>1, <1>3, <2>1, CheckpointStaysFunded DEF BackedInv
<1>4. ASSUME UNCHANGED lmVars
      PROVE  BackedInv'
    BY <1>4, BackedStep
<1>5. CASE MiningStep /\ StartsCleanly
    <2>1. LMNext  BY <1>5 DEF MiningStep, LMNext
    <2>. QED  BY <1>5, <2>1, BackedStep
<1>6. ASSUME NEW u \in Users, CheckpointRewards(u), UNCHANGED <<now, rewardBalance, emissionVars>>
      PROVE  BackedInv'
    BY <1>3, <1>6 DEF CheckpointRewards
<1>7. ASSUME NEW u \in Users, RecoveryClaimRewards(u)
      PROVE  BackedInv'
    <2>. DEFINE paid == ShareUpTo(u, CreditedIntegral(u))
    <2>1. paid \in Nat
        <3>1. /\ LMTypeOK /\ CreditedIntegral(u) \in Nat
              /\ CreditedIntegral(u) >= perUserStakedIntegral[u]
            BY <1>7, CreditedTypes DEF RecoveryInv, TypeOK, RecoveryClaimRewards, CreditUpTo
        <3>. QED  BY <3>1, AccountingTypes
    <2>. HIDE DEF paid
    <2>2. /\ AdvanceIntegral /\ UNCHANGED <<now, emissionVars>>
          /\ paid <= UnclaimedNow /\ paid <= rewardBalance
          /\ totalUnclaimedRewards' = UnclaimedNow - paid
          /\ rewardBalance' = rewardBalance - paid
        BY <1>7 DEF RecoveryClaimRewards, PayRewards, paid
    <2>. QED  BY <1>1, <2>1, <2>2, CheckpointStaysFunded DEF BackedInv
<1>8. ASSUME NEW u \in Users, UserStep(u)
      PROVE  BackedInv'
    <2>1. CASE RecoveryUserCheckpoint(u)  BY <1>6, <2>1 DEF RecoveryUserCheckpoint
    <2>2. ASSUME NEW b \in Users, NEW amount, DepositFor(u, b, amount)
          PROVE  BackedInv'
        BY <1>6, <2>2 DEF DepositFor
    <2>3. ASSUME NEW amount, Donate(u, amount)
          PROVE  BackedInv'
        BY <1>4, <2>3 DEF Donate
    <2>4. ASSUME NEW amount, InitiateWithdrawalAdjusted(u, amount)
          PROVE  BackedInv'
        BY <1>6, <2>4 DEF InitiateWithdrawalAdjusted
    <2>. QED  BY <1>7, <1>8, <2>1, <2>2, <2>3, <2>4 DEF UserStep, InitiateWithdrawal
<1>9. ASSUME NEW id, WithdrawBurned(id) \/ WithdrawPaid(id)
      PROVE  BackedInv'
    BY <1>4, <1>9 DEF WithdrawBurned, WithdrawPaid
<1>10. ASSUME NEW duration, SetWithdrawalWaitDuration(duration)
       PROVE  BackedInv'
    BY <1>4, <1>10 DEF SetWithdrawalWaitDuration
<1>11. ASSUME NEW value, CheckAndRun(value)
       PROVE  BackedInv'
    BY <1>3, <1>11 DEF CheckAndRun, ExecuteBurn
<1>12. CASE UNCHANGED vars  BY <1>4, <1>12 DEF vars
<1>. QED  BY <1>5, <1>8, <1>9, <1>10, <1>11, <1>12 DEF Next

\* A full burn that voids stakes takes no reward from the contract: it holds what it
\* owes, as long as governance starts programs as in LMCarefulSpec.
THEOREM RecoveryRewardsAlwaysBacked == CleanStartSpec => []RewardsBacked
<1>1. Init => RecoveryInv /\ BackedInv
    <2>. SUFFICES ASSUME Init PROVE RecoveryInv /\ BackedInv  OBVIOUS
    <2>1. LMInit /\ RecoveryInv  BY RecoveryInit DEF Init
    <2>2. LMTypeOK  BY <2>1 DEF RecoveryInv, TypeOK
    <2>3. lastCheckpointTime <= now  BY <2>1, LMAssumption DEF LMInit
    <2>4. EmissionAfter(AccruesFrom) = 0
        BY <2>1, LMAssumption DEF LMInit, EmissionAfter, AccruesFrom
    <2>. QED  BY <2>1, <2>2, <2>3, <2>4 DEF LMInit, BackedInv, Funded
<1>2. RecoveryInv /\ BackedInv /\ [Next /\ StartsCleanly]_vars => (RecoveryInv /\ BackedInv)'
    BY RecoveryTypeStep, OrderStep, RecoveryBackedStep DEF RecoveryInv
<1>3. RecoveryInv /\ BackedInv => RewardsBacked
    <2>. SUFFICES ASSUME BackedInv PROVE RewardsBacked  OBVIOUS
    <2>1. rewardsEmissionRate * EmissionAfter(now) \in Nat /\ UnclaimedNow \in Nat
          /\ rewardBalance \in Nat
        BY EmissionAfterNat, AccountingTypes DEF BackedInv, LMTypeOK
    <2>. QED  BY <2>1, AccrualCovered DEF RewardsBacked
<1>. QED  BY <1>1, <1>2, <1>3, PTL DEF CleanStartSpec

-----------------------------------------------------------------------------
(* The contract implements the pool                                        *)

\* GYD moves between the users and the pool, and only burns lower the supply: no
\* payment exceeds what there was at the start.
GydCounted ==
    /\ underlying + Total(gydBalance, Users) = gydSupply
    /\ gydSupply <= InitialGyd * Cardinality(Users)

LEMMA TotalOfConstant ==
    ASSUME NEW S, IsFiniteSet(S), NEW k \in Nat, NEW f, \A x \in S : f[x] = k
    PROVE  Total(f, S) = k * Cardinality(S)
<1>. DEFINE Holds == {s \in SUBSET S : Total(f, s) = k * Cardinality(s)}
<1>1. {} \in Holds
    <2>1. Total(f, {}) = 0 /\ Cardinality({}) = 0  BY FS_EmptySet, TotalOfNothing
    <2>2. k * 0 = 0  OBVIOUS
    <2>. QED  BY <2>1, <2>2
<1>2. ASSUME NEW s \in SUBSET S, NEW x \in S, x \notin s, s \in Holds
      PROVE  s \cup {x} \in Holds
    <2>1. \A y \in S : f[y] \in Nat  OBVIOUS
    <2>2. Total(f, s \cup {x}) = f[x] + Total(f, s)  BY <1>2, <2>1, TotalAdd
    <2>3. /\ Cardinality(s \cup {x}) = Cardinality(s) + 1
          /\ Cardinality(s) \in Nat
        <3>1. IsFiniteSet(s)  BY FS_Subset
        <3>. QED  BY <1>2, <3>1, FS_AddElement, FS_CardinalityType
    <2>4. Total(f, s) = k * Cardinality(s)  BY <1>2
    <2>5. k + k * Cardinality(s) = k * (Cardinality(s) + 1)  BY <2>3
    <2>. QED  BY <2>2, <2>3, <2>4, <2>5
<1>3. S \in Holds
    <2>. HIDE DEF Holds
    <2>. QED  BY <1>1, <1>2, SetsBySize
<1>. QED  BY <1>3

LEMMA GydInit ==
    ASSUME Init
    PROVE  GydCounted
<1>1. Cardinality(Users) \in Nat  BY FS_CardinalityType
<1>2. \A u \in Users : gydBalance[u] = InitialGyd  BY DEF Init
<1>3. Total(gydBalance, Users) = InitialGyd * Cardinality(Users)
    BY <1>2, TotalOfConstant
<1>4. InitialGyd * Cardinality(Users) \in Nat  BY <1>1, ProductNat
<1>. QED  BY <1>3, <1>4 DEF Init, GydCounted

\* What GydCounted bounds: every balance and the pool are amounts that a call can move.
LEMMA GydBounds ==
    ASSUME TypeOK, GydCounted
    PROVE  /\ Total(gydBalance, Users) \in Nat /\ underlying \in Nat /\ gydSupply \in Nat
           /\ InitialGyd * Cardinality(Users) \in Nat
           /\ underlying <= InitialGyd * Cardinality(Users)
           /\ \A u \in Users : /\ gydBalance[u] \in Nat
                               /\ gydBalance[u] <= Total(gydBalance, Users)
                               /\ gydBalance[u] <= InitialGyd * Cardinality(Users)
<1>1. /\ underlying \in Nat /\ gydSupply \in Nat
      /\ \A u \in Users : gydBalance[u] \in Nat
    BY DEF TypeOK, GydTypeOK
<1>2. Total(gydBalance, Users) \in Nat  BY <1>1, TotalStep
<1>3. InitialGyd * Cardinality(Users) \in Nat  BY FS_CardinalityType, ProductNat
<1>4. ASSUME NEW u \in Users
      PROVE  gydBalance[u] <= Total(gydBalance, Users)
    <2>1. Total(gydBalance, Users) = gydBalance[u] + Total(gydBalance, Users \ {u})
        BY <1>1, TotalRemove
    <2>2. IsFiniteSet(Users \ {u})  BY FS_RemoveElement
    <2>3. Total(gydBalance, Users \ {u}) \in Nat  BY <1>1, <2>2, TotalStep
    <2>. QED  BY <1>1, <2>1, <2>3
<1>. QED  BY <1>1, <1>2, <1>3, <1>4 DEF GydCounted

LEMMA GydStep ==
    ASSUME TypeOK, GydCounted, TypeOK', [Next]_vars
    PROVE  GydCounted'
<1>1. /\ underlying \in Nat /\ gydSupply \in Nat /\ underlying' \in Nat /\ gydSupply' \in Nat
      /\ gydBalance \in [Users -> Nat] /\ gydBalance' \in [Users -> Nat]
      /\ Total(gydBalance, Users) \in Nat /\ InitialGyd * Cardinality(Users) \in Nat
    BY GydBounds DEF TypeOK, GydTypeOK
<1>2. Total(gydBalance', Users) \in Nat  BY <1>1, TotalStep
\* A user pays into the pool or is paid out of it.
<1>3. ASSUME NEW u \in Users, NEW amount \in Nat,
             \/ /\ gydBalance' = [gydBalance EXCEPT ![u] = @ - amount]
                /\ underlying' = underlying + amount
             \/ /\ gydBalance' = [gydBalance EXCEPT ![u] = @ + amount]
                /\ underlying' = underlying - amount,
             gydSupply' = gydSupply
      PROVE  GydCounted'
    <2>1. Total(gydBalance', Users) + gydBalance[u] = Total(gydBalance, Users) + gydBalance'[u]
        <3>1. \A v \in Users : gydBalance[v] \in Nat /\ gydBalance'[v] \in Nat  BY <1>1
        <3>2. \A v \in Users : v # u => gydBalance'[v] = gydBalance[v]  BY <1>1, <1>3
        <3>. QED  BY <3>1, <3>2, TotalUpdate
    <2>2. gydBalance[u] \in Nat /\ gydBalance'[u] \in Nat  BY <1>1
    <2>3. gydBalance'[u] + underlying' = gydBalance[u] + underlying  BY <1>1, <1>3
    <2>. QED  BY <1>1, <1>2, <1>3, <2>1, <2>2, <2>3 DEF GydCounted
<1>4. ASSUME UNCHANGED gydBalance, NEW amount \in Nat, BurnGyd(amount)
      PROVE  GydCounted'
    <2>1. underlying' = underlying - amount /\ gydSupply' = gydSupply - amount
        BY <1>4 DEF BurnGyd
    <2>. QED  BY <1>1, <1>4, <2>1 DEF GydCounted
<1>5. ASSUME UNCHANGED gydVars
      PROVE  GydCounted'
    BY <1>5 DEF gydVars, GydCounted
<1>6. CASE MiningStep  BY <1>5, <1>6 DEF MiningStep, recoveryVars
<1>7. ASSUME NEW u \in Users, UserStep(u)
      PROVE  GydCounted'
    <2>1. CASE RecoveryUserCheckpoint(u)  BY <1>5, <2>1 DEF RecoveryUserCheckpoint
    <2>2. CASE RecoveryClaimRewards(u)  BY <1>5, <2>2 DEF RecoveryClaimRewards
    <2>3. ASSUME NEW a, InitiateWithdrawalAdjusted(u, a)
          PROVE  GydCounted'
        BY <1>5, <2>3 DEF InitiateWithdrawalAdjusted
    <2>4. ASSUME NEW amount \in GydAmounts, Donate(u, amount)
          PROVE  GydCounted'
        BY <1>3, <2>4 DEF Donate
    <2>5. ASSUME NEW amount \in GydAmounts, NEW b \in Users, DepositFor(u, b, amount)
          PROVE  GydCounted'
        BY <1>3, <2>5 DEF DepositFor
    <2>. QED  BY <1>7, <2>1, <2>2, <2>3, <2>4, <2>5 DEF UserStep, InitiateWithdrawal
<1>8. ASSUME NEW id \in DOMAIN pendingWithdrawals, WithdrawBurned(id) \/ WithdrawPaid(id)
      PROVE  GydCounted'
    <2>1. CASE WithdrawBurned(id)  BY <1>5, <2>1 DEF WithdrawBurned
    <2>2. CASE WithdrawPaid(id)
        <3>. DEFINE a == pendingWithdrawals[id].adjustedAmount
                    amount == MulDown(a, adjustmentFactor)
                    u == pendingWithdrawals[id].to
        <3>1. u \in Users /\ a \in Nat /\ adjustmentFactor \in Nat
            <4>1. pendingWithdrawals[id] \in PendingWithdrawal  BY DEF TypeOK, WithdrawalTypeOK
            <4>2. adjustmentFactor \in Nat  BY ONEAssumption DEF TypeOK, BurnTypeOK
            <4>. QED  BY <4>1, <4>2 DEF PendingWithdrawal
        <3>2. amount \in Nat  BY <3>1, MulDownNat
        <3>3. /\ gydBalance' = [gydBalance EXCEPT ![u] = @ + amount]
              /\ underlying' = underlying - amount /\ gydSupply' = gydSupply
            BY <2>2 DEF WithdrawPaid
        <3>. HIDE DEF a, amount, u
        <3>. QED  BY <1>3, <3>1, <3>2, <3>3
    <2>. QED  BY <1>8, <2>1, <2>2
<1>9. ASSUME NEW duration, SetWithdrawalWaitDuration(duration)
      PROVE  GydCounted'
    BY <1>5, <1>9 DEF SetWithdrawalWaitDuration
<1>10. ASSUME NEW value \in ReserveValues, CheckAndRun(value)
       PROVE  GydCounted'
    <2>. DEFINE amount == gydSupply - TargetGYDSupply(value)
    <2>1. ExecuteBurn(amount) /\ amount \in Nat
        <3>1. TargetGYDSupply(value) \in Nat  BY DivDownNat DEF TargetGYDSupply
        <3>. QED  BY <1>1, <1>10, <3>1 DEF CheckAndRun
    <2>. HIDE DEF amount
    <2>2. UNCHANGED gydBalance  BY <2>1 DEF ExecuteBurn
    <2>3. CASE FullBurn  BY <1>1, <1>4, <2>2, <2>3 DEF FullBurn
    <2>4. CASE PartialBurn(amount)  BY <1>4, <2>1, <2>2, <2>4 DEF PartialBurn
    <2>5. CASE RefusedBurn(amount)  BY <1>5, <2>5 DEF RefusedBurn
    <2>. QED  BY <2>1, <2>3, <2>4, <2>5 DEF ExecuteBurn
<1>11. CASE UNCHANGED vars  BY <1>5, <1>11 DEF vars, recoveryVars
<1>. QED  BY <1>6, <1>7, <1>8, <1>9, <1>10, <1>11 DEF Next

\* The claims of RecoveryPool.
Claims == [u \in Users |-> TotalBalanceOf(u)]

LEMMA ClaimTypes ==
    ASSUME RecoveryInv
    PROVE  /\ adjustmentFactor \in Nat /\ adjustmentFactor > 0 /\ adjustmentFactor <= ONE
           /\ underlying \in Nat
           /\ LivePositions \in [Users -> Nat]
           /\ \A u \in Users : /\ LivePositions[u] \in Nat /\ Claims[u] \in Nat
                               /\ Claims[u] = MulDown(LivePositions[u], adjustmentFactor)
<1>1. adjustmentFactor \in 1..ONE /\ underlying \in Nat
    BY DEF RecoveryInv, TypeOK, BurnTypeOK, GydTypeOK
<1>2. LivePositions \in [Users -> Nat]  BY LiveTypes DEF RecoveryInv
<1>3. \A u \in Users : Claims[u] = MulDown(LivePositions[u], adjustmentFactor)
    BY DEF Claims, LivePositions, TotalBalanceOf
<1>4. \A u \in Users : LivePositions[u] \in Nat  BY <1>2
<1>5. \A u \in Users : Claims[u] \in Nat
    <2>. DEFINE f == adjustmentFactor
    <2>1. f \in Nat  BY <1>1, ONEAssumption
    <2>. HIDE DEF f
    <2>2. \A u \in Users : MulDown(LivePositions[u], f) \in Nat  BY <1>4, <2>1, MulDownNat
    <2>. QED  BY <1>3, <2>2 DEF f
<1>. QED  BY <1>1, <1>2, <1>3, <1>4, <1>5, ONEAssumption

LEMMA SumOfPoolClaims ==
    ASSUME RecoveryInv
    PROVE  Pool!SumFunction(Claims) = Total(Claims, Users)
<1>. DEFINE Q(sum) == sum = [s \in SUBSET Users |->
                IF s = {} THEN 0
                ELSE Claims[CHOOSE x \in s : TRUE] + sum[s \ {CHOOSE x \in s : TRUE}]]
<1>1. Pool!SumFunction(Claims) = (CHOOSE sum : Q(sum))[Users]
    <2>1. DOMAIN Claims = Users  BY DEF Claims
    <2>. QED
        BY <2>1 DEF Pool!SumFunction, Pool!SumFunctionOnSet, Pool!FoldFunctionOnSet,
                    Pool!MapThenFoldSet
<1>2. \A sum : Q(sum) <=> SumTable(Claims, Users, sum)
    BY DEF SumTable, SumStep, First
<1>3. IsFiniteSet(Users) /\ \A x \in Users : Claims[x] \in Nat
    BY ClaimTypes
<1>. HIDE DEF Q
<1>4. SumTable(Claims, Users, CHOOSE sum : Q(sum))
    <2>1. PICK sum : SumTable(Claims, Users, sum)  BY <1>3, SumTableExists
    <2>2. Q(sum)  BY <1>2, <2>1
    <2>. QED  BY <1>2, <2>2
<1>5. (CHOOSE sum : Q(sum))[Users] = Total(Claims, Users)
    BY <1>3, <1>4, TotalOfTable
<1>. QED  BY <1>1, <1>5

\* The claims, each rounded down, are covered if they are covered together.
LEMMA ClaimsWithinPool ==
    ASSUME RecoveryInv, AccountsInv
    PROVE  Total(Claims, Users) <= underlying
<1>. DEFINE f == adjustmentFactor
            t == Total(Claims, Users)
            l == Total(LivePositions, Users)
            whole == [u \in Users |-> ONE * Claims[u]]
            exact == [u \in Users |-> f * LivePositions[u]]
<1>1. ONE \in Nat /\ ONE > 0 /\ f \in Nat /\ underlying \in Nat
    BY ClaimTypes, ONEAssumption
<1>2. \A u \in Users : LivePositions[u] \in Nat /\ Claims[u] \in Nat  BY ClaimTypes
<1>3. \A u \in Users : whole[u] \in Nat /\ exact[u] \in Nat /\ whole[u] <= exact[u]
    <2>. SUFFICES ASSUME NEW u \in Users
                  PROVE  whole[u] \in Nat /\ exact[u] \in Nat /\ whole[u] <= exact[u]
        OBVIOUS
    <2>1. /\ Claims[u] * ONE \in Nat /\ LivePositions[u] * f \in Nat
          /\ Claims[u] * ONE <= LivePositions[u] * f
        BY <1>1, <1>2, ClaimTypes, MulDownFloor
    <2>2. ONE * Claims[u] = Claims[u] * ONE /\ f * LivePositions[u] = LivePositions[u] * f
        BY <1>1, <1>2
    <2>3. whole[u] = ONE * Claims[u] /\ exact[u] = f * LivePositions[u]  OBVIOUS
    <2>. QED  BY <2>1, <2>2, <2>3
<1>4. \A u \in Users : whole[u] = ONE * Claims[u] /\ exact[u] = f * LivePositions[u]
    OBVIOUS
<1>. HIDE DEF whole, exact
<1>5. Total(whole, Users) = ONE * t  BY <1>1, <1>2, <1>4, TotalScaled
<1>6. Total(exact, Users) = f * l  BY <1>1, <1>2, <1>4, TotalScaled
<1>7. Total(whole, Users) <= Total(exact, Users)  BY <1>3, TotalMono
<1>8. t \in Nat /\ l \in Nat  BY <1>2, TotalStep
<1>9. l * f <= underlying * ONE  BY DEF AccountsInv, ClaimsCovered
<1>. HIDE DEF t, l, f
<1>10. t * ONE <= underlying * ONE
    <2>1. /\ ONE * t = t * ONE /\ f * l = l * f
          /\ t * ONE \in Nat /\ l * f \in Nat /\ underlying * ONE \in Nat
        BY <1>1, <1>8, ProductNat
    <2>. QED  BY <1>5, <1>6, <1>7, <1>9, <2>1
<1>11. t <= underlying  BY <1>1, <1>8, <1>10, CancelFactor
<1>. QED  BY <1>11 DEF t

\* Bringing the position of u to the adjusted amount q.
LEMMA PositionMoved ==
    ASSUME RecoveryInv, AccountsInv, NEW u \in Users, NEW q \in Nat,
           NEW s \in Nat, perUserStaked' = [perUserStaked EXCEPT ![u] = s],
           positions' = [positions EXCEPT ![u] = [lastUpdatedFullBurnId |-> nextFullBurnId,
                                                  adjustedAmount |-> q]],
           UNCHANGED <<nextFullBurnId, adjustmentFactor>>
    PROVE  /\ Claims'[u] = MulDown(q, adjustmentFactor)
           /\ \A v \in Users \ {u} : Claims'[v] = Claims[v]
<1>1. LivePositions' = [LivePositions EXCEPT ![u] = q]
    BY UserUpdated DEF AccountsInv
<1>2. \A v \in Users : Claims'[v] = MulDown(LivePositions'[v], adjustmentFactor)
    BY DEF Claims, LivePositions, TotalBalanceOf, MulDown
<1>3. \A v \in Users : Claims[v] = MulDown(LivePositions[v], adjustmentFactor)
    BY ClaimTypes
<1>4. LivePositions'[u] = q /\ \A v \in Users \ {u} : LivePositions'[v] = LivePositions[v]
    BY <1>1, ClaimTypes
<1>. QED  BY <1>2, <1>3, <1>4

\* A checkpoint changes no claim.
LEMMA CheckpointKeepsClaims ==
    ASSUME RecoveryInv, AccountsInv, NEW u \in Users,
           NEW s \in Nat, perUserStaked' = [perUserStaked EXCEPT ![u] = s],
           positions' = [positions EXCEPT ![u] = PositionAfterCheckpoint(u)],
           UNCHANGED <<nextFullBurnId, adjustmentFactor>>
    PROVE  Claims' = Claims
<1>1. PositionAfterCheckpoint(u) = [lastUpdatedFullBurnId |-> nextFullBurnId,
                                    adjustedAmount |-> LivePositions[u]]
    BY AfterCheckpoint DEF AccountsInv
<1>2. LivePositions[u] \in Nat /\ Claims[u] = MulDown(LivePositions[u], adjustmentFactor)
    BY ClaimTypes
<1>3. /\ Claims'[u] = Claims[u]
      /\ \A v \in Users \ {u} : Claims'[v] = Claims[v]
    BY <1>1, <1>2, PositionMoved
<1>4. \A v \in Users : Claims'[v] = Claims[v]  BY <1>3
<1>. QED  BY <1>4 DEF Claims

\* A step that leaves positions, burns and the factor alone changes no claim.
LEMMA UntouchedClaims ==
    ASSUME UNCHANGED <<positions, nextFullBurnId, adjustmentFactor>>
    PROVE  Claims' = Claims
BY DEF Claims, TotalBalanceOf, TotalBalanceAdjustedOf, Current, MulDown

LEMMA PoolCovered == RecoveryInv /\ AccountsInv => Pool!Covered
<1>. SUFFICES ASSUME RecoveryInv, AccountsInv PROVE Pool!Covered  OBVIOUS
<1>. QED  BY ClaimsWithinPool, SumOfPoolClaims DEF Pool!Covered, Claims

LEMMA NothingIsWorthless == MulDown(0, ONE) = 0
<1>1. ONE \in Nat /\ ONE <= ONE /\ 0 \in Nat  BY ONEAssumption
<1>2. MulDown(0, ONE) \in Nat  BY <1>1, MulDownNat
<1>3. MulDown(0, ONE) <= 0  BY <1>1, MulDownBounds
<1>. QED  BY <1>2, <1>3

LEMMA DepositRefines ==
    ASSUME RecoveryInv, AccountsInv, GydCounted, NEW u \in Users, NEW b \in Users,
           NEW amount \in GydAmounts, DepositFor(u, b, amount)
    PROVE  Pool!PoolNext
<1>. DEFINE x == LivePositions[b]
            a == AmountToAdjusted(amount)
            f == adjustmentFactor
<1>1. /\ x \in Nat /\ f \in Nat /\ f > 0 /\ f <= ONE /\ amount \in Nat
      /\ Claims[b] = MulDown(x, f) /\ StakedAfterCheckpoint(b) \in Nat
    BY ClaimTypes, CreditedTypes DEF RecoveryInv
<1>2. a \in Nat  BY <1>1, DivDownNat DEF AmountToAdjusted
<1>3. positions' = [positions EXCEPT ![b] = [lastUpdatedFullBurnId |-> nextFullBurnId,
                                             adjustedAmount |-> x + a]]
    <2>. DEFINE at == [lastUpdatedFullBurnId |-> nextFullBurnId, adjustedAmount |-> x]
    <2>1. PositionAfterCheckpoint(b) = at  BY AfterCheckpoint DEF AccountsInv
    <2>2. positions' = [positions EXCEPT ![b] = [at EXCEPT !.adjustedAmount = @ + a]]
        BY <2>1 DEF DepositFor
    <2>3. [at EXCEPT !.adjustedAmount = @ + a]
            = [lastUpdatedFullBurnId |-> nextFullBurnId, adjustedAmount |-> x + a]
        OBVIOUS
    <2>. QED  BY <2>2, <2>3
<1>4. /\ perUserStaked' = [perUserStaked EXCEPT ![b] = StakedAfterCheckpoint(b) + a]
      /\ UNCHANGED <<nextFullBurnId, adjustmentFactor>>
      /\ amount <= gydBalance[u]
      /\ gydBalance' = [gydBalance EXCEPT ![u] = @ - amount]
      /\ underlying' = underlying + amount
    BY DEF DepositFor, burnVars
<1>5. Claims'[b] = MulDown(x + a, f) /\ \A v \in Users \ {b} : Claims'[v] = Claims[v]
    <2>. HIDE DEF x, a
    <2>1. StakedAfterCheckpoint(b) + a \in Nat /\ x + a \in Nat  BY <1>1, <1>2
    <2>. QED  BY <1>3, <1>4, <2>1, PositionMoved
<1>6. /\ Claims'[b] \in {Claims[b] + amount, Claims[b] + amount - 1}
      /\ Claims'[b] >= Claims[b]
    <2>1. a = DivDown(amount, f)  BY DEF AmountToAdjusted
    <2>. HIDE DEF x, a, f
    <2>2. LET c == MulDown(x, f)
              d == MulDown(x + DivDown(amount, f), f)
          IN  d \in {c + amount, c + amount - 1} /\ c <= d
        BY <1>1, PaidInWorth
    <2>3. MulDown(x, f) \in Nat  BY <1>1, MulDownNat
    <2>. QED  BY <1>1, <1>5, <2>1, <2>2, <2>3
<1>7. amount \in 0..(InitialGyd * Cardinality(Users))
    <2>1. /\ gydBalance[u] \in Nat /\ InitialGyd * Cardinality(Users) \in Nat
          /\ gydBalance[u] <= InitialGyd * Cardinality(Users)
        BY GydBounds DEF RecoveryInv
    <2>. QED  BY <1>1, <1>4, <2>1
<1>8. Pool!PayIn(u, b, amount)
    BY <1>4, <1>5, <1>6 DEF Pool!PayIn, Pool!OthersKeepClaims, Claims
<1>. QED  BY <1>7, <1>8 DEF Pool!PoolNext

LEMMA WithdrawalRefines ==
    ASSUME RecoveryInv, AccountsInv, GydCounted, NEW id \in DOMAIN pendingWithdrawals,
           WithdrawPaid(id)
    PROVE  Pool!PoolNext
<1>1. PICK u \in Users : u = pendingWithdrawals[id].to
    BY DEF RecoveryInv, TypeOK, WithdrawalTypeOK, PendingWithdrawal
<1>. DEFINE x == LivePositions[u]
            a == pendingWithdrawals[id].adjustedAmount
            f == adjustmentFactor
            amount == MulDown(a, f)
<1>2. /\ x \in Nat /\ f \in Nat /\ a \in Nat /\ LiveStakes[u] \in Nat /\ underlying \in Nat
      /\ Claims[u] = MulDown(x, f)
    <2>1. a \in Nat  BY DEF RecoveryInv, TypeOK, WithdrawalTypeOK, PendingWithdrawal
    <2>2. LiveStakes[u] \in Nat  BY LiveTypes DEF RecoveryInv
    <2>. QED  BY <2>1, <2>2, ClaimTypes
<1>3. /\ a <= x /\ amount <= underlying /\ underlying' = underlying - amount
      /\ perUserStaked' = [perUserStaked EXCEPT ![u] = LiveStakes[u]]
      /\ positions' = [positions EXCEPT ![u] = [lastUpdatedFullBurnId |-> nextFullBurnId,
                                                adjustedAmount |-> x - a]]
      /\ UNCHANGED <<nextFullBurnId, adjustmentFactor>>
    BY <1>1, PaidWithdrawalPosition
<1>4. gydBalance' = [gydBalance EXCEPT ![u] = @ + amount]
    BY <1>1 DEF WithdrawPaid
<1>. HIDE DEF x, a
<1>5. Claims'[u] = MulDown(x - a, f) /\ \A v \in Users \ {u} : Claims'[v] = Claims[v]
    <2>1. x - a \in Nat  BY <1>2, <1>3
    <2>. QED  BY <1>2, <1>3, <2>1, PositionMoved
<1>. HIDE DEF f
<1>6. /\ amount <= Claims[u]
      /\ Claims'[u] \in {Claims[u] - amount, Claims[u] - amount - 1}
      /\ Claims'[u] >= 0
    BY <1>2, <1>3, <1>5, PaidOutWorth
<1>7. amount \in 0..(InitialGyd * Cardinality(Users))
    <2>1. amount \in Nat  BY <1>2, MulDownNat
    <2>2. /\ InitialGyd * Cardinality(Users) \in Nat
          /\ underlying <= InitialGyd * Cardinality(Users)
        BY GydBounds DEF RecoveryInv
    <2>. QED  BY <1>2, <1>3, <2>1, <2>2
<1>. HIDE DEF amount
<1>8. Pool!PayOut(u, amount)
    BY <1>3, <1>4, <1>5, <1>6 DEF Pool!PayOut, Pool!OthersKeepClaims, Claims
<1>. QED  BY <1>7, <1>8 DEF Pool!PoolNext

LEMMA BurnRefines ==
    ASSUME RecoveryInv, AccountsInv, GydCounted, Pool!Covered',
           NEW amount \in Nat, underlying > 0, ExecuteBurn(amount)
    PROVE  Pool!PoolNext \/ (UNCHANGED <<gydBalance, underlying>> /\ Claims' = Claims)
<1>1. /\ \A u \in Users : LivePositions[u] \in Nat /\ Claims[u] \in Nat
      /\ \A u \in Users : Claims[u] = MulDown(LivePositions[u], adjustmentFactor)
      /\ underlying \in Nat /\ adjustmentFactor \in Nat
    BY ClaimTypes
<1>2. UNCHANGED <<gydBalance, positions>>  BY DEF ExecuteBurn
<1>3. underlying <= InitialGyd * Cardinality(Users) /\ InitialGyd * Cardinality(Users) \in Nat
    BY GydBounds DEF RecoveryInv
<1>4. ASSUME NEW burnt \in Nat, BurnGyd(burnt),
             \A u \in Users : /\ Claims'[u] * underlying <= (Claims[u] + 1) * underlying'
                              /\ Claims'[u] <= Claims[u]
      PROVE  Pool!PoolNext
    <2>1. burnt <= underlying /\ underlying' = underlying - burnt  BY <1>4 DEF BurnGyd
    <2>2. Pool!Burn(burnt)  BY <1>2, <1>4, <2>1 DEF Pool!Burn, Claims
    <2>3. burnt \in 0..(InitialGyd * Cardinality(Users))  BY <1>1, <1>3, <2>1
    <2>. QED  BY <2>2, <2>3 DEF Pool!PoolNext
<1>5. CASE FullBurn
    <2>1. /\ BurnGyd(underlying) /\ adjustmentFactor' = ONE
          /\ nextFullBurnId' = nextFullBurnId + 1 /\ nextFullBurnId \in Nat
        BY <1>5 DEF FullBurn, RecoveryInv, TypeOK, BurnTypeOK
    <2>2. \A u \in Users : positions'[u].lastUpdatedFullBurnId # nextFullBurnId'
        BY <1>2, <2>1 DEF RecoveryInv, IntegralsOrdered, TypeOK, PositionsTypeOK, Position
    <2>3. \A u \in Users : LivePositions'[u] = 0
        BY <2>2 DEF LivePositions, TotalBalanceAdjustedOf, Current
    <2>4. \A u \in Users : Claims'[u] = MulDown(0, ONE)
        BY <2>1, <2>3 DEF Claims, LivePositions, TotalBalanceOf, MulDown
    <2>5. \A u \in Users : Claims'[u] = 0  BY <2>4, NothingIsWorthless
    <2>6. underlying' = 0  BY <1>1, <2>1 DEF BurnGyd
    <2>7. \A u \in Users : /\ Claims'[u] * underlying <= (Claims[u] + 1) * underlying'
                           /\ Claims'[u] <= Claims[u]
        <3>1. \A c \in Nat : 0 * underlying <= (c + 1) * 0 /\ 0 <= c  BY <1>1
        <3>. QED  BY <1>1, <2>5, <2>6, <3>1
    <2>. QED  BY <1>1, <1>4, <2>1, <2>7
<1>6. CASE PartialBurn(amount)
    <2>. DEFINE left == underlying - amount
                q == DivDown(MulDown(adjustmentFactor, left), underlying)
    <2>1. /\ BurnGyd(amount) /\ amount <= underlying /\ underlying' = left
          /\ adjustmentFactor' = q /\ UNCHANGED nextFullBurnId
        BY <1>6 DEF PartialBurn, BurnGyd, NextFactor, NextAdjustmentFactor
    <2>2. left \in Nat /\ left <= underlying  BY <1>1, <2>1
    <2>3. \A u \in Users : LivePositions'[u] = LivePositions[u]
        BY <1>2, <2>1 DEF LivePositions, TotalBalanceAdjustedOf, Current
    <2>4. \A u \in Users : Claims'[u] = MulDown(LivePositions[u], q)
        BY <2>1, <2>3 DEF Claims, LivePositions, TotalBalanceOf, MulDown
    <2>. HIDE DEF left
    <2>5. ASSUME NEW u \in Users
          PROVE  /\ Claims'[u] * underlying <= (Claims[u] + 1) * underlying'
                 /\ Claims'[u] <= Claims[u]
        <3>1. /\ MulDown(LivePositions[u], q) * underlying
                    <= (MulDown(LivePositions[u], adjustmentFactor) + 1) * left
              /\ MulDown(LivePositions[u], q) <= MulDown(LivePositions[u], adjustmentFactor)
            BY <1>1, <2>2, BurntWorth
        <3>. HIDE DEF q
        <3>. QED  BY <1>1, <2>1, <2>4, <3>1
    <2>. QED  BY <1>4, <2>1, <2>5
<1>7. CASE RefusedBurn(amount)
    BY <1>2, <1>7, UntouchedClaims DEF RefusedBurn, gydVars, burnVars
<1>. QED  BY <1>5, <1>6, <1>7 DEF ExecuteBurn

LEMMA PoolStep ==
    ASSUME RecoveryInv, AccountsInv, GydCounted, Pool!Covered', [Next]_vars
    PROVE  Pool!PoolNext \/ (UNCHANGED <<gydBalance, underlying>> /\ Claims' = Claims)
<1>. DEFINE Stutter == UNCHANGED <<gydBalance, underlying>> /\ Claims' = Claims
            Goal == Pool!PoolNext \/ Stutter
<1>1. ASSUME NEW u \in Users, UserStep(u)
      PROVE  Goal
    <2>a. StakedAfterCheckpoint(u) \in Nat  BY CreditedTypes DEF RecoveryInv
    <2>1. CASE RecoveryUserCheckpoint(u) \/ RecoveryClaimRewards(u)
        <3>1. /\ perUserStaked' = [perUserStaked EXCEPT ![u] = StakedAfterCheckpoint(u)]
              /\ positions' = [positions EXCEPT ![u] = PositionAfterCheckpoint(u)]
              /\ UNCHANGED <<gydBalance, underlying, nextFullBurnId, adjustmentFactor>>
            BY <2>1 DEF RecoveryUserCheckpoint, RecoveryClaimRewards, gydVars, burnVars
        <3>. QED  BY <2>a, <3>1, CheckpointKeepsClaims
    <2>2. ASSUME NEW a \in Nat, InitiateWithdrawalAdjusted(u, a)
          PROVE  Goal
        <3>1. /\ perUserStaked' = [perUserStaked EXCEPT ![u] = StakedAfterCheckpoint(u) - a]
              /\ positions' = [positions EXCEPT ![u] = PositionAfterCheckpoint(u)]
              /\ UNCHANGED <<gydBalance, underlying, nextFullBurnId, adjustmentFactor>>
              /\ a <= StakedAfterCheckpoint(u)
            BY <2>2 DEF InitiateWithdrawalAdjusted, gydVars, burnVars
        <3>2. StakedAfterCheckpoint(u) - a \in Nat  BY <2>a, <3>1
        <3>. QED  BY <3>1, <3>2, CheckpointKeepsClaims
    <2>3. ASSUME NEW amount \in GydAmounts, Donate(u, amount)
          PROVE  Goal
        <3>1. /\ amount <= gydBalance[u]
              /\ gydBalance' = [gydBalance EXCEPT ![u] = @ - amount]
              /\ underlying' = underlying + amount
              /\ Claims' = Claims
            BY <2>3, UntouchedClaims DEF Donate, burnVars
        <3>2. amount \in 0..(InitialGyd * Cardinality(Users))
            <4>1. /\ gydBalance[u] \in Nat /\ InitialGyd * Cardinality(Users) \in Nat
                  /\ gydBalance[u] <= InitialGyd * Cardinality(Users)
                BY GydBounds DEF RecoveryInv
            <4>2. amount \in Nat  OBVIOUS
            <4>. QED  BY <3>1, <4>1, <4>2
        <3>3. Pool!Gift(u, amount)  BY <3>1 DEF Pool!Gift, Claims
        <3>. QED  BY <3>2, <3>3 DEF Pool!PoolNext
    <2>4. ASSUME NEW amount \in GydAmounts, NEW b \in Users, DepositFor(u, b, amount)
          PROVE  Goal
        BY <2>4, DepositRefines
    <2>5. /\ BalanceAdjustedOf(u) \in Nat
          /\ \A amount \in GydAmounts : amount \in Nat /\ AmountToAdjusted(amount) \in Nat
        <3>1. BalanceAdjustedOf(u) \in Nat
            BY DEF BalanceAdjustedOf, RecoveryInv, TypeOK, LMTypeOK
        <3>2. adjustmentFactor \in Nat /\ adjustmentFactor > 0  BY ClaimTypes
        <3>3. \A amount \in GydAmounts : amount \in Nat  OBVIOUS
        <3>. QED  BY <3>1, <3>2, <3>3, DivDownNat DEF AmountToAdjusted
    <2>. HIDE DEF Goal
    <2>. QED
        BY <1>1, <2>1, <2>2, <2>3, <2>4, <2>5 DEF UserStep, InitiateWithdrawal
<1>2. ASSUME MiningStep
      PROVE  Goal
    BY <1>2, UntouchedClaims DEF MiningStep, recoveryVars, gydVars, burnVars
<1>3. ASSUME NEW id \in DOMAIN pendingWithdrawals, WithdrawBurned(id) \/ WithdrawPaid(id)
      PROVE  Goal
    <2>1. CASE WithdrawBurned(id)
        BY <2>1, UntouchedClaims DEF WithdrawBurned, gydVars, burnVars
    <2>2. CASE WithdrawPaid(id)  BY <2>2, WithdrawalRefines
    <2>. QED  BY <1>3, <2>1, <2>2
<1>4. ASSUME NEW duration, SetWithdrawalWaitDuration(duration)
      PROVE  Goal
    BY <1>4, UntouchedClaims DEF SetWithdrawalWaitDuration, gydVars, burnVars
<1>5. ASSUME NEW value \in ReserveValues, CheckAndRun(value)
      PROVE  Goal
    <2>. DEFINE amount == gydSupply - TargetGYDSupply(value)
    <2>1. ExecuteBurn(amount) /\ underlying > 0 /\ amount \in Nat
        <3>1. TargetGYDSupply(value) \in Nat  BY DivDownNat DEF TargetGYDSupply
        <3>2. gydSupply \in Nat  BY DEF RecoveryInv, TypeOK, GydTypeOK
        <3>. QED  BY <1>5, <3>1, <3>2 DEF CheckAndRun, ShouldRun
    <2>. HIDE DEF amount
    <2>. QED  BY <2>1, BurnRefines
<1>6. ASSUME UNCHANGED vars
      PROVE  Goal
    BY <1>6, UntouchedClaims DEF vars, recoveryVars, gydVars, burnVars
<1>. HIDE DEF Goal
<1>7. \/ MiningStep \/ UNCHANGED vars
      \/ \E u \in Users : UserStep(u)
      \/ \E id \in DOMAIN pendingWithdrawals : WithdrawBurned(id) \/ WithdrawPaid(id)
      \/ \E duration \in WaitDurations : SetWithdrawalWaitDuration(duration)
      \/ \E value \in ReserveValues : CheckAndRun(value)
    BY DEF Next
<1>8. Goal  BY <1>1, <1>2, <1>3, <1>4, <1>5, <1>6, <1>7
<1>. QED  BY <1>8 DEF Goal

\* To its providers the contract is the pool of RecoveryPool: adjusted amounts, burn ids
\* and checkpoints that come late cost nobody more than a unit of rounding per operation.
THEOREM RecoveryImplementsPool == Spec => ImplementsPool
<1>1. Init => RecoveryInv /\ AccountsInv /\ GydCounted
    BY RecoveryInit, AccountsInit, GydInit
<1>2. Init => Pool!PoolInit
    <2>. SUFFICES ASSUME Init PROVE Pool!PoolInit  OBVIOUS
    <2>1. RecoveryInv  BY RecoveryInit
    <2>2. gydBalance \in [Users -> Nat] /\ underlying = 0
        BY <2>1 DEF Init, RecoveryInv, TypeOK, GydTypeOK
    <2>3. \A u \in Users : LivePositions[u] = 0
        BY DEF Init, LivePositions, TotalBalanceAdjustedOf, Current
    <2>4. \A u \in Users : Claims[u] = 0
        <3>1. \A u \in Users : Claims[u] = MulDown(0, ONE)
            BY <2>1, <2>3, ClaimTypes DEF Init
        <3>. QED  BY <3>1, NothingIsWorthless
    <2>5. Claims = [u \in Users |-> 0]  BY <2>4 DEF Claims
    <2>. QED  BY <2>2, <2>5 DEF Pool!PoolInit, Claims
<1>3. ASSUME RecoveryInv /\ AccountsInv /\ GydCounted, [Next]_vars
      PROVE  (RecoveryInv /\ AccountsInv /\ GydCounted)'
    <2>1. RecoveryInv' /\ AccountsInv'
        BY <1>3, RecoveryTypeStep, OrderStep, AccountsStep DEF RecoveryInv
    <2>. QED  BY <1>3, <2>1, GydStep DEF RecoveryInv
<1>4. ASSUME RecoveryInv /\ AccountsInv /\ GydCounted, [Next]_vars, Pool!Covered'
      PROVE  [Pool!PoolNext]_(Pool!poolVars)
    <2>1. Pool!PoolNext \/ (UNCHANGED <<gydBalance, underlying>> /\ Claims' = Claims)
        BY <1>4, PoolStep
    <2>. QED  BY <2>1 DEF Pool!poolVars, Claims
<1>. QED  BY <1>1, <1>2, <1>3, <1>4, PoolCovered, PTL DEF Spec, ImplementsPool, Pool!PoolSpec

=============================================================================
