-------------------------- MODULE LiquidityMining ---------------------------
(***************************************************************************)
(* LiquidityMining.sol: rewards paid per second to stakers in proportion   *)
(* to their stake.  The contract keeps the integral over time of           *)
(* rate / totalStaked and, per user, the value of the integral up to which *)
(* the user has been credited; the difference of the two times the user's  *)
(* stake is what the user has earned since.                                *)
(*                                                                         *)
(* The contract is abstract: a subcontract decides who may stake.  LMSpec  *)
(* is the contract with a subcontract that lets everybody stake, which is  *)
(* all the base code allows.  GydRecovery EXTENDS this module and uses the *)
(* same operators with its own userCheckpoint.                             *)
(*                                                                         *)
(* A transaction is one atomic action; a revert is an action that is not   *)
(* enabled.  Every unsigned subtraction that the compiler checks is a      *)
(* conjunct of the guard.                                                  *)
(***************************************************************************)
EXTENDS FixedPoint, FiniteSetsExt

CONSTANTS
    Users,          \* accounts that stake
    RewardAmounts,  \* amounts of the reward token governance funds a program with
    StakeAmounts,   \* amounts staked or unstaked in one call
    Genesis,        \* block.timestamp when the contract is deployed
    MaxTime,        \* bound on block.timestamp
    MaxStake,       \* bound on totalStaked
    MaxFunding      \* bound on the reward tokens in the contract

ASSUME LMAssumption ==
    /\ RewardAmounts \subseteq Nat
    /\ StakeAmounts \subseteq Nat
    /\ Genesis \in Nat \ {0}
    /\ MaxTime \in Nat
    /\ MaxStake \in Nat
    /\ MaxFunding \in Nat

VARIABLES
    now,                    \* block.timestamp
    totalStaked,
    totalStakedIntegral,
    lastCheckpointTime,
    totalUnclaimedRewards,
    perUserStakedIntegral,
    perUserShare,
    perUserStaked,
    rewardsEmissionRate,
    rewardsEmissionEndTime,
    rewardBalance           \* rewardToken.balanceOf(address(this))

stakeVars == <<totalStaked, perUserStaked>>
integralVars == <<totalStakedIntegral, lastCheckpointTime, perUserStakedIntegral>>
rewardVars == <<totalUnclaimedRewards, perUserShare, rewardBalance>>
emissionVars == <<rewardsEmissionRate, rewardsEmissionEndTime>>
lmVars == <<now, stakeVars, integralVars, rewardVars, emissionVars>>

LMTypeOK ==
    /\ now \in Nat
    /\ totalStaked \in Nat
    /\ totalStakedIntegral \in Nat
    /\ lastCheckpointTime \in Nat
    /\ totalUnclaimedRewards \in Nat
    /\ perUserStakedIntegral \in [Users -> Nat]
    /\ perUserShare \in [Users -> Nat]
    /\ perUserStaked \in [Users -> Nat]
    /\ rewardsEmissionRate \in Nat
    /\ rewardsEmissionEndTime \in Nat
    /\ rewardBalance \in Nat

LMInit ==
    /\ now = Genesis
    /\ totalStaked = 0
    /\ totalStakedIntegral = 0
    /\ lastCheckpointTime = Genesis
    /\ totalUnclaimedRewards = 0
    /\ perUserStakedIntegral = [u \in Users |-> 0]
    /\ perUserShare = [u \in Users |-> 0]
    /\ perUserStaked = [u \in Users |-> 0]
    /\ rewardsEmissionRate = 0
    /\ rewardsEmissionEndTime = 0
    /\ rewardBalance = 0

-----------------------------------------------------------------------------
(* The accounting that every operation begins with                         *)

\* The time up to which rewards are emitted: 0 while no program was started.
RewardsTimestamp ==
    IF now <= rewardsEmissionEndTime THEN now ELSE rewardsEmissionEndTime

\* Rewards emitted since the last checkpoint.  Nothing accrues while nobody stakes.
NewRewards ==
    IF totalStaked > 0 /\ RewardsTimestamp > lastCheckpointTime
    THEN rewardsEmissionRate * (RewardsTimestamp - lastCheckpointTime)
    ELSE 0

\* _totalStakedIntegral and _totalUnclaimedRewards as globalCheckpoint leaves them.
IntegralNow ==
    totalStakedIntegral + (IF totalStaked > 0 THEN DivDown(NewRewards, totalStaked) ELSE 0)

UnclaimedNow == totalUnclaimedRewards + NewRewards

\* The part of globalCheckpoint that no caller assigns again.
AdvanceIntegral ==
    /\ totalStakedIntegral' = IntegralNow
    /\ lastCheckpointTime' = RewardsTimestamp

\* What u is owed once it is credited up to the value integral of the integral.
ShareUpTo(u, integral) ==
    perUserShare[u] + MulDown(perUserStaked[u], integral - perUserStakedIntegral[u])

\* The integral part of userCheckpoint; the subtraction in it is checked.
CreditUpTo(u, integral) ==
    /\ integral >= perUserStakedIntegral[u]
    /\ perUserStakedIntegral' = [perUserStakedIntegral EXCEPT ![u] = integral]

-----------------------------------------------------------------------------
(* Operations                                                              *)

\* block.timestamp grows from one transaction to the next.
Tick ==
    /\ now < MaxTime
    /\ now' = now + 1
    /\ UNCHANGED <<stakeVars, integralVars, rewardVars, emissionVars>>

GlobalCheckpoint ==
    /\ AdvanceIntegral
    /\ totalUnclaimedRewards' = UnclaimedNow
    /\ UNCHANGED <<now, stakeVars, perUserStakedIntegral, perUserShare, rewardBalance,
                   emissionVars>>

UserCheckpoint(u) ==
    /\ AdvanceIntegral
    /\ CreditUpTo(u, IntegralNow)
    /\ totalUnclaimedRewards' = UnclaimedNow
    /\ perUserShare' = [perUserShare EXCEPT ![u] = ShareUpTo(u, IntegralNow)]
    /\ UNCHANGED <<now, stakeVars, rewardBalance, emissionVars>>

\* Both checked subtractions of _unstake.
CanUnstake(u, amount) == amount <= perUserStaked[u] /\ amount <= totalStaked

Stake(u, amount) ==
    /\ totalStaked + amount <= MaxStake
    /\ AdvanceIntegral
    /\ CreditUpTo(u, IntegralNow)
    /\ totalUnclaimedRewards' = UnclaimedNow
    /\ perUserShare' = [perUserShare EXCEPT ![u] = ShareUpTo(u, IntegralNow)]
    /\ totalStaked' = totalStaked + amount
    /\ perUserStaked' = [perUserStaked EXCEPT ![u] = @ + amount]
    /\ UNCHANGED <<now, rewardBalance, emissionVars>>

Unstake(u, amount) ==
    /\ CanUnstake(u, amount)
    /\ AdvanceIntegral
    /\ CreditUpTo(u, IntegralNow)
    /\ totalUnclaimedRewards' = UnclaimedNow
    /\ perUserShare' = [perUserShare EXCEPT ![u] = ShareUpTo(u, IntegralNow)]
    /\ totalStaked' = totalStaked - amount
    /\ perUserStaked' = [perUserStaked EXCEPT ![u] = @ - amount]
    /\ UNCHANGED <<now, rewardBalance, emissionVars>>

\* claimRewards once userCheckpoint has left u with the share amount.  With an
\* empty share the call stops after the checkpoint.
PayRewards(u, amount) ==
    /\ amount <= UnclaimedNow
    /\ amount <= rewardBalance
    /\ totalUnclaimedRewards' = UnclaimedNow - amount
    /\ perUserShare' = [perUserShare EXCEPT ![u] = 0]
    /\ rewardBalance' = rewardBalance - amount

ClaimRewards(u) ==
    /\ AdvanceIntegral
    /\ CreditUpTo(u, IntegralNow)
    /\ PayRewards(u, ShareUpTo(u, IntegralNow))
    /\ UNCHANGED <<now, stakeVars, emissionVars>>

EmissionRateUp(amount, endTime) == amount \div (endTime - now) + 1    \* mutant: rounded up
EmissionRate(amount, endTime) == amount \div (endTime - now)

\* _startMining: the emission rate is rounded down and the remainder stays in
\* the contract.  endTime must lie in the future for the division to succeed.
StartMining(amount, endTime) ==
    /\ endTime > now
    /\ rewardBalance + amount <= MaxFunding
    /\ AdvanceIntegral
    /\ totalUnclaimedRewards' = UnclaimedNow
    /\ rewardBalance' = rewardBalance + amount
    /\ rewardsEmissionRate' = EmissionRate(amount, endTime)
    /\ rewardsEmissionEndTime' = endTime
    /\ UNCHANGED <<now, stakeVars, perUserStakedIntegral, perUserShare>>

\* _stopMining: what is not owed to stakers goes back to the DAO treasury.
StopMining ==
    /\ UnclaimedNow <= rewardBalance
    /\ AdvanceIntegral
    /\ totalUnclaimedRewards' = UnclaimedNow
    /\ rewardBalance' = UnclaimedNow
    /\ rewardsEmissionRate' = 0
    /\ rewardsEmissionEndTime' = 0
    /\ UNCHANGED <<now, stakeVars, perUserStakedIntegral, perUserShare>>

LMNext ==
    \/ Tick
    \/ GlobalCheckpoint
    \/ StopMining
    \/ \E amount \in RewardAmounts, endTime \in 1..MaxTime : StartMining(amount, endTime)
    \/ \E u \in Users :
        \/ UserCheckpoint(u)
        \/ ClaimRewards(u)
        \/ \E amount \in StakeAmounts : Stake(u, amount) \/ Unstake(u, amount)

LMSpec == LMInit /\ [][LMNext]_lmVars

-----------------------------------------------------------------------------
(* Properties                                                              *)

\* Rewards accrue as far as an emission program lasts.  Starting a program sets
\* the end time but leaves the time of the last checkpoint where the previous
\* program (or the epoch) ended, so a start while there are stakers and no
\* program is running accrues the new rate over that gap too.
StartsCleanly ==
    rewardsEmissionEndTime' > rewardsEmissionEndTime
        => totalStaked = 0 \/ now <= rewardsEmissionEndTime

\* The contract when governance starts programs only while nobody stakes or
\* while the previous program is still running.
LMCarefulSpec == LMInit /\ [][LMNext /\ StartsCleanly]_lmVars

\* No state is reached in which the stakers are owed more of the reward token
\* than the contract holds: otherwise the last ones to claim, and stopMining,
\* revert.
RewardsBacked == UnclaimedNow <= rewardBalance

=============================================================================
