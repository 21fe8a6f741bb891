------------------------- MODULE ReserveStewardship -------------------------
(***************************************************************************)
(* ReserveStewardshipIncentives.sol: governance starts an initiative; when *)
(* it has run its time with few days of a low collateral ratio, the        *)
(* treasury is rewarded a share of the average GYD supply.                 *)
(*                                                                         *)
(* The contract reads the value of the reserve and the minted supply when  *)
(* it is called, and knows of what happened between two calls only what a  *)
(* checkpoint recorded.  Here they are parameters of the operations;       *)
(* module Motherboard supplies them and says who calls when.               *)
(***************************************************************************)
EXTENDS FixedPoint, Integers, FiniteSets

CONSTANTS
    RewardPercentages,      \* arguments of startInitiative
    MinCollateralRatios,    \* values of the configuration keys when an initiative starts
    MaxHealthViolations,
    InitiativeDurations,
    MaxRewardPercentage,    \* MAX_REWARD_PERCENTAGE
    MaxMaxHealthViolations, \* MAX_MAX_HEALTH_VIOLATIONS
    MinInitiativeDuration,  \* MIN_INITIATIVE_DURATION
    PenaltyFactor,          \* OVERESTIMATION_PENALTY_FACTOR
    DayLength,              \* units of time in a day
    Genesis,                \* time of the first state, not in day 0
    MaxTime                 \* bound on time

ASSUME StewardshipAssumption ==
    /\ RewardPercentages \subseteq Nat
    /\ MinCollateralRatios \subseteq Nat
    /\ MaxHealthViolations \subseteq Nat
    /\ InitiativeDurations \subseteq Nat
    /\ MaxRewardPercentage \in Nat
    /\ MaxMaxHealthViolations \in Nat
    /\ MinInitiativeDuration \in Nat \ {0}
    /\ PenaltyFactor \in Nat
    /\ DayLength \in Nat \ {0}
    /\ Genesis \in Nat /\ Genesis >= DayLength
    /\ MaxTime \in Nat

VARIABLES
    now,
    activeInitiative,
    reserveHealthViolations,
    aggSupply,
    \* History, read by no action:
    supplySeconds,          \* integral of the minted supply over the initiative so far
    lowDays                 \* days of the initiative on which a checkpoint saw a low ratio

stewardshipVars == <<activeInitiative, reserveHealthViolations, aggSupply>>
historyVars == <<supplySeconds, lowDays>>

Initiative ==
    [startTime : Nat, endTime : Nat, minCollateralRatio : Nat, maxHealthViolations : Nat,
     rewardPercentage : Nat]

StewardshipTypeOK ==
    /\ now \in Nat
    /\ activeInitiative \in Initiative
    /\ reserveHealthViolations \in [lastViolatedDate : Nat, nViolations : Nat]
    /\ aggSupply \in [lastUpdatedTime : Nat, aggSupply : Nat]
    /\ lowDays \subseteq Nat

StewardshipInit ==
    /\ now = Genesis
    /\ activeInitiative = [startTime |-> 0, endTime |-> 0, minCollateralRatio |-> 0,
                           maxHealthViolations |-> 0, rewardPercentage |-> 0]
    /\ reserveHealthViolations = [lastViolatedDate |-> 0, nViolations |-> 0]
    /\ aggSupply = [lastUpdatedTime |-> 0, aggSupply |-> 0]
    /\ supplySeconds = 0
    /\ lowDays = {}

HasActiveInitiative == activeInitiative.endTime > 0

InitiativeRuns == HasActiveInitiative /\ now <= activeInitiative.endTime

Today == now \div DayLength

HasFailed ==
    /\ HasActiveInitiative
    /\ reserveHealthViolations.nViolations > activeInitiative.maxHealthViolations

-----------------------------------------------------------------------------
(* Checkpoints                                                             *)

\* mutant: the ratio is computed after the end too
CanCheckpointLate(supply) == HasActiveInitiative => supply > 0

\* The supply must be there to compute the ratio while the initiative runs.
CanCheckpoint(supply) ==
    /\ HasActiveInitiative => supply >= 0
    /\ InitiativeRuns => supply > 0

IsLow(reserveUSDValue, supply) ==
    /\ InitiativeRuns
    /\ DivDown(reserveUSDValue, supply) < activeInitiative.minCollateralRatio

\* mutant: time after the end counts
AggSupplyToNow(supply) ==
    IF HasActiveInitiative
    THEN [lastUpdatedTime |-> now,
          aggSupply |-> aggSupply.aggSupply + (now - aggSupply.lastUpdatedTime) * supply]
    ELSE aggSupply

UpdatedAggSupply(supply) ==
    LET updateTime == MinOf(now, activeInitiative.endTime)
    IN  IF HasActiveInitiative
        THEN [lastUpdatedTime |-> updateTime,
              aggSupply |-> aggSupply.aggSupply
                            + (updateTime - aggSupply.lastUpdatedTime) * supply]
        ELSE aggSupply

\* mutant: the day is not remembered from one violation to the next
ViolationsOnce(reserveUSDValue, supply) ==
    IF IsLow(reserveUSDValue, supply) /\ reserveHealthViolations.lastViolatedDate = 0
    THEN [lastViolatedDate |-> Today, nViolations |-> reserveHealthViolations.nViolations + 1]
    ELSE reserveHealthViolations

\* At most one violation is recorded per day.
UpdatedViolations(reserveUSDValue, supply) ==
    IF IsLow(reserveUSDValue, supply) /\ reserveHealthViolations.lastViolatedDate < Today
    THEN [lastViolatedDate |-> Today, nViolations |-> reserveHealthViolations.nViolations + 1]
    ELSE reserveHealthViolations

CheckpointInitiative(reserveUSDValue, supply) ==
    /\ CanCheckpoint(supply)
    /\ aggSupply' = UpdatedAggSupply(supply)
    /\ reserveHealthViolations' = UpdatedViolations(reserveUSDValue, supply)
    /\ lowDays' = IF IsLow(reserveUSDValue, supply) THEN lowDays \cup {Today} ELSE lowDays

-----------------------------------------------------------------------------
(* The life of an initiative                                               *)

StartInitiative(rewardPercentage, minRatio, maxViolations, duration, reserveUSDValue, supply) ==
    /\ rewardPercentage <= MaxRewardPercentage
    /\ ~HasActiveInitiative
    /\ minRatio >= ONE
    /\ maxViolations <= MaxMaxHealthViolations
    /\ duration >= MinInitiativeDuration
    /\ now + duration < MaxTime
    /\ supply > 0
    /\ DivDown(reserveUSDValue, supply) >= minRatio
    /\ reserveHealthViolations' = [lastViolatedDate |-> 0, nViolations |-> 0]
    /\ aggSupply' = [lastUpdatedTime |-> now, aggSupply |-> 0]
    /\ activeInitiative' = [startTime |-> now, endTime |-> now + duration,
                            minCollateralRatio |-> minRatio,
                            maxHealthViolations |-> maxViolations,
                            rewardPercentage |-> rewardPercentage]
    /\ supplySeconds' = 0
    /\ lowDays' = {}
    /\ UNCHANGED now

\* The other fields of the initiative stay as they are.
EndInitiative == activeInitiative' = [activeInitiative EXCEPT !.endTime = 0]

CancelInitiative ==
    /\ EndInitiative
    /\ UNCHANGED <<now, reserveHealthViolations, aggSupply, historyVars>>

TargetReward(aggregate) ==
    MulDown(activeInitiative.rewardPercentage,
            aggregate \div (activeInitiative.endTime - activeInitiative.startTime))

MaxAllowedGYDSupply(reserveUSDValue) ==
    DivDown(reserveUSDValue, activeInitiative.minCollateralRatio)

\* mutant: the reduction is not compared with the target
UncheckedReward(target, maxReward) ==
    IF target <= maxReward THEN target
    ELSE target - MulDown(ONE + PenaltyFactor, target - maxReward)

\* mutant: the target is paid, whatever the reserve allows
TargetAlways(target, maxReward) == target

\* A target above what the reserve allows is reduced by more than the excess.
AllowedReward(target, maxReward) ==
    LET reduction == MulDown(ONE + PenaltyFactor, target - maxReward)
    IN  IF target <= maxReward THEN target
        ELSE IF reduction < target THEN target - reduction ELSE 0

\* What completeInitiative mints, after its checkpoint.
InitiativeReward(reserveUSDValue, supply) ==
    AllowedReward(TargetReward(UpdatedAggSupply(supply).aggSupply),
                  MaxAllowedGYDSupply(reserveUSDValue) - supply)

\* The checkpoint of completeInitiative comes before the test.
FewViolations(reserveUSDValue, supply) ==
    UpdatedViolations(reserveUSDValue, supply).nViolations
        <= activeInitiative.maxHealthViolations

CompleteInitiative(reserveUSDValue, supply) ==
    /\ CheckpointInitiative(reserveUSDValue, supply)
    /\ HasActiveInitiative
    /\ activeInitiative.endTime <= now
    /\ FewViolations(reserveUSDValue, supply)
    /\ supply <= MaxAllowedGYDSupply(reserveUSDValue)
    /\ EndInitiative
    /\ UNCHANGED <<now, supplySeconds>>

\* Time passes, with the supply it passes over.
PassTime(supply) ==
    /\ now < MaxTime
    /\ now' = now + 1
    /\ supplySeconds' = IF HasActiveInitiative /\ now < activeInitiative.endTime
                        THEN supplySeconds + supply ELSE supplySeconds
    /\ UNCHANGED <<stewardshipVars, lowDays>>

=============================================================================
