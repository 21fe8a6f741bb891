---------------------------- MODULE RecoveryBurn ----------------------------
(***************************************************************************)
(* When the recovery module burns, and how much: the arithmetic of         *)
(* GydRecovery.sol that depends on the reserve, the supply and the pool    *)
(* alone.  GydRecovery uses it with its accounting of positions,           *)
(* Motherboard with the accounting of the supply.                          *)
(***************************************************************************)
EXTENDS FixedPoint

CONSTANTS
    MaxPartialBurnFactor,   \* MAX_PARTIAL_BURN_FACTOR
    TriggerCR,              \* GYD_RECOVERY_TRIGGER_CR
    TargetCR,               \* GYD_RECOVERY_TARGET_CR
    MaxTriggerCR            \* maxTriggerCR, fixed at deployment

ASSUME BurnAssumption ==
    /\ MaxPartialBurnFactor \in 1..ONE
    /\ TriggerCR \in Nat
    /\ TargetCR \in Nat \ {0}
    /\ MaxTriggerCR \in Nat

\* The division by the supply reverts when nothing is minted.
ShouldRun(reserveUSDValue, supply, pool) ==
    /\ pool > 0
    /\ supply > 0
    /\ DivDown(reserveUSDValue, supply) < MinOf(TriggerCR, MaxTriggerCR)

\* The supply that brings the collateral ratio back to the target.
TargetGYDSupply(reserveUSDValue) == DivDown(reserveUSDValue, TargetCR)

IsFullBurn(amountToBurn, pool) == amountToBurn >= MulDown(pool, ONE - MaxPartialBurnFactor)

\* mutant: rounded in favour of the providers
NextFactorUp(factor, amountToBurn, pool) ==
    DivUp(MulUp(factor, pool - amountToBurn), pool)

NextAdjustmentFactor(factor, amountToBurn, pool) ==
    DivDown(MulDown(factor, pool - amountToBurn), pool)

=============================================================================
