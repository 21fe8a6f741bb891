---------------------------- MODULE GydRecovery -----------------------------
(***************************************************************************)
(* GydRecovery.sol: providers lock GYD, which is burned when the reserve   *)
(* falls short of the GYD supply.  Depositors earn rewards as the stakers  *)
(* of LiquidityMining, in units of adjusted amounts:                       *)
(*                                                                         *)
(*   - a partial burn multiplies adjustmentFactor; an adjusted amount a is *)
(*     worth MulDown(a, adjustmentFactor) GYD, so no position is touched;  *)
(*   - a full burn increments nextFullBurnId, which makes every position   *)
(*     and pending withdrawal of an earlier id worthless.  A position is   *)
(*     brought up to date only when its owner is next checkpointed.        *)
(*                                                                         *)
(* The GYD token is represented by the balances it keeps for the users and *)
(* for this contract; the reserve by the value that a call of checkAndRun  *)
(* finds.                                                                  *)
(***************************************************************************)
EXTENDS LiquidityMining, RecoveryBurn

CONSTANTS
    InitialGyd,             \* GYD every user starts with
    GydAmounts,             \* amounts of GYD deposited, withdrawn or donated in one call
    ReserveValues,          \* USD values of the reserve that checkAndRun can meet
    WaitDurations,          \* values governance gives withdrawalWaitDuration
    MaxWithdrawalWaitDuration,
    MaxWithdrawals          \* bound on the number of withdrawals initiated

ASSUME RecoveryAssumption ==
    /\ IsFiniteSet(Users)
    /\ InitialGyd \in Nat
    /\ GydAmounts \subseteq Nat
    /\ ReserveValues \subseteq Nat
    /\ WaitDurations \subseteq Nat
    /\ MaxWithdrawalWaitDuration \in Nat
    /\ MaxWithdrawals \in Nat

VARIABLES
    gydBalance,             \* gydToken.balanceOf(user)
    underlying,             \* gydToken.balanceOf(address(this)), totalUnderlying()
    gydSupply,              \* Motherboard.mintedSupply()
    positions,
    fullBurnHistory,        \* full burn id -> totalStakedIntegral at that burn
    nextFullBurnId,
    adjustmentFactor,
    pendingWithdrawals,     \* withdrawal id -> PendingWithdrawal
    nextWithdrawalId,
    withdrawalWaitDuration

gydVars == <<gydBalance, underlying, gydSupply>>
burnVars == <<fullBurnHistory, nextFullBurnId, adjustmentFactor>>
withdrawalVars == <<pendingWithdrawals, nextWithdrawalId, withdrawalWaitDuration>>
recoveryVars == <<gydVars, positions, burnVars, withdrawalVars>>
vars == <<lmVars, recoveryVars>>

Position == [lastUpdatedFullBurnId : Nat, adjustedAmount : Nat]

PendingWithdrawal ==
    [createdFullBurnId : Nat, adjustedAmount : Nat, withdrawableAt : Nat, to : Users]

GydTypeOK ==
    /\ gydBalance \in [Users -> Nat]
    /\ underlying \in Nat
    /\ gydSupply \in Nat

PositionsTypeOK == positions \in [Users -> Position]

BurnTypeOK ==
    /\ nextFullBurnId \in Nat \ {0}
    /\ fullBurnHistory \in [1..(nextFullBurnId - 1) -> Nat]
    /\ adjustmentFactor \in 1..ONE

WithdrawalTypeOK ==
    /\ nextWithdrawalId \in Nat
    /\ pendingWithdrawals \in [DOMAIN pendingWithdrawals -> PendingWithdrawal]
    /\ DOMAIN pendingWithdrawals \subseteq 0..(nextWithdrawalId - 1)
    /\ withdrawalWaitDuration \in 0..MaxWithdrawalWaitDuration

TypeOK == LMTypeOK /\ GydTypeOK /\ PositionsTypeOK /\ BurnTypeOK /\ WithdrawalTypeOK

Init ==
    /\ LMInit
    /\ gydBalance = [u \in Users |-> InitialGyd]
    /\ underlying = 0
    /\ gydSupply = InitialGyd * Cardinality(Users)
    /\ positions = [u \in Users |-> [lastUpdatedFullBurnId |-> 0, adjustedAmount |-> 0]]
    /\ fullBurnHistory = [id \in {} |-> 0]
    /\ nextFullBurnId = 1
    /\ adjustmentFactor = ONE
    /\ pendingWithdrawals = [id \in {} |-> 0]
    /\ nextWithdrawalId = 0
    /\ withdrawalWaitDuration \in WaitDurations \cap 0..MaxWithdrawalWaitDuration

-----------------------------------------------------------------------------
(* Positions                                                               *)

\* u was checkpointed before, but not since the last full burn.
Stale(u) == positions[u].lastUpdatedFullBurnId \in 1..(nextFullBurnId - 1)

Current(u) == positions[u].lastUpdatedFullBurnId = nextFullBurnId

BalanceAdjustedOf(u) == IF Current(u) THEN perUserStaked[u] ELSE 0

BalanceOf(u) == MulDown(BalanceAdjustedOf(u), adjustmentFactor)

TotalBalanceAdjustedOf(u) == IF Current(u) THEN positions[u].adjustedAmount ELSE 0

TotalBalanceOf(u) == MulDown(TotalBalanceAdjustedOf(u), adjustmentFactor)

\* userPendingWithdrawalIds
PendingWithdrawalIds(u) == {id \in DOMAIN pendingWithdrawals : pendingWithdrawals[id].to = u}

CreditedToNow(u) == IntegralNow     \* mutant: full burns are ignored

\* mutant: the burn before the one that made u stale
CreditedIntegralEarlier(u) ==
    IF Stale(u) /\ positions[u].lastUpdatedFullBurnId > 1
    THEN fullBurnHistory[positions[u].lastUpdatedFullBurnId - 1]
    ELSE IntegralNow

\* Up to where userCheckpoint credits u: to the first full burn since the last
\* checkpoint of u if there was one, to now otherwise.
CreditedIntegral(u) ==
    IF Stale(u) THEN fullBurnHistory[positions[u].lastUpdatedFullBurnId] ELSE IntegralNow

StakedKept(u) == perUserStaked[u]   \* mutant: the stake is not deleted

\* _perUserStaked[u] and positions[u] as userCheckpoint leaves them.
StakedAfterCheckpoint(u) == IF Stale(u) THEN 0 ELSE perUserStaked[u]

PositionAfterCheckpoint(u) ==
    [lastUpdatedFullBurnId |-> nextFullBurnId,
     adjustedAmount |-> IF Stale(u) THEN 0 ELSE positions[u].adjustedAmount]

\* What userCheckpoint does to the rewards of u, before the caller goes on.
CheckpointRewards(u) ==
    /\ AdvanceIntegral
    /\ CreditUpTo(u, CreditedIntegral(u))
    /\ totalUnclaimedRewards' = UnclaimedNow
    /\ perUserShare' = [perUserShare EXCEPT ![u] = ShareUpTo(u, CreditedIntegral(u))]

-----------------------------------------------------------------------------
(* Operations of LiquidityMining, with the userCheckpoint of this contract *)

RecoveryUserCheckpoint(u) ==
    /\ CheckpointRewards(u)
    /\ perUserStaked' = [perUserStaked EXCEPT ![u] = StakedAfterCheckpoint(u)]
    /\ positions' = [positions EXCEPT ![u] = PositionAfterCheckpoint(u)]
    /\ UNCHANGED <<now, totalStaked, rewardBalance, emissionVars, gydVars, burnVars,
                   withdrawalVars>>

RecoveryClaimRewards(u) ==
    /\ AdvanceIntegral
    /\ CreditUpTo(u, CreditedIntegral(u))
    /\ PayRewards(u, ShareUpTo(u, CreditedIntegral(u)))
    /\ perUserStaked' = [perUserStaked EXCEPT ![u] = StakedAfterCheckpoint(u)]
    /\ positions' = [positions EXCEPT ![u] = PositionAfterCheckpoint(u)]
    /\ UNCHANGED <<now, totalStaked, emissionVars, gydVars, burnVars, withdrawalVars>>

MiningStep ==
    /\ \/ Tick
       \/ GlobalCheckpoint
       \/ StopMining
       \/ \E amount \in RewardAmounts, endTime \in 1..MaxTime : StartMining(amount, endTime)
    /\ UNCHANGED recoveryVars

-----------------------------------------------------------------------------
(* Deposits and withdrawals                                                *)

AmountToAdjustedUp(amount) == DivUp(amount, adjustmentFactor)   \* mutant: rounded up
AmountToAdjusted(amount) == DivDown(amount, adjustmentFactor)

DepositFor(sender, beneficiary, amount) ==
    LET adjustedAmount == AmountToAdjusted(amount)
    IN  /\ amount <= gydBalance[sender]
        /\ gydBalance' = [gydBalance EXCEPT ![sender] = @ - amount]
        /\ underlying' = underlying + amount
        /\ CheckpointRewards(beneficiary)
        /\ totalStaked' = totalStaked + adjustedAmount
        /\ perUserStaked' = [perUserStaked EXCEPT
                ![beneficiary] = StakedAfterCheckpoint(beneficiary) + adjustedAmount]
        /\ positions' = [positions EXCEPT
                ![beneficiary] = [PositionAfterCheckpoint(beneficiary)
                                  EXCEPT !.adjustedAmount = @ + adjustedAmount]]
        /\ UNCHANGED <<now, rewardBalance, emissionVars, gydSupply, burnVars, withdrawalVars>>

\* A transfer of GYD to this contract other than by depositFor.
Donate(u, amount) ==
    /\ amount <= gydBalance[u]
    /\ gydBalance' = [gydBalance EXCEPT ![u] = @ - amount]
    /\ underlying' = underlying + amount
    /\ UNCHANGED <<lmVars, gydSupply, positions, burnVars, withdrawalVars>>

InitiateWithdrawalAdjusted(u, adjustedAmount) ==
    /\ nextWithdrawalId < MaxWithdrawals
    /\ now + withdrawalWaitDuration <= MaxTime
    /\ adjustedAmount <= BalanceAdjustedOf(u)
    /\ CheckpointRewards(u)
    /\ adjustedAmount <= StakedAfterCheckpoint(u)
    /\ perUserStaked' = [perUserStaked EXCEPT ![u] = StakedAfterCheckpoint(u) - adjustedAmount]
    /\ adjustedAmount <= totalStaked
    /\ totalStaked' = totalStaked - adjustedAmount
    /\ positions' = [positions EXCEPT ![u] = PositionAfterCheckpoint(u)]
    /\ pendingWithdrawals' =
            [id \in DOMAIN pendingWithdrawals \cup {nextWithdrawalId} |->
                IF id = nextWithdrawalId
                THEN [createdFullBurnId |-> nextFullBurnId,
                      adjustedAmount |-> adjustedAmount,
                      withdrawableAt |-> now + withdrawalWaitDuration,
                      to |-> u]
                ELSE pendingWithdrawals[id]]
    /\ nextWithdrawalId' = nextWithdrawalId + 1
    /\ UNCHANGED <<now, rewardBalance, emissionVars, gydVars, burnVars, withdrawalWaitDuration>>

InitiateWithdrawal(u, amount) ==
    InitiateWithdrawalAdjusted(u, AmountToAdjusted(amount))

Withdrawable(id) == pendingWithdrawals[id].withdrawableAt <= now

\* A withdrawal initiated before a full burn pays nothing.
WithdrawBurned(id) ==
    /\ Withdrawable(id)
    /\ pendingWithdrawals[id].createdFullBurnId < nextFullBurnId
    /\ pendingWithdrawals' = Restrict(pendingWithdrawals, DOMAIN pendingWithdrawals \ {id})
    /\ UNCHANGED <<lmVars, gydVars, positions, burnVars, nextWithdrawalId,
                   withdrawalWaitDuration>>

WithdrawPaid(id) ==
    LET pending == pendingWithdrawals[id]
        amount == MulDown(pending.adjustedAmount, adjustmentFactor)
    IN  /\ Withdrawable(id)
        /\ pending.createdFullBurnId >= nextFullBurnId
        /\ pending.adjustedAmount <= positions[pending.to].adjustedAmount
        /\ positions' = [positions EXCEPT
                ![pending.to].adjustedAmount = @ - pending.adjustedAmount]
        /\ amount <= underlying
        /\ underlying' = underlying - amount
        /\ gydBalance' = [gydBalance EXCEPT ![pending.to] = @ + amount]
        /\ pendingWithdrawals' = Restrict(pendingWithdrawals, DOMAIN pendingWithdrawals \ {id})
        /\ UNCHANGED <<lmVars, gydSupply, burnVars, nextWithdrawalId, withdrawalWaitDuration>>

SetWithdrawalWaitDuration(duration) ==
    /\ duration <= MaxWithdrawalWaitDuration
    /\ withdrawalWaitDuration' = duration
    /\ UNCHANGED <<lmVars, gydVars, positions, burnVars, pendingWithdrawals, nextWithdrawalId>>

-----------------------------------------------------------------------------
(* Burns                                                                   *)

\* gydToken.burn: the balance of this contract and the supply shrink, neither below
\* zero (a balance is a part of the supply, so the second bound never refuses).
BurnGyd(amount) ==
    /\ amount <= underlying
    /\ amount <= gydSupply
    /\ underlying' = underlying - amount
    /\ gydSupply' = gydSupply - amount

\* mutant: the integral is recorded under the incremented id
HistoryAfterIncrement ==
    [id \in (DOMAIN fullBurnHistory) \cup {nextFullBurnId + 1} |->
        IF id = nextFullBurnId + 1 THEN IntegralNow ELSE fullBurnHistory[id]]

HistoryWithBurn ==
    [id \in 1..nextFullBurnId |->
        IF id = nextFullBurnId THEN IntegralNow ELSE fullBurnHistory[id]]

\* mutant: totalStaked is not reset
FullBurnKeepsTotal ==
    /\ BurnGyd(underlying)
    /\ fullBurnHistory' = HistoryWithBurn
    /\ nextFullBurnId' = nextFullBurnId + 1
    /\ adjustmentFactor' = ONE
    /\ UNCHANGED totalStaked

FullBurn ==
    /\ BurnGyd(underlying)
    /\ fullBurnHistory' = HistoryWithBurn
    /\ nextFullBurnId' = nextFullBurnId + 1
    /\ adjustmentFactor' = ONE
    /\ totalStaked' = 0

NextFactor(amountToBurn) == NextAdjustmentFactor(adjustmentFactor, amountToBurn, underlying)

PartialBurn(amountToBurn) ==
    /\ NextFactor(amountToBurn) # 0
    /\ BurnGyd(amountToBurn)
    /\ adjustmentFactor' = NextFactor(amountToBurn)
    /\ UNCHANGED <<totalStaked, fullBurnHistory, nextFullBurnId>>

\* A factor of zero would make every position worthless and lock withdrawals up.
RefusedBurn(amountToBurn) ==
    /\ NextFactor(amountToBurn) = 0
    /\ UNCHANGED <<totalStaked, gydVars, burnVars>>

ExecuteBurn(amountToBurn) ==
    /\ AdvanceIntegral
    /\ totalUnclaimedRewards' = UnclaimedNow
    /\ \/ IsFullBurn(amountToBurn, underlying) /\ FullBurn
       \/ ~IsFullBurn(amountToBurn, underlying) /\ PartialBurn(amountToBurn)
       \/ ~IsFullBurn(amountToBurn, underlying) /\ RefusedBurn(amountToBurn)
    /\ UNCHANGED <<now, perUserStakedIntegral, perUserShare, perUserStaked, rewardBalance,
                   emissionVars, gydBalance, positions, withdrawalVars>>

CheckAndRun(reserveUSDValue) ==
    /\ ShouldRun(reserveUSDValue, gydSupply, underlying)
    /\ TargetGYDSupply(reserveUSDValue) < gydSupply
    /\ ExecuteBurn(gydSupply - TargetGYDSupply(reserveUSDValue))

-----------------------------------------------------------------------------
UserStep(u) ==
    \/ RecoveryUserCheckpoint(u)
    \/ RecoveryClaimRewards(u)
    \/ InitiateWithdrawalAdjusted(u, BalanceAdjustedOf(u))
    \/ \E amount \in GydAmounts :
        \/ InitiateWithdrawal(u, amount)
        \/ InitiateWithdrawalAdjusted(u, amount)
        \/ Donate(u, amount)
        \/ \E beneficiary \in Users : DepositFor(u, beneficiary, amount)

Next ==
    \/ MiningStep
    \/ \E u \in Users : UserStep(u)
    \/ \E id \in DOMAIN pendingWithdrawals : WithdrawBurned(id) \/ WithdrawPaid(id)
    \/ \E duration \in WaitDurations : SetWithdrawalWaitDuration(duration)
    \/ \E reserveUSDValue \in ReserveValues : CheckAndRun(reserveUSDValue)

Spec == Init /\ [][Next]_vars

\* Governance starts programs as in LMCarefulSpec.
CleanStartSpec == Init /\ [][Next /\ StartsCleanly]_vars

\* A user whose position is stale does not deposit, or receive a deposit, before
\* a checkpoint brought the position up to date.
CheckpointsBeforeDeposit ==
    \A u \in Users : Stale(u) /\ Current(u)' => perUserStaked'[u] = 0

CarefulSpec == Init /\ [][Next /\ StartsCleanly /\ CheckpointsBeforeDeposit]_vars

\* Time passes, and the owner of a withdrawal executes it when that is possible.
LiveSpec ==
    /\ Spec
    /\ WF_vars(Tick /\ UNCHANGED recoveryVars)
    /\ \A id \in 0..(MaxWithdrawals - 1) :
            WF_vars(id \in DOMAIN pendingWithdrawals /\ (WithdrawBurned(id) \/ WithdrawPaid(id)))

-----------------------------------------------------------------------------
(* Properties                                                              *)

\* A withdrawal that still carries a claim.
LivePending(id) == pendingWithdrawals[id].createdFullBurnId = nextFullBurnId

\* What u has marked for withdrawal, adjusted, since the last full burn.
PendingAdjustedOf(u) ==
    MapThenSumSet(LAMBDA id : pendingWithdrawals[id].adjustedAmount,
                  {id \in PendingWithdrawalIds(u) : LivePending(id)})

\* However deposits, partial burns and withdrawals round, the claims on the
\* pool are covered by the GYD in it, so the last provider to withdraw is paid.
Solvent == MulDown(MapThenSumSet(TotalBalanceAdjustedOf, Users), adjustmentFactor) <= underlying

\* A position is its stake plus what its owner has marked for withdrawal, across
\* full burns that neither was told of: the subtraction in withdraw cannot revert.
PositionsAddUp ==
    \A u \in Users : TotalBalanceAdjustedOf(u) = BalanceAdjustedOf(u) + PendingAdjustedOf(u)

\* totalStaked, which a full burn resets without visiting the stakers, is the sum
\* of the stakes that count.
LiveStakesAddUp == totalStaked = MapThenSumSet(BalanceAdjustedOf, Users)

\* Crediting a user never asks for a negative amount, however many full burns
\* and checkpoints of others happened since: no deposit, withdrawal or claim of
\* an up to date or a stale position reverts in userCheckpoint.
CheckpointNeverReverts ==
    \A u \in Users : perUserStakedIntegral[u] <= CreditedIntegral(u)

\* What u could claim after a checkpoint now.
RecoveryClaimableNow(u) == ShareUpTo(u, CreditedIntegral(u))

\* The rewards of all users are covered by the rewards counted as unclaimed.
RecoverySharesCovered == MapThenSumSet(RecoveryClaimableNow, Users) <= UnclaimedNow

\* To the users the contract is the pool of RecoveryPool: a deposit is worth what
\* was paid in, a withdrawal takes no more than the claim, only a burn reduces
\* the claims of others, by the same share for all, and claims stay covered,
\* all up to one unit of rounding against the user.
Pool == INSTANCE RecoveryPool WITH
            Amounts <- 0..(InitialGyd * Cardinality(Users)),
            wallet <- gydBalance,
            pool <- underlying,
            claim <- [u \in Users |-> TotalBalanceOf(u)]

ImplementsPool == Pool!PoolSpec

\* Every withdrawal initiated can be executed in the end, whatever other users
\* and burns do in the meantime.
WithdrawalsComplete ==
    \A id \in 0..(MaxWithdrawals - 1) :
        id \in DOMAIN pendingWithdrawals ~> id \notin DOMAIN pendingWithdrawals

=============================================================================
