---------------------------- MODULE RecoveryPool ----------------------------
(***************************************************************************)
(* What the recovery module promises its providers, without adjusted       *)
(* amounts, burn ids or checkpoints: a pool of GYD and, for every user, a  *)
(* claim on it.  GydRecovery implements this specification.                *)
(***************************************************************************)
EXTENDS Integers, FiniteSetsExt

CONSTANTS Users, Amounts

VARIABLES wallet, pool, claim

poolVars == <<wallet, pool, claim>>

\* The claims in the next state of everybody but u are those of this state.
OthersKeepClaims(u) == \A v \in Users \ {u} : claim'[v] = claim[v]

Covered == SumFunction(claim) <= pool

PoolInit ==
    /\ wallet \in [Users -> Nat]
    /\ pool = 0
    /\ claim = [u \in Users |-> 0]

\* The beneficiary gets what was paid in, but for one unit of rounding.
PayIn(u, beneficiary, amount) ==
    /\ amount <= wallet[u]
    /\ wallet' = [wallet EXCEPT ![u] = @ - amount]
    /\ pool' = pool + amount
    /\ claim'[beneficiary] \in {claim[beneficiary] + amount, claim[beneficiary] + amount - 1}
    /\ claim'[beneficiary] >= claim[beneficiary]
    /\ OthersKeepClaims(beneficiary)

Gift(u, amount) ==
    /\ amount <= wallet[u]
    /\ wallet' = [wallet EXCEPT ![u] = @ - amount]
    /\ pool' = pool + amount
    /\ UNCHANGED claim

\* A user is paid at most the claim, which shrinks by what is paid, and by one
\* unit more at most.
PayOut(u, amount) ==
    /\ amount <= claim[u]
    /\ wallet' = [wallet EXCEPT ![u] = @ + amount]
    /\ pool' = pool - amount
    /\ claim'[u] \in {claim[u] - amount, claim[u] - amount - 1}
    /\ claim'[u] >= 0
    /\ OthersKeepClaims(u)

\* A burn costs every claim its share of the pool, the same for all users, and
\* leaves the claims covered.
Burn(amount) ==
    /\ amount <= pool
    /\ pool' = pool - amount
    /\ \A u \in Users : claim'[u] * pool <= (claim[u] + 1) * pool'
    /\ \A u \in Users : claim'[u] <= claim[u]
    /\ Covered'
    /\ UNCHANGED wallet

PoolNext ==
    \/ \E u \in Users, amount \in Amounts :
        \/ Gift(u, amount)
        \/ PayOut(u, amount)
        \/ \E beneficiary \in Users : PayIn(u, beneficiary, amount)
    \/ \E amount \in Amounts : Burn(amount)

PoolSpec == PoolInit /\ [][PoolNext]_poolVars

=============================================================================
