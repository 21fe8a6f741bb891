---------------------------- MODULE BackedSupply ----------------------------
(***************************************************************************)
(* What the protocol promises to whoever holds GYD, without orders, fees,  *)
(* initiatives or checkpoints: GYD comes into being against tokens that    *)
(* are worth it, tokens leave the reserve only for GYD whose face value    *)
(* they do not exceed, and GYD comes from nowhere only as far as the       *)
(* reserve covers it.  Motherboard implements this specification.          *)
(*                                                                         *)
(* A token counts for no more than its market price and for no more than   *)
(* par when it comes in, and for no less than either when it goes out.     *)
(***************************************************************************)
EXTENDS FixedPoint, Integers

VARIABLES
    held,     \* GYD of the holders, less the GYD of the bootstrapping
    pool,     \* GYD that the recovery module may burn
    tokens,   \* tokens of the reserve
    price     \* market price of a token

backedVars == <<held, pool, tokens, price>>

\* What is held falls below zero when GYD of the bootstrapping goes into the pool.
BackedTypeOK == held \in Int /\ pool \in Nat /\ tokens \in Nat /\ price \in Nat

Backed == held + pool <= tokens

BackedInit ==
    /\ BackedTypeOK
    /\ held >= 0 /\ pool = 0
    /\ Backed

\* The pool may be burned in every operation, and gets nothing back.
PoolBurns == pool' \in 0..pool

\* GYD for tokens.
Issue ==
    /\ held' >= held /\ tokens' >= tokens
    /\ held' - held <= tokens' - tokens
    /\ (held' - held) * ONE <= (tokens' - tokens) * price
    /\ PoolBurns
    /\ UNCHANGED price

\* Tokens for GYD.
Pay ==
    /\ held' <= held /\ tokens' \in 0..tokens
    /\ tokens - tokens' <= held - held'
    /\ (tokens - tokens') * price <= (held - held') * ONE
    /\ PoolBurns
    /\ UNCHANGED price

\* GYD for nothing, as far as the value of the reserve goes.
Reward ==
    /\ held' >= held
    /\ held' + pool <= tokens
    /\ (held' + pool) * ONE <= tokens * price
    /\ UNCHANGED <<pool, tokens, price>>

\* GYD into the pool or out of it.
Transfer ==
    /\ held' + pool' = held + pool
    /\ UNCHANGED <<tokens, price>>

PriceMove == UNCHANGED <<held, pool, tokens>>

BackedNext == BackedTypeOK' /\ (Issue \/ Pay \/ Reward \/ Transfer \/ PriceMove)

BackedSpec == BackedInit /\ [][BackedNext]_backedVars

=============================================================================
