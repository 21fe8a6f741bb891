------------------------- MODULE MCLiquidityMining --------------------------
(* The instance of LiquidityMining that TLC checks. *)
EXTENDS LiquidityMining, TLC

CONSTANTS u1, u2

UserSymmetry == Permutations({u1, u2})

=============================================================================
