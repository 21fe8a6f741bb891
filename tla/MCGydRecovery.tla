--------------------------- MODULE MCGydRecovery ----------------------------
(* The instances of GydRecovery that TLC checks. *)
EXTENDS GydRecovery, TLC

CONSTANTS u1, u2

UserSymmetry == Permutations({u1, u2})

=============================================================================
