-------------------------- MODULE MCVaultSafetyMode -------------------------
(* The instances of VaultSafetyMode that TLC checks. *)
EXTENDS VaultSafetyMode, TLC

CONSTANTS v1, v2

=============================================================================
