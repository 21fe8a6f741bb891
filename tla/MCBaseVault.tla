----------------------------- MODULE MCBaseVault ----------------------------
(* The instance of BaseVault that TLC checks. *)
EXTENDS BaseVault, TLC

MCAmounts == 0..MaxUnderlying

=============================================================================
