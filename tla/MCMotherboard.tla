--------------------------- MODULE MCMotherboard ----------------------------
(* The instances of Motherboard that TLC checks. *)
EXTENDS Motherboard, TLC

=============================================================================
