----------------------------- MODULE MCTpManager -----------------------------
(***************************************************************************)
(* Instances of TpManager for TLC.                                         *)
(***************************************************************************)
EXTENDS TpManager

=============================================================================
