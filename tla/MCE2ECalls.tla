------------------------------ MODULE MCE2ECalls ------------------------------
(***************************************************************************)
(* Instances of E2ECalls for TLC.                                          *)
(***************************************************************************)
EXTENDS E2ECalls, TLC

CONSTANTS c1, c2, c3

CallSymmetry == Permutations({c1, c2, c3})
=============================================================================
