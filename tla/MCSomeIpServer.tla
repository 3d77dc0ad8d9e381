---------------------------- MODULE MCSomeIpServer ----------------------------
(***************************************************************************)
(* Instances of SomeIpServer for TLC.                                      *)
(***************************************************************************)
EXTENDS SomeIpServer

CONSTANTS i1, i2, k1

(* Two versions of one service: they share their pair. *)
OnePair == [i \in {i1, i2} |-> k1]
=============================================================================
