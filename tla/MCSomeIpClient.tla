---------------------------- MODULE MCSomeIpClient ----------------------------
(***************************************************************************)
(* Instances of SomeIpClient for TLC.                                      *)
(***************************************************************************)
EXTENDS SomeIpClient

CONSTANTS i1, i2, s1, s2

(* Two services, one instance each. *)
OneEach == [i \in {i1, i2} |-> IF i = i1 THEN s1 ELSE s2]
=============================================================================
