-------------------------- MODULE MCMessageReceiver --------------------------
(***************************************************************************)
(* Instances of MessageReceiver for TLC.                                   *)
(***************************************************************************)
EXTENDS MessageReceiver

(* The behaviours in which calls of put() and close() do not overlap, as when *)
(* one thread makes them all.                                                 *)
OneCaller == \A v, w \in Writers : pc[v] # "idle" /\ pc[w] # "idle" => v = w

OneCallerSpec == Init /\ [][Next /\ OneCaller']_vars /\ Fairness
=============================================================================
