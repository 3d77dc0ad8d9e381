------------------------------ MODULE RpcExchange ------------------------------
(***************************************************************************)
(* What call_async() promises to the code that awaits it, with no futures, *)
(* sessions, timers or stop() in sight: a call that cannot be asked fails, *)
(* one that was asked ends once, and with a response only if the peer has  *)
(* answered that very call.  An answer may come at any time after the      *)
(* question, also when nobody waits for it any more.                       *)
(***************************************************************************)
CONSTANT Calls

VARIABLES
    stage,      \* of each call: "new", "asked" or "ended"
    answered,   \* calls the peer has answered
    outcome     \* how each call ended

vars == <<stage, answered, outcome>>

Init ==
    /\ stage = [c \in Calls |-> "new"]
    /\ answered = {}
    /\ outcome = [c \in Calls |-> "none"]

Ends(c, how) ==
    /\ stage' = [stage EXCEPT ![c] = "ended"]
    /\ outcome' = [outcome EXCEPT ![c] = how]
    /\ UNCHANGED answered

Fail(c) == stage[c] = "new" /\ Ends(c, "error")

Ask(c) ==
    /\ stage[c] = "new"
    /\ stage' = [stage EXCEPT ![c] = "asked"]
    /\ UNCHANGED <<answered, outcome>>

Answer(c) ==
    /\ stage[c] # "new" /\ c \notin answered
    /\ answered' = answered \cup {c}
    /\ UNCHANGED <<stage, outcome>>

Respond(c) == stage[c] = "asked" /\ c \in answered /\ Ends(c, "response")

GiveUp(c) == stage[c] = "asked" /\ \E how \in {"timeout", "cancelled"} : Ends(c, how)

Next == \E c \in Calls : Fail(c) \/ Ask(c) \/ Answer(c) \/ Respond(c) \/ GiveUp(c)

Spec == Init /\ [][Next]_vars

=============================================================================
