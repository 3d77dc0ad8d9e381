--------------------------- MODULE DeliveryChannel ---------------------------
(***************************************************************************)
(* What a MessageReceiver promises to the code that iterates over it, with *)
(* no threads, queues or sentinels in sight.                               *)
(*                                                                         *)
(* A message is a pair <<producer, n>>: the n-th call of put() by that     *)
(* producer.  A call that starts while the channel is open is "in flight"  *)
(* until the channel takes or refuses it, which may happen after the       *)
(* channel is closed.  Readers share the messages: each one goes to at     *)
(* most one reader, and the messages of one producer leave in the order of *)
(* its calls.  A reader's iteration ends only after the channel is closed. *)
(***************************************************************************)
EXTENDS Naturals

CONSTANTS Producers,  \* the threads that call put()
          Readers     \* the iterations over the receiver

VARIABLES open,       \* close() has not been called
          sent,       \* sent[p]: how many times p has called put()
          inflight,   \* messages whose put() has passed the "closed" test
          queued,     \* messages taken and not yet delivered
          delivered,  \* messages returned to a reader
          ended       \* readers whose iteration is over

vars == <<open, sent, inflight, queued, delivered, ended>>

Init ==
    /\ open = TRUE
    /\ sent = [p \in Producers |-> 0]
    /\ inflight = {}
    /\ queued = {}
    /\ delivered = {}
    /\ ended = {}

(* A producer calls put(); once the channel is closed the call has no effect. *)
Begin(p) ==
    /\ \A m \in inflight : m[1] # p
    /\ sent' = [sent EXCEPT ![p] = @ + 1]
    /\ inflight' = IF open THEN inflight \cup {<<p, sent[p] + 1>>} ELSE inflight
    /\ UNCHANGED <<open, queued, delivered, ended>>

(* The channel takes a message in flight ... *)
Accept(m) ==
    /\ m \in inflight
    /\ inflight' = inflight \ {m}
    /\ queued' = queued \cup {m}
    /\ UNCHANGED <<open, sent, delivered, ended>>

(* ... or refuses it, when the receiver is bounded and full. *)
Refuse(m) ==
    /\ m \in inflight
    /\ inflight' = inflight \ {m}
    /\ UNCHANGED <<open, sent, queued, delivered, ended>>

(* A reader that has not ended receives the oldest message of some producer. *)
Deliver(r, m) ==
    /\ r \notin ended
    /\ m \in queued
    /\ \A k \in queued : k[1] = m[1] => m[2] <= k[2]
    /\ queued' = queued \ {m}
    /\ delivered' = delivered \cup {m}
    /\ UNCHANGED <<open, sent, inflight, ended>>

Close ==
    /\ open' = FALSE
    /\ UNCHANGED <<sent, inflight, queued, delivered, ended>>

End(r) ==
    /\ ~open
    /\ ended' = ended \cup {r}
    /\ UNCHANGED <<open, sent, inflight, queued, delivered>>

Next ==
    \/ \E p \in Producers : Begin(p)
    \/ \E m \in inflight : Accept(m) \/ Refuse(m)
    \/ \E r \in Readers, m \in queued : Deliver(r, m)
    \/ Close
    \/ \E r \in Readers : End(r)

Spec == Init /\ [][Next]_vars
==============================================================================
