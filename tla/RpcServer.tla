------------------------------ MODULE RpcServer ------------------------------
(***************************************************************************)
(* rpc.py's RpcServer: its lifecycle and the receivers incoming_requests() *)
(* hands out, one per call, of which the server remembers the last for     *)
(* each method.  What the native server does of start() and stop(), or     *)
(* fails to do, leaves no trace in Python.                                 *)
(***************************************************************************)
EXTENDS Naturals, FiniteSets

CONSTANTS
    Methods,        \* method ids
    MaxReceivers    \* bound on the calls of incoming_requests()

(* What the module that composes this one has to assume of the constants. *)
RpcServerAssumption == MaxReceivers \in Nat

Receivers == 1..MaxReceivers

VARIABLES
    running,    \* _running
    handlers,   \* keys of _handlers and _async_handlers
    requests,   \* _request_receivers: the receiver of each method, or 0
    made,       \* receivers handed out so far
    open,       \* receivers that are not closed
    replaced    \* history: receivers whose place another one took

vars == <<running, handlers, requests, made, open, replaced>>

TypeOK ==
    /\ running \in BOOLEAN
    /\ handlers \subseteq Methods
    /\ requests \in [Methods -> 0..MaxReceivers]
    /\ made \in 0..MaxReceivers
    /\ open \subseteq Receivers /\ replaced \subseteq Receivers

Init ==
    /\ running = FALSE
    /\ handlers = {}
    /\ requests = [m \in Methods |-> 0]
    /\ made = 0
    /\ open = {} /\ replaced = {}

Start ==
    /\ running' = TRUE
    /\ UNCHANGED <<handlers, requests, made, open, replaced>>

(* Variants named after what they get wrong stand before the definition they   *)
(* change; only the mutation runs use them.                                    *)
StopForgetsFirst ==
    /\ running' = FALSE
    /\ requests' = [m \in Methods |-> 0]
    /\ UNCHANGED <<handlers, made, open, replaced>>

(* Handlers stay registered. *)
Stop ==
    /\ running' = FALSE
    /\ open' = open \ {requests[m] : m \in Methods}
    /\ requests' = [m \in Methods |-> 0]
    /\ UNCHANGED <<handlers, made, replaced>>

RegisterHandler(m) ==
    /\ handlers' = handlers \cup {m}
    /\ UNCHANGED <<running, requests, made, open, replaced>>

IncomingRequests(m) ==
    /\ made < MaxReceivers
    /\ made' = made + 1
    /\ open' = open \cup {made'}
    /\ replaced' = replaced \cup ({requests[m]} \ {0})
    /\ requests' = [requests EXCEPT ![m] = made']
    /\ UNCHANGED <<running, handlers>>

Next == Start \/ Stop \/ \E m \in Methods : RegisterHandler(m) \/ IncomingRequests(m)

Spec == Init /\ [][Next]_vars

(* Every receiver whose readers could still be waiting is one that the next    *)
(* stop() will close, or one that a second call for its method replaced        *)
(* (lines 252-254 and 283-284).                                                *)
OpenAreTracked ==
    \A r \in open : r \in replaced \/ \E m \in Methods : requests[m] = r

=============================================================================
