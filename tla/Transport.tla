------------------------------ MODULE Transport ------------------------------
(***************************************************************************)
(* transport.py's Transport and UdpTransport: starting and stopping the    *)
(* native transport, sending through it, and what its listener puts into   *)
(* the receiver (which MessageReceiver models; here it is open or closed). *)
(*                                                                         *)
(* One thread calls start() and stop() (docs/guides/transport.rst:64); the *)
(* native stop releases the GIL, so send() calls and the native listener   *)
(* run between the steps of stop().                                        *)
(***************************************************************************)
EXTENDS Naturals

CONSTANTS
    Group,          \* a multicast group is configured
    MaxMessages     \* bound on the messages the peer sends

(* What the module that composes this one has to assume of the constants. *)
TransportAssumption ==
    /\ Group \in BOOLEAN
    /\ MaxMessages \in Nat

VARIABLES
    running,    \* _running
    native,     \* the native transport is started
    stopping,   \* stop() is in the native call or before the receiver's close
    closed,     \* the receiver is closed
    peer,       \* messages the peer has sent
    raised,     \* history: the native stop has raised
    error       \* how the last start() or stop() ended

vars == <<running, native, stopping, closed, peer, raised, error>>

Errors == {"none", "TransportError", "NotJoined", "NotStopped"}

TypeOK ==
    /\ running \in BOOLEAN /\ native \in BOOLEAN
    /\ stopping \in {"no", "native", "close"}
    /\ closed \in BOOLEAN
    /\ peer \in 0..MaxMessages
    /\ raised \in BOOLEAN
    /\ error \in Errors

Init ==
    /\ running = FALSE /\ native = FALSE
    /\ stopping = "no"
    /\ closed = FALSE
    /\ peer = 0
    /\ raised = FALSE
    /\ error = "none"

(* Joining is attempted at every start(), with an exception of its own.        *)
Join == error' \in IF Group THEN {"none", "NotJoined"} ELSE {"none"}

(* The native start succeeds, reports an error, or raises; an exception counts *)
(* as a start.                                                                 *)
Start ==
    /\ stopping = "no"
    /\ \/ running /\ Join /\ UNCHANGED <<running, native>>
       \/ ~running /\ native' = TRUE /\ running' = TRUE /\ Join
       \/ ~running /\ error' = "TransportError" /\ UNCHANGED <<running, native>>
       \/ ~running /\ running' = TRUE /\ Join /\ UNCHANGED native
    /\ UNCHANGED <<stopping, closed, peer, raised>>

StopBegin ==
    /\ stopping = "no"
    /\ running' = FALSE
    /\ stopping' = IF running THEN "native" ELSE "no"
    /\ error' = "none"
    /\ UNCHANGED <<native, closed, peer, raised>>

(* Variants named after what they get wrong stand before the definition they   *)
(* change; only the mutation runs use them.                                    *)
StopSkipsNative ==
    /\ stopping = "native"
    /\ stopping' = "close"
    /\ UNCHANGED <<running, native, closed, peer, raised, error>>

(* The native stop returns, or raises out of stop(). *)
StopNative ==
    /\ stopping = "native"
    /\ \/ native' = FALSE /\ stopping' = "close" /\ UNCHANGED <<raised, error>>
       \/ stopping' = "no" /\ raised' = TRUE /\ error' = "NotStopped" /\ UNCHANGED native
    /\ UNCHANGED <<running, closed, peer>>

StopLeavesOpen ==
    /\ stopping = "close"
    /\ stopping' = "no"
    /\ UNCHANGED <<running, native, closed, peer, raised, error>>

StopClose ==
    /\ stopping = "close"
    /\ stopping' = "no"
    /\ closed' = TRUE
    /\ UNCHANGED <<running, native, peer, raised, error>>

(* A native thread runs on_message_received; a closed receiver drops.          *)
Receive ==
    /\ native /\ peer < MaxMessages
    /\ peer' = peer + 1
    /\ UNCHANGED <<running, native, stopping, closed, raised, error>>

Next == Start \/ StopBegin \/ StopNative \/ StopClose \/ Receive

Spec == Init /\ [][Next]_vars

=============================================================================
