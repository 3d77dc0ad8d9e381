----------------------------- MODULE TcpTransport -----------------------------
(***************************************************************************)
(* transport.py's TcpTransport: the connection it keeps on top of what     *)
(* Transport does, and the flag _connected that stands for it.  Every      *)
(* exception of the native connect and disconnect is swallowed, what they  *)
(* return is not looked at, and the listener ignores a lost connection.    *)
(***************************************************************************)
EXTENDS Naturals

CONSTANTS
    Remote,         \* a remote endpoint is configured
    MaxMessages     \* see Transport

(* What the module that composes this one has to assume of the constants. *)
TcpAssumption == Remote \in BOOLEAN /\ MaxMessages \in Nat

VARIABLES
    running, native, stopping, closed, peer, raised, error,   \* see Transport
    connected,  \* _connected
    link,       \* the native connection is up
    broken,     \* history: since the last connect that brought it up, a connect has
                \*          failed or the connection has been lost
    kept        \* history: a native disconnect failed

baseVars == <<running, native, stopping, closed, peer, raised, error>>
linkVars == <<connected, link, broken, kept>>
vars == <<baseVars, linkVars>>

Base == INSTANCE Transport WITH Group <- FALSE

TypeOK ==
    /\ Base!TypeOK
    /\ connected \in BOOLEAN /\ link \in BOOLEAN
    /\ broken \in BOOLEAN /\ kept \in BOOLEAN

Init ==
    /\ Base!Init
    /\ connected = FALSE /\ link = FALSE
    /\ broken = FALSE /\ kept = FALSE

(* The native connect brings the connection up or not: connect() cannot tell.  *)
Dial ==
    /\ connected' = TRUE
    /\ \/ link' = TRUE /\ broken' = FALSE
       \/ broken' = TRUE /\ UNCHANGED link
    /\ UNCHANGED kept

(* It does not ask whether the transport runs. *)
Connect ==
    /\ stopping = "no"
    /\ \/ Remote /\ Dial /\ error' = "none"
       \/ ~Remote /\ error' = "TransportError" /\ UNCHANGED linkVars
    /\ UNCHANGED <<running, native, stopping, closed, peer, raised>>

(* Dials again when the transport runs already. *)
Start ==
    /\ Base!Start
    /\ IF Remote /\ error' = "none" THEN Dial ELSE UNCHANGED linkVars

(* Variants named after what they get wrong stand before the definition they   *)
(* change; only the mutation runs use them.                                    *)
HangUpForgotten ==
    /\ connected' = FALSE
    /\ UNCHANGED <<link, broken, kept>>

HangUp ==
    /\ connected' = FALSE
    /\ \/ connected /\ link' = FALSE /\ UNCHANGED kept
       \/ connected /\ kept' = TRUE /\ UNCHANGED link
       \/ ~connected /\ UNCHANGED <<link, kept>>
    /\ UNCHANGED broken

(* Hangs up also when the transport does not run. *)
StopBegin == Base!StopBegin /\ HangUp

(* Whether the native stop ends a connection is its own affair. *)
StopNative ==
    /\ Base!StopNative
    /\ link' \in {link, FALSE} /\ broken' = (broken \/ link # link')
    /\ UNCHANGED <<connected, kept>>

StopClose == Base!StopClose /\ UNCHANGED linkVars

(* on_connection_lost does nothing. *)
ConnectionLost ==
    /\ link
    /\ link' = FALSE /\ broken' = TRUE
    /\ UNCHANGED <<baseVars, connected, kept>>

Next == Start \/ Connect \/ StopBegin \/ StopNative \/ StopClose \/ ConnectionLost

Spec == Init /\ [][Next]_vars

(* No native connection is ever up behind a transport that says it is not      *)
(* connected, through connect() before start(), repeated starts and failed     *)
(* stops, unless a native disconnect failed; and it says it is connected       *)
(* without a connection only after a connect that failed or a connection that  *)
(* was lost since (lines 64-65 and 255-285).                                   *)
LinkMirrored ==
    /\ link => connected \/ kept
    /\ connected => link \/ broken

=============================================================================
