------------------------------- MODULE E2ECalls -------------------------------
(***************************************************************************)
(* End-to-end protection of calls and events: client.py's call() and       *)
(* call_async(), which protect the request and check the response, and     *)
(* server.py's e2e_handler, publish_event and set_field, which protect     *)
(* what they send.  Each side has one E2EProtection for all its threads;   *)
(* handlers run on native threads.                                         *)
(***************************************************************************)
EXTENDS Integers, FiniteSets

CONSTANTS
    Calls,      \* calls of the client, each on a thread or task of its own
    Events,     \* calls of publish_event or set_field, likewise
    Size        \* see E2EProtection

VARIABLES
    call,       \* where each call stands on the client
    serve,      \* and on the server
    request,    \* the counter value in each request, or -1
    response,   \* the counter value in each response, or -1
    checked,    \* the counter its response was checked with, or -1
    publish,    \* where each event stands
    clean,      \* history: no call has failed or overlapped another, no event was begun
    cCounter, cHolds, cEnded, cBegan, cLog,     \* the client's E2EProtection
    sCounter, sHolds, sEnded, sBegan, sLog      \* the server's

ownVars == <<call, serve, request, response, checked, publish, clean>>
cVars == <<cCounter, cHolds, cEnded, cBegan, cLog>>
sVars == <<sCounter, sHolds, sEnded, sBegan, sLog>>
vars == <<ownVars, cVars, sVars>>

C == INSTANCE E2EProtection WITH Threads <- Calls, counter <- cCounter, holds <- cHolds,
         ended <- cEnded, began <- cBegan, log <- cLog

S == INSTANCE E2EProtection WITH Threads <- Calls \cup Events, counter <- sCounter,
         holds <- sHolds, ended <- sEnded, began <- sBegan, log <- sLog

ASSUME E2ECallsAssumption == C!E2EAssumption /\ Calls \cap Events = {}

Stamps == C!Values \cup {-1}

TypeOK ==
    /\ call \in [Calls -> {"new", "protecting", "waiting", "checked", "failed"}]
    /\ serve \in [Calls -> {"none", "requested", "handling", "answered", "raised"}]
    /\ request \in [Calls -> Stamps] /\ response \in [Calls -> Stamps]
    /\ checked \in [Calls -> Stamps]
    /\ publish \in [Events -> {"new", "protecting", "sent", "failed"}]
    /\ clean \in BOOLEAN
    /\ C!TypeOK /\ S!TypeOK

Init ==
    /\ call = [c \in Calls |-> "new"] /\ serve = [c \in Calls |-> "none"]
    /\ request = [c \in Calls |-> -1] /\ response = [c \in Calls |-> -1]
    /\ checked = [c \in Calls |-> -1]
    /\ publish = [e \in Events |-> "new"]
    /\ clean = TRUE
    /\ C!Init /\ S!Init

Busy == {c \in Calls : call[c] \in {"protecting", "waiting"}}

-----------------------------------------------------------------------------
(*                               The client                                 *)

CallBegin(c) ==
    /\ call[c] = "new"
    /\ C!ProtectBegin(c)
    /\ call' = [call EXCEPT ![c] = "protecting"]
    /\ clean' = (clean /\ Busy = {})
    /\ UNCHANGED <<serve, request, response, checked, publish, sVars>>

(* The protected request leaves, or the RPC client raises at once. *)
CallSend(c) ==
    /\ call[c] = "protecting"
    /\ C!ProtectEnd(c)
    /\ \/ /\ call' = [call EXCEPT ![c] = "waiting"]
          /\ serve' = [serve EXCEPT ![c] = "requested"]
          /\ request' = [request EXCEPT ![c] = cHolds[c]]
          /\ UNCHANGED clean
       \/ /\ call' = [call EXCEPT ![c] = "failed"]
          /\ clean' = FALSE
          /\ UNCHANGED <<serve, request>>
    /\ UNCHANGED <<response, checked, publish, sVars>>

(* The profile raises out of call(). *)
CallUnprotected(c) ==
    /\ call[c] = "protecting"
    /\ C!ProtectRaises(c)
    /\ call' = [call EXCEPT ![c] = "failed"]
    /\ clean' = FALSE
    /\ UNCHANGED <<serve, request, response, checked, publish, sVars>>

(* Variants named after what they get wrong stand before the definition they   *)
(* change; only the mutation runs use them.                                    *)
CallCheckOwn(c) ==
    /\ call[c] = "waiting" /\ serve[c] = "answered"
    /\ checked' = [checked EXCEPT ![c] = request[c]]
    /\ call' = [call EXCEPT ![c] = "checked"]
    /\ UNCHANGED <<serve, request, response, publish, clean, cVars, sVars>>

(* The profile decides on the response; whether E2EError follows is its affair. *)
CallCheck(c) ==
    /\ call[c] = "waiting" /\ serve[c] = "answered"
    /\ checked' = [checked EXCEPT ![c] = C!check]
    /\ call' = [call EXCEPT ![c] = "checked"]
    /\ UNCHANGED <<serve, request, response, publish, clean, cVars, sVars>>

(* A timeout, a cancellation or an error of the server; what the server does   *)
(* with the request goes on.                                                   *)
CallFails(c) ==
    /\ call[c] = "waiting"
    /\ call' = [call EXCEPT ![c] = "failed"]
    /\ clean' = FALSE
    /\ UNCHANGED <<serve, request, response, checked, publish, cVars, sVars>>

-----------------------------------------------------------------------------
(*                               The server                                 *)

(* e2e_handler: the original handler returns, then its payload is protected.   *)
HandlerBegin(c) ==
    /\ serve[c] = "requested"
    /\ S!ProtectBegin(c)
    /\ serve' = [serve EXCEPT ![c] = "handling"]
    /\ UNCHANGED <<call, request, response, checked, publish, clean, cVars>>

HandlerRaises(c) ==
    /\ serve[c] = "requested"
    /\ serve' = [serve EXCEPT ![c] = "raised"]
    /\ UNCHANGED <<call, request, response, checked, publish, clean, cVars, sVars>>

HandlerEnd(c) ==
    /\ serve[c] = "handling"
    /\ S!ProtectEnd(c)
    /\ serve' = [serve EXCEPT ![c] = "answered"]
    /\ response' = [response EXCEPT ![c] = sHolds[c]]
    /\ UNCHANGED <<call, request, checked, publish, clean, cVars>>

(* The profile raises out of the handler, as the original handler may. *)
HandlerUnprotected(c) ==
    /\ serve[c] = "handling"
    /\ S!ProtectRaises(c)
    /\ serve' = [serve EXCEPT ![c] = "raised"]
    /\ UNCHANGED <<call, request, response, checked, publish, clean, cVars>>

PublishBegin(e) ==
    /\ publish[e] = "new"
    /\ S!ProtectBegin(e)
    /\ publish' = [publish EXCEPT ![e] = "protecting"]
    /\ clean' = FALSE
    /\ UNCHANGED <<call, serve, request, response, checked, cVars>>

(* It has used its counter value up also when the publisher then refuses it.   *)
PublishEnd(e) ==
    /\ publish[e] = "protecting"
    /\ S!ProtectEnd(e)
    /\ publish' = [publish EXCEPT ![e] = "sent"]
    /\ UNCHANGED <<call, serve, request, response, checked, clean, cVars>>

PublishUnprotected(e) ==
    /\ publish[e] = "protecting"
    /\ S!ProtectRaises(e)
    /\ publish' = [publish EXCEPT ![e] = "failed"]
    /\ UNCHANGED <<call, serve, request, response, checked, clean, cVars>>

Next ==
    \/ \E c \in Calls : \/ CallBegin(c) \/ CallSend(c) \/ CallUnprotected(c)
                        \/ CallCheck(c) \/ CallFails(c)
                        \/ HandlerBegin(c) \/ HandlerRaises(c)
                        \/ HandlerEnd(c) \/ HandlerUnprotected(c)
    \/ \E e \in Events : PublishBegin(e) \/ PublishEnd(e) \/ PublishUnprotected(e)

Spec == Init /\ [][Next]_vars

-----------------------------------------------------------------------------
(*                                 Properties                               *)

(* See E2EProtection: on either side, over calls, handlers and events.         *)
DistinctCounters == C!DistinctCounters /\ S!DistinctCounters

(* As long as one call at a time has been made, none has failed and no event   *)
(* was published, every response carries the counter value of its request, and *)
(* is checked with the value after it: what a profile has to accept            *)
(* (client.py:217-227 with server.py:185-188).                                 *)
InStep ==
    clean => \A c \in Calls :
        /\ serve[c] = "answered" => response[c] = request[c]
        /\ call[c] = "checked" => checked[c] = (response[c] + 1) % Size

=============================================================================
