---------------------------- MODULE E2ECallsProofs ----------------------------
(***************************************************************************)
(* Proofs about E2ECalls for every number of calls and events and every    *)
(* size of the counter.  The invariants of the two E2EProtections are      *)
(* those of E2EProtectionProofs; what a call and the two counters have to  *)
(* do with each other is InStep's part.                                    *)
(***************************************************************************)
EXTENDS E2ECalls, TLAPS

CP == INSTANCE E2EProtectionProofs WITH Threads <- Calls, counter <- cCounter,
          holds <- cHolds, ended <- cEnded, began <- cBegan, log <- cLog

SP == INSTANCE E2EProtectionProofs WITH Threads <- Calls \cup Events, counter <- sCounter,
          holds <- sHolds, ended <- sEnded, began <- sBegan, log <- sLog

OwnTyped ==
    /\ call \in [Calls -> {"new", "protecting", "waiting", "checked", "failed"}]
    /\ serve \in [Calls -> {"none", "requested", "handling", "answered", "raised"}]
    /\ request \in [Calls -> Stamps] /\ response \in [Calls -> Stamps]
    /\ checked \in [Calls -> Stamps]
    /\ publish \in [Events -> {"new", "protecting", "sent", "failed"}]
    /\ clean \in BOOLEAN

(* Where the counters stand while one call at a time goes its way undisturbed. *)
Alone ==
    /\ \A e \in Events : publish[e] = "new"
    /\ \A c, d \in Calls : c \in Busy /\ d \in Busy => c = d
    /\ (\A c \in Calls : call[c] # "waiting") => sCounter = cCounter

AtCall(c) ==
    /\ call[c] = "new" => serve[c] = "none"
    /\ call[c] = "protecting" => serve[c] = "none" /\ cHolds[c] = cCounter
    /\ call[c] = "waiting" => serve[c] # "none" /\ cCounter = (request[c] + 1) % Size
    /\ call[c] = "checked" =>
          serve[c] = "answered" /\ checked[c] = (response[c] + 1) % Size
    /\ call[c] # "failed"

AtServer(c) ==
    /\ serve[c] \in {"requested", "handling", "raised"} =>
          call[c] = "waiting" /\ sCounter = request[c]
    /\ serve[c] = "handling" => sHolds[c] = request[c]
    /\ serve[c] = "answered" => response[c] = request[c]
    /\ serve[c] = "answered" /\ call[c] = "waiting" => sCounter = cCounter

Steady == clean => Alone /\ \A c \in Calls : AtCall(c) /\ AtServer(c)

Types == OwnTyped /\ CP!Inv /\ SP!Inv

-----------------------------------------------------------------------------
(*                         The two E2EProtections                           *)

LEMMA Assumed == CP!E2EAssumption /\ SP!E2EAssumption
BY E2ECallsAssumption DEF C!E2EAssumption, CP!E2EAssumption, SP!E2EAssumption

LEMMA ClientBegin ==
    ASSUME CP!Inv, NEW c \in Calls, C!ProtectBegin(c) PROVE CP!Inv'
<1>1. CP!ProtectBegin(c)
    BY DEF C!ProtectBegin, CP!ProtectBegin
<1> QED
    BY <1>1, Assumed, CP!InvBegin

LEMMA ClientEnd ==
    ASSUME CP!Inv, NEW c \in Calls, C!ProtectEnd(c) PROVE CP!Inv'
<1>1. CP!ProtectEnd(c)
    BY DEF C!ProtectEnd, CP!ProtectEnd, C!Logged, CP!Logged
<1> QED
    BY <1>1, Assumed, CP!InvEnd

LEMMA ServerBegin ==
    ASSUME SP!Inv, NEW t \in Calls \cup Events, S!ProtectBegin(t) PROVE SP!Inv'
<1>1. SP!ProtectBegin(t)
    BY DEF S!ProtectBegin, SP!ProtectBegin
<1> QED
    BY <1>1, Assumed, SP!InvBegin

LEMMA ServerEnd ==
    ASSUME SP!Inv, NEW t \in Calls \cup Events, S!ProtectEnd(t) PROVE SP!Inv'
<1>1. SP!ProtectEnd(t)
    BY DEF S!ProtectEnd, SP!ProtectEnd, S!Logged, SP!Logged
<1> QED
    BY <1>1, Assumed, SP!InvEnd

LEMMA ClientRaises ==
    ASSUME CP!Inv, NEW c \in Calls, C!ProtectRaises(c) PROVE CP!Inv'
<1>1. CP!ProtectRaises(c)
    BY DEF C!ProtectRaises, CP!ProtectRaises
<1> QED
    BY <1>1, CP!InvRaises

LEMMA ServerRaises ==
    ASSUME SP!Inv, NEW t \in Calls \cup Events, S!ProtectRaises(t) PROVE SP!Inv'
<1>1. SP!ProtectRaises(t)
    BY DEF S!ProtectRaises, SP!ProtectRaises
<1> QED
    BY <1>1, SP!InvRaises

LEMMA ClientRests == ASSUME CP!Inv, UNCHANGED cVars PROVE CP!Inv'
<1>1. UNCHANGED CP!vars
    BY DEF cVars, CP!vars
<1> QED
    BY <1>1, CP!InvStutter

LEMMA ServerRests == ASSUME SP!Inv, UNCHANGED sVars PROVE SP!Inv'
<1>1. UNCHANGED SP!vars
    BY DEF sVars, SP!vars
<1> QED
    BY <1>1, SP!InvStutter

-----------------------------------------------------------------------------
(*                               Every step                                 *)

IInv == Types /\ Steady

LEMMA InitInv == Init => IInv
<1> SUFFICES ASSUME Init PROVE IInv
    OBVIOUS
<1>1. CP!Init /\ SP!Init
    BY DEF Init, C!Init, CP!Init, S!Init, SP!Init
<1>2. CP!Inv /\ SP!Inv
    BY <1>1, Assumed, CP!InvInit, SP!InvInit
<1>3. OwnTyped
    BY DEF Init, OwnTyped, Stamps
<1>4. Steady
    BY DEF Init, Steady, Alone, AtCall, AtServer, Busy, C!Init, S!Init
<1> QED
    BY <1>2, <1>3, <1>4 DEF IInv, Types

(* What the steps read of the two E2EProtections.                              *)
LEMMA Held ==
    ASSUME Types
    PROVE  /\ cCounter \in C!Values /\ sCounter \in C!Values
           /\ cHolds \in [Calls -> Stamps] /\ sHolds \in [Calls \cup Events -> Stamps]
BY DEF Types, CP!Inv, CP!TypeOK, SP!Inv, SP!TypeOK, C!Values, CP!Values, SP!Values, Stamps

LEMMA StepTyped == ASSUME Types, [Next]_vars PROVE Types'
<1>0. /\ OwnTyped /\ CP!Inv /\ SP!Inv
      /\ cCounter \in C!Values
      /\ cHolds \in [Calls -> Stamps] /\ sHolds \in [Calls \cup Events -> Stamps]
    BY Held DEF Types
<1>1. C!Values \subseteq Stamps
    BY DEF Stamps
<1>2. ASSUME NEW c \in Calls, CallBegin(c) PROVE Types'
    BY <1>0, <1>2, ClientBegin, ServerRests DEF CallBegin, Types, OwnTyped
<1>3. ASSUME NEW c \in Calls, CallSend(c) PROVE Types'
    BY <1>0, <1>3, ClientEnd, ServerRests DEF CallSend, Types, OwnTyped
<1>4. ASSUME NEW c \in Calls, CallCheck(c) PROVE Types'
    BY <1>0, <1>1, <1>4, ClientRests, ServerRests DEF CallCheck, C!check, Types, OwnTyped
<1>5. ASSUME NEW c \in Calls, CallFails(c) PROVE Types'
    BY <1>0, <1>5, ClientRests, ServerRests DEF CallFails, Types, OwnTyped
<1>6. ASSUME NEW c \in Calls, HandlerBegin(c) PROVE Types'
    BY <1>0, <1>6, ServerBegin, ClientRests DEF HandlerBegin, Types, OwnTyped
<1>7. ASSUME NEW c \in Calls, HandlerRaises(c) PROVE Types'
    BY <1>0, <1>7, ClientRests, ServerRests DEF HandlerRaises, Types, OwnTyped
<1>8. ASSUME NEW c \in Calls, HandlerEnd(c) PROVE Types'
    BY <1>0, <1>8, ServerEnd, ClientRests DEF HandlerEnd, Types, OwnTyped
<1>9. ASSUME NEW e \in Events, PublishBegin(e) PROVE Types'
    BY <1>0, <1>9, ServerBegin, ClientRests DEF PublishBegin, Types, OwnTyped
<1>10. ASSUME NEW e \in Events, PublishEnd(e) PROVE Types'
    BY <1>0, <1>10, ServerEnd, ClientRests DEF PublishEnd, Types, OwnTyped
<1>11. ASSUME NEW c \in Calls, CallUnprotected(c) PROVE Types'
    BY <1>0, <1>11, ClientRaises, ServerRests DEF CallUnprotected, Types, OwnTyped
<1>12. ASSUME NEW c \in Calls, HandlerUnprotected(c) PROVE Types'
    BY <1>0, <1>12, ServerRaises, ClientRests DEF HandlerUnprotected, Types, OwnTyped
<1>13. ASSUME NEW e \in Events, PublishUnprotected(e) PROVE Types'
    BY <1>0, <1>13, ServerRaises, ClientRests DEF PublishUnprotected, Types, OwnTyped
<1>14. ASSUME UNCHANGED vars PROVE Types'
    BY <1>0, <1>14, ClientRests, ServerRests DEF vars, ownVars, Types, OwnTyped
<1> QED
    BY <1>2, <1>3, <1>4, <1>5, <1>6, <1>7, <1>8, <1>9, <1>10, <1>11, <1>12,
       <1>13, <1>14 DEF Next

LEMMA StepSteady == ASSUME Types, Types', Steady, [Next]_vars PROVE Steady'
<1> USE DEF Steady, Alone, AtCall, AtServer, Busy
<1>0. /\ OwnTyped
      /\ cHolds \in [Calls -> Stamps] /\ sHolds \in [Calls \cup Events -> Stamps]
    BY Held DEF Types
<1>2. ASSUME NEW c \in Calls, CallBegin(c) PROVE Steady'
    BY <1>0, <1>2 DEF CallBegin, OwnTyped, C!ProtectBegin, sVars
<1>3. ASSUME NEW c \in Calls, CallSend(c) PROVE Steady'
    <2> SUFFICES ASSUME clean' PROVE Steady'
        OBVIOUS
    <2>1. /\ clean /\ call[c] = "protecting"
          /\ call' = [call EXCEPT ![c] = "waiting"]
          /\ serve' = [serve EXCEPT ![c] = "requested"]
          /\ request' = [request EXCEPT ![c] = cHolds[c]]
          /\ UNCHANGED <<response, checked, publish, sCounter, sHolds>>
        BY <1>3 DEF CallSend, sVars
    <2>2. cCounter' = (cCounter + 1) % Size
        BY <1>3 DEF CallSend, C!ProtectEnd
    <2>3. cHolds[c] = cCounter /\ sCounter = cCounter
        BY <1>0, <2>1 DEF OwnTyped
    <2>4. \A d \in Calls \ {c} : call[d] \notin {"protecting", "waiting"}
        BY <2>1
    <2>5. ASSUME NEW d \in Calls PROVE AtCall(d)' /\ AtServer(d)'
        BY <1>0, <2>1, <2>2, <2>3, <2>4, <2>5 DEF OwnTyped
    <2>6. Alone'
        BY <1>0, <2>1, <2>4 DEF OwnTyped
    <2> QED
        BY <2>5, <2>6
<1>4. ASSUME NEW c \in Calls, CallCheck(c) PROVE Steady'
    BY <1>0, <1>4 DEF CallCheck, C!check, OwnTyped, cVars, sVars
<1>5. ASSUME NEW c \in Calls, CallFails(c) PROVE Steady'
    BY <1>5 DEF CallFails
<1>6. ASSUME NEW c \in Calls, HandlerBegin(c) PROVE Steady'
    BY <1>0, <1>6 DEF HandlerBegin, OwnTyped, S!ProtectBegin, cVars
<1>7. ASSUME NEW c \in Calls, HandlerRaises(c) PROVE Steady'
    BY <1>0, <1>7 DEF HandlerRaises, OwnTyped, cVars, sVars
<1>8. ASSUME NEW c \in Calls, HandlerEnd(c) PROVE Steady'
    BY <1>0, <1>8 DEF HandlerEnd, OwnTyped, S!ProtectEnd, cVars
<1>9. ASSUME NEW e \in Events, PublishBegin(e) PROVE Steady'
    BY <1>9 DEF PublishBegin
<1>10. ASSUME NEW e \in Events, PublishEnd(e) PROVE Steady'
    BY <1>0, <1>10 DEF PublishEnd
<1>11. ASSUME NEW c \in Calls, CallUnprotected(c) PROVE Steady'
    BY <1>11 DEF CallUnprotected
<1>12. ASSUME NEW c \in Calls, HandlerUnprotected(c) PROVE Steady'
    BY <1>0, <1>12 DEF HandlerUnprotected, OwnTyped, S!ProtectRaises, cVars
<1>13. ASSUME NEW e \in Events, PublishUnprotected(e) PROVE Steady'
    BY <1>0, <1>13 DEF PublishUnprotected
<1>14. ASSUME UNCHANGED vars PROVE Steady'
    BY <1>14 DEF vars, ownVars, cVars, sVars
<1> QED
    BY <1>2, <1>3, <1>4, <1>5, <1>6, <1>7, <1>8, <1>9, <1>10, <1>11, <1>12,
       <1>13, <1>14 DEF Next

LEMMA Invariant == Spec => []IInv
<1>1. Init => IInv
    BY InitInv
<1>2. IInv /\ [Next]_vars => IInv'
    BY StepTyped, StepSteady DEF IInv
<1> QED
    BY <1>1, <1>2, PTL DEF Spec

-----------------------------------------------------------------------------
(*                              The theorems                                *)

(* Every counter keeps within its range, whatever overlaps (e2e.py:95).        *)
THEOREM TypeCorrect == Spec => []TypeOK
<1>1. IInv => TypeOK
    BY DEF IInv, Types, OwnTyped, TypeOK, CP!Inv, CP!TypeOK, SP!Inv, SP!TypeOK,
           C!TypeOK, S!TypeOK, C!Values, CP!Values, S!Values, SP!Values,
           C!Entry, CP!Entry, S!Entry, SP!Entry
<1> QED
    BY <1>1, Invariant, PTL

(* Two payloads one side protects carry the same counter value only if their   *)
(* calls of protect() overlapped or a round of the counter lies between them   *)
(* (e2e.py:88-96).                                                             *)
THEOREM CountersDistinct == Spec => []DistinctCounters
<1>1. IInv => CP!DistinctCounters /\ SP!DistinctCounters
    BY Assumed, CP!InvDistinct, SP!InvDistinct DEF IInv, Types
<1>2. CP!DistinctCounters /\ SP!DistinctCounters => DistinctCounters
    BY DEF DistinctCounters, CP!DistinctCounters, SP!DistinctCounters,
           C!DistinctCounters, S!DistinctCounters
<1> QED
    BY <1>1, <1>2, Invariant, PTL

(* While one call at a time is made and none fails, the response is checked    *)
(* with the value after the one that request and response carry                *)
(* (client.py:217-227, server.py:185-188).                                     *)
THEOREM CountersInStep == Spec => []InStep
<1>1. IInv => InStep
    BY DEF IInv, Types, OwnTyped, Steady, AtCall, AtServer, InStep
<1> QED
    BY <1>1, Invariant, PTL

=============================================================================
