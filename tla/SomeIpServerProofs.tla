-------------------------- MODULE SomeIpServerProofs --------------------------
(***************************************************************************)
(* Proofs about SomeIpServer for every set of services, events, methods    *)
(* and threads and every number of starts and stops.  Whatever the server  *)
(* does is, for each of its components, a step of that component or none;  *)
(* so a component's invariant is proved from its own actions.              *)
(***************************************************************************)
EXTENDS SomeIpServer, TLAPS

LEMMA Assumed ==
    /\ Services \subseteq Instances /\ WithTp \in BOOLEAN
    /\ MaxStarts \in Nat /\ MaxStops \in Nat /\ MaxManaged \in Nat
    /\ MaxMessages \in Nat /\ MaxReceivers \in Nat
    /\ Key \in [Instances -> Keys] /\ NoEvent \notin Events
BY ServerAssumption DEF T!TransportAssumption, S!SdAssumption, R!RpcServerAssumption,
   E!PublisherAssumption

-----------------------------------------------------------------------------
(*                  A step of the server in its components                  *)

USE DEF Free, Goto, lifeVars, ownVars, tpVars, tVars, sVars, rVars, eVars, vars, Managed

LEMMA TransportMoves == [Next]_vars => [T!Next]_tVars
BY DEF Next, Lifecycle, StartTransport, StartSd, StartRpc, StartEvents, StartTp, StartOffer,
   StartEnd, StopBegin, Withdraw, StopTp, StopEvents, StopRpc, StopSd, StopTransport,
   ManageOffers, ManageRpc, ManageEvents, Publish, Listener, T!Next

LEMMA SdMoves == [Next]_vars => [S!Next]_sVars
BY Assumed DEF Next, Lifecycle, StartTransport, StartSd, StartRpc, StartEvents, StartTp,
   StartOffer, StartEnd, StopBegin, Withdraw, StopTp, StopEvents, StopRpc, StopSd,
   StopTransport, ManageOffers, ManageRpc, ManageEvents, Publish, Listener, S!Next

LEMMA RpcMoves == [Next]_vars => [R!Next]_rVars
BY DEF Next, Lifecycle, StartTransport, StartSd, StartRpc, StartEvents, StartTp, StartOffer,
   StartEnd, StopBegin, Withdraw, StopTp, StopEvents, StopRpc, StopSd, StopTransport,
   ManageOffers, ManageRpc, ManageEvents, Publish, Listener, R!Next

LEMMA EventsMove == [Next]_vars => [E!Next]_eVars
BY DEF Next, Lifecycle, StartTransport, StartSd, StartRpc, StartEvents, StartTp, StartOffer,
   StartEnd, StopBegin, Withdraw, StopTp, StopEvents, StopRpc, StopSd, StopTransport,
   ManageOffers, ManageRpc, ManageEvents, Publish, Listener, E!Next

(* However start(), stop(), the owner, publishers and the listener interleave, *)
(* the transport, service discovery, RPC and the publisher each go through a   *)
(* behaviour of their own: every step of the server is one that each component *)
(* allows, or leaves it as it is (server.py:153-175).                          *)
THEOREM Composed == Spec => T!Spec /\ S!Spec /\ R!Spec /\ E!Spec
<1>1. Init => T!Init /\ S!Init /\ R!Init /\ E!Init
    BY DEF Init
<1>2. [Next]_vars => [T!Next]_(T!vars) /\ [S!Next]_(S!vars) /\ [R!Next]_(R!vars)
                     /\ [E!Next]_(E!vars)
    BY TransportMoves, SdMoves, RpcMoves, EventsMove DEF T!vars, S!vars, R!vars, E!vars
<1> QED
    BY <1>1, <1>2, PTL DEF Spec, T!Spec, S!Spec, R!Spec, E!Spec

-----------------------------------------------------------------------------
(*                        The components' invariants                        *)

(* A native transport that is up is known to Python or still being stopped.    *)
NativeInv ==
    /\ T!TypeOK
    /\ tStopping = "close" => ~tNative
    /\ NativeIsKnown

LEMMA NativeStep == NativeInv /\ [T!Next]_tVars => NativeInv'
<1> SUFFICES ASSUME NativeInv, [T!Next]_tVars PROVE NativeInv'
    OBVIOUS
<1> USE Assumed DEF NativeInv, NativeIsKnown, T!TypeOK, T!Errors
<1>1. CASE T!Start
    <2>1. tError' \in T!Errors
        BY <1>1 DEF T!Start, T!Join
    <2>2. tStopping = "no" /\ UNCHANGED <<tStopping, tClosed, tPeer, tRaised>>
        BY <1>1 DEF T!Start
    <2>3. \/ tRunning' = TRUE /\ tNative' \in BOOLEAN
          \/ UNCHANGED <<tRunning, tNative>>
        BY <1>1 DEF T!Start
    <2>4. T!TypeOK'
        BY <2>1, <2>2, <2>3
    <2>5. tStopping' = "no" /\ (tNative' => tRunning' \/ tRaised')
        BY <2>2, <2>3
    <2> QED
        BY <2>4, <2>5
<1>2. CASE T!StopBegin
    BY <1>2 DEF T!StopBegin
<1>3. CASE T!StopNative
    BY <1>3 DEF T!StopNative
<1>4. CASE T!StopClose
    BY <1>4 DEF T!StopClose
<1>5. CASE T!Receive
    BY <1>5 DEF T!Receive
<1>6. CASE UNCHANGED tVars
    BY <1>6
<1> QED
    BY <1>1, <1>2, <1>3, <1>4, <1>5, <1>6 DEF T!Next

SdInv == S!TypeOK /\ OffersAnnounced

LEMMA SdStep == SdInv /\ [S!Next]_sVars => SdInv'
<1> SUFFICES ASSUME SdInv, [S!Next]_sVars PROVE SdInv'
    OBVIOUS
<1> USE Assumed DEF SdInv, S!TypeOK, OffersAnnounced, S!OffersAnnounced
<1>1. CASE S!Start
    BY <1>1 DEF S!Start
<1>2. CASE S!Stop
    BY <1>2 DEF S!Stop
<1>3. ASSUME NEW s \in Instances, S!Offer(s) PROVE SdInv'
    BY <1>3 DEF S!Offer
<1>4. ASSUME NEW s \in Instances, S!StopOffer(s) PROVE SdInv'
    BY <1>4 DEF S!StopOffer, S!Shared
<1>5. CASE UNCHANGED sVars
    BY <1>5
<1> QED
    BY <1>1, <1>2, <1>3, <1>4, <1>5 DEF S!Next

RpcInv == R!TypeOK /\ OpenAreTracked

LEMMA RpcStep == RpcInv /\ [R!Next]_rVars => RpcInv'
<1> SUFFICES ASSUME RpcInv, [R!Next]_rVars PROVE RpcInv'
    OBVIOUS
<1> USE Assumed DEF RpcInv, R!TypeOK, R!Receivers, OpenAreTracked, R!OpenAreTracked
<1>1. CASE R!Start
    BY <1>1 DEF R!Start
<1>2. CASE R!Stop
    <2>1. R!TypeOK'
        <3>1. rRunning' \in BOOLEAN /\ UNCHANGED <<handlers, made, replaced>>
            BY <1>2 DEF R!Stop
        <3>2. requests' \in [Methods -> 0..MaxReceivers] /\ open' \subseteq open
            BY <1>2 DEF R!Stop
        <3> QED
            BY <3>1, <3>2
    <2>2. ASSUME NEW r \in open' PROVE r \in replaced'
        <3>1. r \in open /\ ~\E m \in Methods : requests[m] = r
            BY <1>2 DEF R!Stop
        <3> QED
            BY <1>2, <3>1 DEF R!Stop
    <2> QED
        BY <2>1, <2>2
<1>3. ASSUME NEW m \in Methods, R!RegisterHandler(m) PROVE RpcInv'
    BY <1>3 DEF R!RegisterHandler
<1>4. ASSUME NEW m \in Methods, R!IncomingRequests(m) PROVE RpcInv'
    <2>1. made' \in 1..MaxReceivers /\ requests' = [requests EXCEPT ![m] = made']
        BY <1>4 DEF R!IncomingRequests
    <2>2. requests[m] \in 0..MaxReceivers
        OBVIOUS
    <2>3. R!TypeOK'
        <3>1. requests' \in [Methods -> 0..MaxReceivers] /\ made' \in 0..MaxReceivers
            BY <2>1
        <3>2. open' \subseteq 1..MaxReceivers /\ replaced' \subseteq 1..MaxReceivers
            <4>1. /\ open' = open \cup {made'}
                  /\ replaced' = replaced \cup ({requests[m]} \ {0})
                BY <1>4 DEF R!IncomingRequests
            <4>2. {requests[m]} \ {0} \subseteq 1..MaxReceivers
                BY <2>2
            <4> QED
                BY <2>1, <4>1, <4>2
        <3>3. UNCHANGED <<rRunning, handlers>>
            BY <1>4 DEF R!IncomingRequests
        <3> QED
            BY <3>1, <3>2, <3>3
    <2>4. ASSUME NEW r \in open'
          PROVE  r \in replaced' \/ \E n \in Methods : requests'[n] = r
        <3>1. CASE r = made'
            BY <2>1, <3>1
        <3>2. CASE r \in open /\ r \in replaced
            BY <1>4, <3>2 DEF R!IncomingRequests
        <3>3. ASSUME NEW n \in Methods, r \in open, requests[n] = r
              PROVE  r \in replaced' \/ \E o \in Methods : requests'[o] = r
            <4>1. r # 0
                BY <3>3
            <4>2. CASE n = m
                BY <1>4, <3>3, <4>1, <4>2 DEF R!IncomingRequests
            <4>3. CASE n # m
                BY <2>1, <3>3, <4>3
            <4> QED
                BY <4>2, <4>3
        <3> QED
            BY <1>4, <3>1, <3>2, <3>3 DEF R!IncomingRequests
    <2> QED
        BY <2>3, <2>4
<1>5. CASE UNCHANGED rVars
    BY <1>5
<1> QED
    BY <1>1, <1>2, <1>3, <1>4, <1>5 DEF R!Next

EventsInv == E!TypeOK /\ OnlyKnownPublished

LEMMA EventsStep == EventsInv /\ [E!Next]_eVars => EventsInv'
<1> SUFFICES ASSUME EventsInv, [E!Next]_eVars PROVE EventsInv'
    OBVIOUS
<1> USE Assumed DEF EventsInv, E!TypeOK, OnlyKnownPublished, E!OnlyKnownPublished
<1>1. CASE E!Start
    BY <1>1 DEF E!Start
<1>2. CASE E!StopBegin
    BY <1>2 DEF E!StopBegin
<1>3. CASE E!StopClear
    BY <1>3 DEF E!StopClear
<1>4. ASSUME NEW e \in Events, E!RegisterBegin(e) PROVE EventsInv'
    BY <1>4 DEF E!RegisterBegin
<1>5. ASSUME NEW p \in Publishers, NEW e \in Events, E!NotifyCheck(p, e) PROVE EventsInv'
    BY <1>5 DEF E!NotifyCheck
<1>6. ASSUME NEW p \in Publishers, E!NotifyNative(p) PROVE EventsInv'
    BY <1>6 DEF E!NotifyNative
<1>7. CASE E!RegisterNative
    BY <1>7 DEF E!RegisterNative
<1>8. CASE UNCHANGED eVars
    BY <1>8
<1> QED
    BY <1>1, <1>2, <1>3, <1>4, <1>5, <1>6, <1>7, <1>8 DEF E!Next

-----------------------------------------------------------------------------
(*                           The server's own part                          *)

Places == {"idle", "sd", "rpc", "events", "tp", "offers", "withdraw", "stop events",
           "stop rpc", "stop sd", "stop transport"}

OwnTyped ==
    /\ running \in BOOLEAN /\ at \in Places /\ todo \subseteq Services
    /\ starts \in 0..MaxStarts /\ stops \in 0..MaxStops /\ managed \in 0..MaxManaged
    /\ tpRunning \in BOOLEAN /\ tpClosed \in BOOLEAN

(* What start() has started when it turns to a place; a server that runs has   *)
(* been through all of it, and begins a stop() by saying that it does not run. *)
Starting == {"sd", "rpc", "events", "tp", "offers"}
Stopping == {"withdraw", "stop events", "stop rpc", "stop sd", "stop transport"}

Up ==
    /\ running \/ at \in Starting => tRunning
    /\ running \/ at \in Starting \ {"sd"} => sRunning
    /\ running \/ at \in {"events", "tp", "offers"} => rRunning
    /\ running \/ at \in {"tp", "offers"} => eRunning
    /\ WithTp /\ (running \/ at = "offers") => tpRunning
    /\ at \in Stopping => ~running

IInv == OwnTyped /\ Up /\ NativeInv /\ SdInv /\ RpcInv /\ EventsInv

LEMMA InitInv == Init => IInv
<1> SUFFICES ASSUME Init PROVE IInv
    OBVIOUS
<1>0. /\ 0 \in 0..MaxStarts /\ 0 \in 0..MaxStops /\ 0 \in 0..MaxManaged
      /\ 0 \in 0..MaxMessages /\ 0 \in 0..MaxReceivers
    BY Assumed
<1>1. OwnTyped /\ Up
    BY <1>0 DEF Init, OwnTyped, Places, Up, Starting, Stopping, T!Init, S!Init, R!Init, E!Init
<1>2. NativeInv
    BY <1>0 DEF Init, T!Init, T!TypeOK, T!Errors, NativeInv, NativeIsKnown
<1>3. SdInv
    BY DEF Init, S!Init, S!TypeOK, SdInv, OffersAnnounced, S!OffersAnnounced
<1>4. RpcInv
    <2>1. requests \in [Methods -> 0..MaxReceivers]
        BY <1>0 DEF Init, R!Init
    <2> QED
        BY <1>0, <2>1 DEF Init, R!Init, R!TypeOK, R!Receivers, RpcInv, OpenAreTracked,
           R!OpenAreTracked
<1>5. EventsInv
    BY DEF Init, E!Init, E!TypeOK, EventsInv, OnlyKnownPublished, E!OnlyKnownPublished
<1> QED
    BY <1>1, <1>2, <1>3, <1>4, <1>5 DEF IInv

(* A counter below its bound keeps within it. *)
LEMMA Counted == ASSUME NEW k \in Nat, NEW n \in 0..k, n < k PROVE n + 1 \in 0..k
BY SMT

LEMMA OwnStep ==
    ASSUME OwnTyped, Up, T!TypeOK, [Next]_vars PROVE OwnTyped' /\ Up'
<1> USE Assumed DEF OwnTyped, Up, Places, Starting, Stopping
<1>1. CASE StartTransport
    BY <1>1 DEF StartTransport, T!Start, T!Join, T!TypeOK
<1>2. CASE StartSd
    BY <1>2 DEF StartSd, S!Start
<1>3. CASE StartRpc
    BY <1>3 DEF StartRpc, R!Start
<1>4. CASE StartEvents
    BY <1>4 DEF StartEvents, E!Start
<1>5. CASE StartTp
    BY <1>5 DEF StartTp
<1>6. ASSUME NEW s \in Services, StartOffer(s) PROVE OwnTyped' /\ Up'
    BY <1>6 DEF StartOffer, S!Offer
<1>7. CASE StartEnd
    BY <1>7 DEF StartEnd
<1>8. CASE StopBegin
    <2>1. stops' \in 0..MaxStops
        BY <1>8 DEF StopBegin
    <2> QED
        BY <1>8, <2>1 DEF StopBegin
<1>9. ASSUME NEW s \in Services, Withdraw(s) PROVE OwnTyped' /\ Up'
    BY <1>9 DEF Withdraw, S!StopOffer
<1>10. CASE StopTp
    BY <1>10 DEF StopTp
<1>11. CASE StopEvents
    BY <1>11 DEF StopEvents, E!StopBegin, E!StopClear
<1>12. CASE StopRpc
    BY <1>12 DEF StopRpc
<1>13. CASE StopSd
    BY <1>13 DEF StopSd
<1>14. CASE StopTransport
    BY <1>14 DEF StopTransport
<1>15. CASE ManageOffers \/ ManageRpc \/ ManageEvents
    <2>1. managed' = managed \/ (managed < MaxManaged /\ managed' = managed + 1)
        BY <1>15 DEF ManageOffers, ManageRpc, ManageEvents
    <2>2. managed' \in 0..MaxManaged
        <3>1. managed \in 0..MaxManaged /\ MaxManaged \in Nat
            OBVIOUS
        <3> QED
            BY <2>1, <3>1, Counted
    <2>3. UNCHANGED <<lifeVars, tpVars, tRunning, sRunning, rRunning, eRunning>>
        BY <1>15 DEF ManageOffers, ManageRpc, ManageEvents, S!Offer, S!StopOffer,
           R!RegisterHandler, R!IncomingRequests, E!RegisterBegin, E!RegisterNative
    <2> QED
        BY <2>2, <2>3
<1>16. ASSUME NEW p \in Publishers, Publish(p) PROVE OwnTyped' /\ Up'
    BY <1>16 DEF Publish, E!NotifyNative, E!NotifyCheck
<1>17. CASE Listener
    BY <1>17 DEF Listener, T!Receive
<1>18. CASE UNCHANGED vars
    BY <1>18
<1> QED
    BY <1>1, <1>2, <1>3, <1>4, <1>5, <1>6, <1>7, <1>8, <1>9, <1>10, <1>11, <1>12, <1>13,
       <1>14, <1>15, <1>16, <1>17, <1>18 DEF Next, Lifecycle

LEMMA Invariant == Spec => []IInv
<1>1. Init => IInv
    BY InitInv
<1>2. IInv /\ [Next]_vars => IInv'
    <2> SUFFICES ASSUME IInv, [Next]_vars PROVE IInv'
        OBVIOUS
    <2>1. OwnTyped' /\ Up'
        BY OwnStep DEF IInv, NativeInv
    <2>2. NativeInv'
        BY TransportMoves, NativeStep DEF IInv
    <2>3. SdInv'
        BY SdMoves, SdStep DEF IInv
    <2>4. RpcInv'
        BY RpcMoves, RpcStep DEF IInv
    <2>5. EventsInv'
        BY EventsMove, EventsStep DEF IInv
    <2> QED
        BY <2>1, <2>2, <2>3, <2>4, <2>5 DEF IInv
<1> QED
    BY <1>1, <1>2, PTL DEF Spec

-----------------------------------------------------------------------------
(*                              The theorems                                *)

(* Every variable of the server and its components keeps its type.             *)
THEOREM TypeCorrect == Spec => []TypeOK
<1>1. IInv => TypeOK
    BY DEF IInv, OwnTyped, Places, NativeInv, SdInv, RpcInv, EventsInv, TypeOK
<1> QED
    BY <1>1, Invariant, PTL

(* A server that says it runs has every component running                      *)
(* (server.py:153-175).                                                        *)
THEOREM RunsWithAll == Spec => []RunningMeansUp
<1>1. IInv => RunningMeansUp
    BY DEF IInv, Up, RunningMeansUp
<1> QED
    BY <1>1, Invariant, PTL

(* No native transport outlives Python's flag, unless its stop raised          *)
(* (transport.py:121-143).                                                     *)
THEOREM TransportKnown == Spec => []NativeIsKnown
<1>1. IInv => NativeIsKnown
    BY DEF IInv, NativeInv
<1> QED
    BY <1>1, Invariant, PTL

(* What is listed as offered is announced (sd.py:105-125).                     *)
THEOREM OffersHeard == Spec => []OffersAnnounced
<1>1. IInv => OffersAnnounced
    BY DEF IInv, SdInv
<1> QED
    BY <1>1, Invariant, PTL

(* Outside stop() the native publisher knows what Python lists and what a      *)
(* notify() is about to hand over, but for an event that is being registered   *)
(* or was refused and a notify() that a stop() has met (events.py:76-111).     *)
THEOREM PublishedKnown == Spec => []OnlyKnownPublished
<1>1. IInv => OnlyKnownPublished
    BY DEF IInv, EventsInv
<1> QED
    BY <1>1, Invariant, PTL

(* No reader of incoming requests waits on a receiver stop() cannot find,      *)
(* unless another took its place (rpc.py:252-254, 283-284).                    *)
THEOREM ReadersFound == Spec => []OpenAreTracked
<1>1. IInv => OpenAreTracked
    BY DEF IInv, RpcInv
<1> QED
    BY <1>1, Invariant, PTL

-----------------------------------------------------------------------------
(*                        What stop() has left behind                       *)

(* What stop() has stopped and emptied when it turns to a place. *)
Down ==
    /\ ~WithTp \/ at \in Stopping \ {"withdraw"} => ~tpRunning
    /\ at \in {"stop rpc", "stop sd", "stop transport"} => ~eRunning /\ registered = {}
    /\ at \in {"stop sd", "stop transport"} => ~rRunning /\ open \subseteq replaced
    /\ at = "stop transport" => ~sRunning /\ offered = {}
    /\ tStopping # "no" => at = "stop transport" /\ ~tRunning

LEMMA StopsTransport == Down /\ StopTransport => ~tRunning'
<1> SUFFICES ASSUME Down, StopTransport PROVE ~tRunning'
    OBVIOUS
<1>1. CASE T!StopBegin
    BY <1>1 DEF T!StopBegin
<1>2. CASE T!StopNative
    BY <1>2 DEF T!StopNative, Down
<1>3. CASE T!StopClose
    BY <1>3 DEF T!StopClose, Down
<1> QED
    BY <1>1, <1>2, <1>3 DEF StopTransport

LEMMA DownStep == ASSUME IInv, Down, [Next]_vars PROVE Down'
<1> USE Assumed DEF Down, Stopping
<1>1. CASE StartTransport
    BY <1>1 DEF StartTransport, T!Start
<1>2. CASE StartSd
    BY <1>2 DEF StartSd
<1>3. CASE StartRpc
    <2>1. at = "rpc" /\ at' = "events" /\ UNCHANGED <<tpVars, tVars>>
        BY <1>3 DEF StartRpc
    <2> QED
        BY <2>1
<1>4. CASE StartEvents
    <2>1. at = "events" /\ at' = "tp" /\ UNCHANGED <<tpVars, tVars>>
        BY <1>4 DEF StartEvents
    <2> QED
        BY <2>1
<1>5. CASE StartTp
    BY <1>5 DEF StartTp, IInv, OwnTyped
<1>6. ASSUME NEW s \in Services, StartOffer(s) \/ Withdraw(s) PROVE Down'
    <2>1. at \in {"offers", "withdraw"} /\ at' = at /\ UNCHANGED <<tpVars, tVars>>
        BY <1>6 DEF StartOffer, Withdraw
    <2> QED
        BY <2>1
<1>7. CASE StartEnd \/ StopBegin
    <2>1. at \in {"offers", "idle"} /\ at' \in {"idle", "withdraw"} /\ UNCHANGED <<tpVars, tVars>>
        BY <1>7 DEF StartEnd, StopBegin
    <2> QED
        BY <2>1
<1>8. CASE StopTp
    BY <1>8 DEF StopTp
<1>9. CASE StopEvents
    BY <1>9 DEF StopEvents, E!StopBegin, E!StopClear
<1>10. CASE StopRpc
    <2>1. \A r \in open' : r \in replaced
        BY <1>10 DEF StopRpc, R!Stop, IInv, RpcInv, OpenAreTracked, R!OpenAreTracked
    <2> QED
        BY <1>10, <2>1 DEF StopRpc, R!Stop
<1>11. CASE StopSd
    BY <1>11 DEF StopSd, S!Stop
<1>12. CASE StopTransport
    <2>1. /\ at = "stop transport"
          /\ at' = IF tStopping' = "no" THEN "idle" ELSE at
          /\ UNCHANGED <<tpVars, sVars, rVars, eVars>>
        BY <1>12 DEF StopTransport
    <2>2. ~tRunning'
        BY <1>12, <2>1, StopsTransport
    <2> QED
        BY <2>1, <2>2
<1>13. CASE ManageOffers \/ ManageRpc
    <2>1. at = "idle" /\ at' = "idle" /\ UNCHANGED <<tpVars, tVars>>
        BY <1>13 DEF ManageOffers, ManageRpc
    <2> QED
        BY <2>1
<1>14. CASE ManageEvents
    <2>1. /\ UNCHANGED <<at, tpVars, tVars, sVars, rVars, eRunning>>
          /\ at = "idle" \/ registered' = registered
        BY <1>14 DEF ManageEvents, E!RegisterBegin, E!RegisterNative
    <2>2. CASE at = "idle"
        BY <2>1, <2>2
    <2>3. CASE registered' = registered
        BY <2>1, <2>3
    <2> QED
        BY <2>1, <2>2, <2>3
<1>15. ASSUME NEW p \in Publishers, Publish(p) PROVE Down'
    <2>1. UNCHANGED <<ownVars, tpVars, tVars, sVars, rVars, eRunning, registered>>
        BY <1>15 DEF Publish, E!NotifyNative, E!NotifyCheck
    <2> QED
        BY <2>1
<1>16. CASE Listener
    BY <1>16 DEF Listener, T!Receive
<1>17. CASE UNCHANGED vars
    BY <1>17
<1> QED
    BY <1>1, <1>2, <1>3, <1>4, <1>5, <1>6, <1>7, <1>8, <1>9, <1>10, <1>11, <1>12, <1>13,
       <1>14, <1>15, <1>16, <1>17 DEF Next, Lifecycle

(* A stop() that has come to its end leaves no component running and nothing   *)
(* offered, registered or waited for, also when the transport's own stop has   *)
(* raised (server.py:167-175).                                                 *)
THEOREM NothingLeft == Spec => StopLeavesNothing
<1>1. Init => Down
    BY DEF Init, Down, Stopping, T!Init
<1>2. ASSUME IInv, Down, [Next]_vars, at = "stop transport", at' = "idle"
      PROVE  /\ ~(tRunning' \/ sRunning' \/ rRunning' \/ eRunning' \/ tpRunning')
             /\ offered' = {} /\ registered' = {}
             /\ open' \subseteq replaced'
    <2>1. StopTransport
        BY <1>2 DEF Next, Lifecycle, StartTransport, StartSd, StartRpc, StartEvents, StartTp,
           StartOffer, StartEnd, StopBegin, Withdraw, StopTp, StopEvents, StopRpc, StopSd,
           ManageOffers, ManageRpc, ManageEvents, Publish, Listener
    <2>2. UNCHANGED <<tpVars, sVars, rVars, eVars>> /\ ~tRunning'
        BY <1>2, <2>1, StopsTransport DEF StopTransport
    <2> QED
        BY <1>2, <2>2 DEF Down, Stopping
<1>3. IInv /\ Down /\ [Next]_vars =>
          [at = "stop transport" /\ at' = "idle" =>
              /\ ~(tRunning' \/ sRunning' \/ rRunning' \/ eRunning' \/ tpRunning')
              /\ offered' = {} /\ registered' = {}
              /\ open' \subseteq replaced']_vars
    BY <1>2
<1>4. IInv /\ Down /\ [Next]_vars => Down'
    BY DownStep
<1> QED
    BY <1>1, <1>3, <1>4, Invariant, PTL DEF Spec, StopLeavesNothing

=============================================================================
