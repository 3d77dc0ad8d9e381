----------------------------- MODULE SomeIpClient -----------------------------
(***************************************************************************)
(* client.py's SomeIpClient: start() and stop() of five components, one    *)
(* after the other, on the thread that owns the client, with user threads  *)
(* that find services and subscribe to events at any time.  Its transport  *)
(* is a TcpTransport or a UdpTransport.  Its calls are modelled by         *)
(* RpcClient and E2ECalls; here RPC only runs or does not.                 *)
(***************************************************************************)
EXTENDS Naturals, Sequences

CONSTANTS
    Remote, MaxMessages,            \* see TcpTransport
    Group,                          \* of a UdpTransport, see Transport
    Instances, Service, MaxFinds,   \* see SdClient
    Groups, NoGroup,                \* see EventSubscriber
    Users,          \* threads that use the client
    WithTp,         \* config.enable_tp
    MaxStarts,      \* bound on start() and connect() calls
    MaxStops,       \* bound on stop() calls
    MaxAsks         \* bound on what the users ask for

VARIABLES
    running,        \* _running
    at,             \* the component start() or stop() turns to next, or "idle"
    starts, stops,  \* calls so far
    asks,           \* requests of the users so far
    rRunning,       \* _rpc_client._running
    tpRunning,      \* _tp_manager._running
    tpClosed,       \* its receiver of reassembled messages is closed
    tcp,            \* _transport is a TcpTransport and not a UdpTransport; never changes
    tRunning, tNative, tStopping, tClosed, tPeer, tRaised, tError,
    connected, link, broken, kept,      \* of a TcpTransport
    sRunning, sNative, last, made, open, asked, searching, results, finding, returned, sRefused,
    eRunning, eNative, eStopping, groups, subscribed, subscribing, unsubscribing,
    eRefused, crossed, eClosed, status, making

lifeVars == <<running, at, starts, stops>>
ownVars == <<lifeVars, asks>>
tpVars == <<tpRunning, tpClosed>>
linkVars == <<connected, link, broken, kept>>
tVars == <<tcp, tRunning, tNative, tStopping, tClosed, tPeer, tRaised, tError, linkVars>>
sVars == <<sRunning, sNative, last, made, open, asked, searching, results, finding, returned,
           sRefused>>
eVars == <<eRunning, eNative, eStopping, groups, subscribed, subscribing, unsubscribing,
           eRefused, crossed, eClosed, status, making>>
vars == <<ownVars, rRunning, tpVars, tVars, sVars, eVars>>

T == INSTANCE TcpTransport WITH running <- tRunning, native <- tNative, stopping <- tStopping,
         closed <- tClosed, peer <- tPeer, raised <- tRaised, error <- tError

U == INSTANCE Transport WITH running <- tRunning, native <- tNative, stopping <- tStopping,
         closed <- tClosed, peer <- tPeer, raised <- tRaised, error <- tError

S == INSTANCE SdClient WITH running <- sRunning, native <- sNative, refused <- sRefused

E == INSTANCE EventSubscriber WITH running <- eRunning, native <- eNative,
         stopping <- eStopping, refused <- eRefused, closed <- eClosed

ASSUME ClientAssumption ==
    /\ WithTp \in BOOLEAN
    /\ MaxStarts \in Nat /\ MaxStops \in Nat /\ MaxAsks \in Nat
    /\ T!TcpAssumption /\ U!TransportAssumption
    /\ S!SdClientAssumption /\ E!SubscriberAssumption

TypeOK ==
    /\ running \in BOOLEAN /\ rRunning \in BOOLEAN
    /\ at \in {"idle", "sd", "rpc", "events", "tp", "stop tp", "stop events", "stop rpc",
               "stop sd", "stop transport"}
    /\ starts \in 0..MaxStarts /\ stops \in 0..MaxStops /\ asks \in 0..MaxAsks
    /\ tpRunning \in BOOLEAN /\ tpClosed \in BOOLEAN
    /\ tcp \in BOOLEAN
    /\ T!TypeOK /\ S!TypeOK /\ E!TypeOK

Init ==
    /\ running = FALSE /\ at = "idle" /\ starts = 0 /\ stops = 0 /\ asks = 0
    /\ rRunning = FALSE
    /\ tpRunning = FALSE /\ tpClosed = FALSE
    /\ tcp \in BOOLEAN
    /\ T!Init /\ S!Init /\ E!Init

-----------------------------------------------------------------------------
(*                                  start                                   *)

Goto(place) == at' = place /\ UNCHANGED <<starts, stops>>

TransportStart ==
    /\ \/ tcp /\ T!Start
       \/ ~tcp /\ U!Start /\ UNCHANGED linkVars
    /\ UNCHANGED tcp

(* Variants named after what they get wrong stand before the definition they   *)
(* change; only the mutation runs use them.                                    *)
StartTransportUnchecked ==
    /\ at = "idle" /\ starts < MaxStarts
    /\ TransportStart
    /\ at' = "sd"
    /\ starts' = starts + 1
    /\ UNCHANGED <<running, stops, asks, rRunning, tpVars, sVars, eVars>>

(* Only the transport's start() can raise, and then out of the client's: before*)
(* it runs, or after it when it cannot join its multicast group.               *)
StartTransport ==
    /\ at = "idle" /\ starts < MaxStarts
    /\ TransportStart
    /\ at' = IF tError' = "none" THEN "sd" ELSE "idle"
    /\ starts' = starts + 1
    /\ UNCHANGED <<running, stops, asks, rRunning, tpVars, sVars, eVars>>

StartSd ==
    /\ at = "sd" /\ S!Start /\ Goto("rpc")
    /\ UNCHANGED <<running, asks, rRunning, tpVars, tVars, eVars>>

StartRpc ==
    /\ at = "rpc" /\ rRunning' = TRUE /\ Goto("events")
    /\ UNCHANGED <<running, asks, tpVars, tVars, sVars, eVars>>

StartEvents ==
    /\ at = "events" /\ E!Start /\ Goto("tp")
    /\ UNCHANGED <<running, asks, rRunning, tpVars, tVars, sVars>>

StartTp ==
    /\ at = "tp" /\ Goto("idle")
    /\ tpRunning' = (tpRunning \/ WithTp)
    /\ running' = TRUE
    /\ UNCHANGED <<rRunning, asks, tpClosed, tVars, sVars, eVars>>

-----------------------------------------------------------------------------
(*                                   stop                                   *)

StopBegin ==
    /\ at = "idle" /\ stops < MaxStops
    /\ running' = FALSE /\ at' = "stop tp" /\ stops' = stops + 1
    /\ UNCHANGED <<starts, asks, rRunning, tpVars, tVars, sVars, eVars>>

StopTp ==
    /\ at = "stop tp" /\ Goto("stop events")
    /\ IF WithTp THEN tpRunning' = FALSE /\ tpClosed' = TRUE ELSE UNCHANGED tpVars
    /\ UNCHANGED <<running, asks, rRunning, tVars, sVars, eVars>>

StopEvents ==
    /\ at = "stop events"
    /\ \/ E!StopBegin /\ UNCHANGED at
       \/ E!StopClear /\ at' = "stop rpc"
    /\ UNCHANGED <<running, starts, stops, asks, rRunning, tpVars, tVars, sVars>>

StopRpc ==
    /\ at = "stop rpc" /\ rRunning' = FALSE /\ Goto("stop sd")
    /\ UNCHANGED <<running, asks, tpVars, tVars, sVars, eVars>>

StopSd ==
    /\ at = "stop sd" /\ S!Stop /\ Goto("stop transport")
    /\ UNCHANGED <<running, asks, rRunning, tpVars, tVars, eVars>>

(* Ends with the transport's stop(), which may raise. *)
StopTransport ==
    /\ at = "stop transport"
    /\ \/ tcp /\ (T!StopNative \/ T!StopClose \/ T!StopBegin)
       \/ ~tcp /\ (U!StopNative \/ U!StopClose \/ U!StopBegin) /\ UNCHANGED linkVars
    /\ at' = IF tStopping' = "no" THEN "idle" ELSE at
    /\ UNCHANGED <<running, starts, stops, asks, rRunning, tpVars, tcp, sVars, eVars>>

-----------------------------------------------------------------------------
(*                      Other threads and the network                       *)

(* The owner connects the transport itself, before start() or again after it.  *)
Connect ==
    /\ tcp /\ at = "idle" /\ starts < MaxStarts
    /\ T!Connect
    /\ starts' = starts + 1
    /\ UNCHANGED <<running, at, stops, asks, rRunning, tpVars, tcp, sVars, eVars>>

ConnectionLost ==
    /\ tcp /\ T!ConnectionLost
    /\ UNCHANGED <<ownVars, rRunning, tpVars, tcp, sVars, eVars>>

Asks == asks < MaxAsks /\ asks' = asks + 1

UserFinds(u) ==
    /\ \/ S!FindReturn(u) /\ UNCHANGED asks
       \/ Asks /\ \E i \in Instances : S!FindBegin(u, i)
    /\ UNCHANGED <<lifeVars, rRunning, tpVars, tVars, eVars>>

ServiceFound ==
    /\ \E r \in S!Receivers, i \in Instances : S!Found(r, i)
    /\ UNCHANGED <<ownVars, rRunning, tpVars, tVars, eVars>>

(* subscribe_events, unsubscribe_events and subscription_status. *)
UserSubscribes(u) ==
    /\ \/ (E!SubscribeNative(u) \/ E!UnsubscribeNative(u) \/ E!StatusMade(u)) /\ UNCHANGED asks
       \/ Asks /\ \E g \in Groups : E!SubscribeBegin(u, g) \/ E!UnsubscribeBegin(u, g)
       \/ Asks /\ E!StatusBegin(u)
    /\ UNCHANGED <<lifeVars, rRunning, tpVars, tVars, sVars>>

Lifecycle ==
    \/ StartSd \/ StartRpc \/ StartEvents \/ StartTp
    \/ StopTp \/ StopEvents \/ StopRpc \/ StopSd \/ StopTransport

Next ==
    \/ StartTransport \/ StopBegin \/ Lifecycle
    \/ Connect \/ ConnectionLost \/ ServiceFound
    \/ \E u \in Users : UserFinds(u) \/ UserSubscribes(u)

Spec == Init /\ [][Next]_vars

(* A start() or stop() under way goes on: no step of it waits for another      *)
(* thread of the program.                                                      *)
FairSpec == Spec /\ WF_vars(Lifecycle)

-----------------------------------------------------------------------------
(*                                 Properties                               *)

(* At rest discovery, RPC, events and TP run if and only if the client says it *)
(* does, and so does the transport, through failed and repeated starts and     *)
(* stops whose native calls failed; with one exception: a UdpTransport whose   *)
(* last start() could not join its group runs under a client that does not     *)
(* (lines 153-171 with transport.py:220-223).  None else is left behind.       *)
UpTogether ==
    at = "idle" =>
        /\ sRunning = running /\ rRunning = running /\ eRunning = running
        /\ WithTp => tpRunning = running
        /\ running => tRunning
        /\ tRunning => running \/ (~tcp /\ Group /\ tError = "NotJoined")

(* Whoever reads the transport's receiver when the client is stopped, unless   *)
(* the native stop raises, or the results of the last find(), also of one that *)
(* comes on another thread while stop() is under way, reaches the end of the   *)
(* stream (lines 163-171 with sd.py:190-191 and transport.py:136-143).         *)
StreamsEnd ==
    /\ (at = "stop tp" /\ tRunning) ~> (tClosed \/ tError = "NotStopped")
    /\ at = "stop tp" ~> last \notin open

(* See TcpTransport, SdClient and EventSubscriber. *)
LinkMirrored == T!LinkMirrored
OwnResults == S!OwnResults
OpenAreFed == S!OpenAreFed
GroupsSubscribed == E!GroupsSubscribed
FindReturnsOwn == S!FindReturnsOwn

=============================================================================
