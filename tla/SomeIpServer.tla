----------------------------- MODULE SomeIpServer -----------------------------
(***************************************************************************)
(* server.py's SomeIpServer: start() and stop() of five components, one    *)
(* after the other, on the thread that owns the server, and what that      *)
(* thread asks of them in between; publishing threads, senders and the     *)
(* native listener run at any time.                                        *)
(***************************************************************************)
EXTENDS Naturals, FiniteSets

CONSTANTS
    Services,       \* config.services
    Instances, Keys, Key,                   \* see SdServer
    Events, Publishers, NoEvent,            \* see EventPublisher
    Methods, MaxReceivers,                  \* see RpcServer
    Group, MaxMessages,                     \* see Transport
    WithTp,         \* config.enable_tp
    MaxStarts,      \* bound on start() calls
    MaxStops,       \* bound on stop() calls
    MaxManaged      \* bound on what the owner asks for in between

VARIABLES
    running,        \* _running
    at,             \* the component start() or stop() turns to next, or "idle"
    todo,           \* services it has still to offer or to withdraw
    starts, stops,  \* calls so far
    managed,        \* requests of the owner so far
    tpRunning,      \* _tp_manager._running
    tpClosed,       \* its receiver of reassembled messages is closed
    tRunning, tNative, tStopping, tClosed, tPeer, tRaised, tError,
    sRunning, sNative, offered, announced, sFailed, clashed,
    rRunning, handlers, requests, made, open, replaced,
    eRunning, registered, known, registering, eStopping, publishing, refused, overtaken

lifeVars == <<running, at, todo, starts, stops>>
ownVars == <<lifeVars, managed>>
tpVars == <<tpRunning, tpClosed>>
tVars == <<tRunning, tNative, tStopping, tClosed, tPeer, tRaised, tError>>
sVars == <<sRunning, sNative, offered, announced, sFailed, clashed>>
rVars == <<rRunning, handlers, requests, made, open, replaced>>
eVars == <<eRunning, registered, known, registering, eStopping, publishing, refused, overtaken>>
vars == <<ownVars, tpVars, tVars, sVars, rVars, eVars>>

T == INSTANCE Transport WITH running <- tRunning, native <- tNative, stopping <- tStopping,
         closed <- tClosed, peer <- tPeer, raised <- tRaised, error <- tError

S == INSTANCE SdServer WITH running <- sRunning, native <- sNative, failed <- sFailed

R == INSTANCE RpcServer WITH running <- rRunning

E == INSTANCE EventPublisher WITH running <- eRunning, stopping <- eStopping

ASSUME ServerAssumption ==
    /\ Services \subseteq Instances
    /\ WithTp \in BOOLEAN
    /\ MaxStarts \in Nat /\ MaxStops \in Nat /\ MaxManaged \in Nat
    /\ T!TransportAssumption /\ S!SdAssumption
    /\ R!RpcServerAssumption /\ E!PublisherAssumption

TypeOK ==
    /\ running \in BOOLEAN
    /\ at \in {"idle", "sd", "rpc", "events", "tp", "offers", "withdraw",
               "stop events", "stop rpc", "stop sd", "stop transport"}
    /\ todo \subseteq Services
    /\ starts \in 0..MaxStarts /\ stops \in 0..MaxStops /\ managed \in 0..MaxManaged
    /\ tpRunning \in BOOLEAN /\ tpClosed \in BOOLEAN
    /\ T!TypeOK /\ S!TypeOK /\ R!TypeOK /\ E!TypeOK

Init ==
    /\ running = FALSE /\ at = "idle" /\ todo = {} /\ starts = 0 /\ stops = 0 /\ managed = 0
    /\ tpRunning = FALSE /\ tpClosed = FALSE
    /\ T!Init /\ S!Init /\ R!Init /\ E!Init

-----------------------------------------------------------------------------
(*                                  start                                   *)

(* The owner is free to call start(), stop() or anything else. *)
Free == at = "idle" /\ registering = NoEvent

Goto(place) == at' = place /\ UNCHANGED <<starts, stops>>

(* Variants named after what they get wrong stand before the definition they   *)
(* change; only the mutation runs use them.                                    *)
StartTransportUnchecked ==
    /\ Free /\ starts < MaxStarts
    /\ T!Start
    /\ at' = "sd"
    /\ starts' = starts + 1
    /\ UNCHANGED <<running, todo, stops, managed, tpVars, sVars, rVars, eVars>>

(* Only the transport's start() can raise, and then out of the server's.       *)
StartTransport ==
    /\ Free /\ starts < MaxStarts
    /\ T!Start
    /\ at' = IF tError' = "none" THEN "sd" ELSE "idle"
    /\ starts' = starts + 1
    /\ UNCHANGED <<running, todo, stops, managed, tpVars, sVars, rVars, eVars>>

StartSd ==
    /\ at = "sd" /\ S!Start /\ Goto("rpc")
    /\ UNCHANGED <<running, todo, managed, tpVars, tVars, rVars, eVars>>

StartRpc ==
    /\ at = "rpc" /\ R!Start /\ Goto("events")
    /\ UNCHANGED <<running, todo, managed, tpVars, tVars, sVars, eVars>>

StartEvents ==
    /\ at = "events" /\ E!Start /\ Goto("tp")
    /\ UNCHANGED <<running, todo, managed, tpVars, tVars, sVars, rVars>>

StartTp ==
    /\ at = "tp" /\ Goto("offers")
    /\ tpRunning' = (tpRunning \/ WithTp)
    /\ todo' = Services
    /\ UNCHANGED <<running, tpClosed, managed, tVars, sVars, rVars, eVars>>

StartOffer(s) ==
    /\ at = "offers" /\ s \in todo /\ S!Offer(s)
    /\ todo' = todo \ {s}
    /\ UNCHANGED <<running, at, starts, stops, managed, tpVars, tVars, rVars, eVars>>

StartEnd ==
    /\ at = "offers" /\ todo = {} /\ Goto("idle")
    /\ running' = TRUE
    /\ UNCHANGED <<todo, managed, tpVars, tVars, sVars, rVars, eVars>>

-----------------------------------------------------------------------------
(*                                   stop                                   *)

StopBegin ==
    /\ Free /\ stops < MaxStops
    /\ running' = FALSE /\ at' = "withdraw" /\ todo' = Services /\ stops' = stops + 1
    /\ UNCHANGED <<starts, managed, tpVars, tVars, sVars, rVars, eVars>>

Withdraw(s) ==
    /\ at = "withdraw" /\ s \in todo /\ S!StopOffer(s)
    /\ todo' = todo \ {s}
    /\ UNCHANGED <<running, at, starts, stops, managed, tpVars, tVars, rVars, eVars>>

StopTp ==
    /\ at = "withdraw" /\ todo = {} /\ Goto("stop events")
    /\ IF WithTp THEN tpRunning' = FALSE /\ tpClosed' = TRUE ELSE UNCHANGED tpVars
    /\ UNCHANGED <<running, todo, managed, tVars, sVars, rVars, eVars>>

StopEvents ==
    /\ at = "stop events"
    /\ \/ E!StopBegin /\ UNCHANGED at
       \/ E!StopClear /\ at' = "stop rpc"
    /\ UNCHANGED <<running, todo, starts, stops, managed, tpVars, tVars, sVars, rVars>>

StopRpc ==
    /\ at = "stop rpc" /\ R!Stop /\ Goto("stop sd")
    /\ UNCHANGED <<running, todo, managed, tpVars, tVars, sVars, eVars>>

StopSd ==
    /\ at = "stop sd" /\ S!Stop /\ Goto("stop transport")
    /\ UNCHANGED <<running, todo, managed, tpVars, tVars, rVars, eVars>>

(* Ends with the transport's stop(), which may raise. *)
StopTransport ==
    /\ at = "stop transport"
    /\ T!StopNative \/ T!StopClose \/ T!StopBegin
    /\ at' = IF tStopping' = "no" THEN "idle" ELSE at
    /\ UNCHANGED <<running, todo, starts, stops, managed, tpVars, sVars, rVars, eVars>>

-----------------------------------------------------------------------------
(*              What the owner asks of the server in between                *)

Managed == Free /\ managed < MaxManaged /\ managed' = managed + 1 /\ UNCHANGED lifeVars

ManageOffers ==
    /\ Managed
    /\ \E s \in Instances : S!Offer(s) \/ S!StopOffer(s)
    /\ UNCHANGED <<tpVars, tVars, rVars, eVars>>

ManageRpc ==
    /\ Managed
    /\ \E m \in Methods : R!RegisterHandler(m) \/ R!IncomingRequests(m)
    /\ UNCHANGED <<tpVars, tVars, sVars, eVars>>

ManageEvents ==
    /\ \/ Managed /\ \E e \in Events : E!RegisterBegin(e)
       \/ E!RegisterNative /\ UNCHANGED ownVars
    /\ UNCHANGED <<tpVars, tVars, sVars, rVars>>

-----------------------------------------------------------------------------
(*                             Other threads                                *)

(* publish_event within the mtu, or without TP: notify().  Above the mtu the   *)
(* TP manager sends it without an endpoint, which the transport, having no     *)
(* remote one, refuses (see Messages!Target); no state changes.                *)
Publish(p) ==
    /\ E!NotifyNative(p) \/ \E e \in Events : E!NotifyCheck(p, e)
    /\ UNCHANGED <<ownVars, tpVars, tVars, sVars, rVars>>

Listener ==
    /\ T!Receive
    /\ UNCHANGED <<ownVars, tpVars, sVars, rVars, eVars>>

Lifecycle ==
    \/ StartSd \/ StartRpc \/ StartEvents \/ StartTp
    \/ (\E s \in Services : StartOffer(s) \/ Withdraw(s)) \/ StartEnd
    \/ StopTp \/ StopEvents \/ StopRpc \/ StopSd \/ StopTransport

Next ==
    \/ StartTransport \/ StopBegin \/ Lifecycle
    \/ ManageOffers \/ ManageRpc \/ ManageEvents
    \/ (\E p \in Publishers : Publish(p)) \/ Listener

Spec == Init /\ [][Next]_vars

(* A start() or stop() under way goes on: no step of it waits for another      *)
(* thread of the program.                                                      *)
FairSpec == Spec /\ WF_vars(Lifecycle)

-----------------------------------------------------------------------------
(*                                 Properties                               *)

(* A server that says it runs has every component running, through failed      *)
(* starts, repeated starts and stops (lines 155-163 and 167-175).              *)
RunningMeansUp ==
    running /\ at = "idle" =>
        tRunning /\ sRunning /\ rRunning /\ eRunning /\ (WithTp => tpRunning)

(* A stop() that has come to its end leaves no component running and nothing   *)
(* offered, registered or waited for, whatever start() had failed before       *)
(* (lines 167-175); only readers of a replaced receiver are left.              *)
StopLeavesNothing ==
    [][at = "stop transport" /\ at' = "idle" =>
          /\ ~(tRunning' \/ sRunning' \/ rRunning' \/ eRunning' \/ tpRunning')
          /\ offered' = {} /\ registered' = {}
          /\ open' \subseteq replaced']_vars

(* A native transport is never up behind a transport that says it does not run,*)
(* through failed starts, joins and restarts, unless the native stop has       *)
(* raised or is under way (transport.py:121-143).                              *)
NativeIsKnown ==
    tStopping = "no" /\ tNative => tRunning \/ tRaised

(* Whoever reads the transport's receiver when a running server is stopped     *)
(* reaches the end of the stream, unless the native stop raised (line 175,     *)
(* transport.py:136-143).                                                      *)
StreamEnds == (at = "withdraw" /\ tRunning) ~> (tClosed \/ tError = "NotStopped")

(* See SdServer, EventPublisher and RpcServer. *)
OffersAnnounced == S!OffersAnnounced
OnlyKnownPublished == E!OnlyKnownPublished
OpenAreTracked == R!OpenAreTracked

=============================================================================
