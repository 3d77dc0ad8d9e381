-------------------------- MODULE SomeIpClientProofs --------------------------
(***************************************************************************)
(* Proofs about SomeIpClient for every set of users, services and groups   *)
(* and every number of starts, stops and requests.  As in                  *)
(* SomeIpServerProofs, each component's invariant is proved from its own   *)
(* actions, and the client's own part from the places of its start() and   *)
(* stop().                                                                 *)
(***************************************************************************)
EXTENDS SomeIpClient, SequenceTheorems, TLAPS

LEMMA Assumed ==
    /\ WithTp \in BOOLEAN
    /\ MaxStarts \in Nat /\ MaxStops \in Nat /\ MaxAsks \in Nat
    /\ Group \in BOOLEAN /\ Remote \in BOOLEAN /\ MaxMessages \in Nat
    /\ MaxFinds \in Nat /\ NoGroup \notin Groups
BY ClientAssumption DEF T!TcpAssumption, U!TransportAssumption, S!SdClientAssumption,
   E!SubscriberAssumption

-----------------------------------------------------------------------------
(*                  A step of the client in its components                  *)

USE DEF Goto, Asks, lifeVars, ownVars, tpVars, linkVars, tVars, sVars, eVars, vars

(* What a step of the client is to its transport, of either kind. *)
TransportNext ==
    /\ IF tcp THEN T!Next ELSE U!Next /\ UNCHANGED linkVars
    /\ UNCHANGED tcp

LEMMA TransportMoves == [Next]_vars => [TransportNext]_tVars
BY Assumed DEF TransportNext, TransportStart, U!Next, Next, Lifecycle, StartTransport, StartSd,
   StartRpc, StartEvents, StartTp, StopBegin,
   StopTp, StopEvents, StopRpc, StopSd, StopTransport, Connect, ConnectionLost, UserFinds,
   ServiceFound, UserSubscribes, T!Next

LEMMA SdMoves == [Next]_vars => [S!Next]_sVars
BY DEF Next, Lifecycle, StartTransport, StartSd, StartRpc, StartEvents, StartTp, StopBegin,
   StopTp, StopEvents, StopRpc, StopSd, StopTransport, Connect, ConnectionLost, UserFinds,
   ServiceFound, UserSubscribes, S!Next

LEMMA EventsMove == [Next]_vars => [E!Next]_eVars
BY DEF Next, Lifecycle, StartTransport, StartSd, StartRpc, StartEvents, StartTp, StopBegin,
   StopTp, StopEvents, StopRpc, StopSd, StopTransport, Connect, ConnectionLost, UserFinds,
   ServiceFound, UserSubscribes, E!Next

(* However start(), stop(), connect() and the users' find() and subscribe()    *)
(* interleave, the transport, service discovery and the subscriber each go     *)
(* through a behaviour of their own (client.py:153-171).                       *)
THEOREM Composed ==
    /\ Spec /\ tcp  => T!Spec /\ S!Spec /\ E!Spec
    /\ Spec /\ ~tcp => U!Spec /\ S!Spec /\ E!Spec
<1>1. Init => T!Init /\ U!Init /\ S!Init /\ E!Init
    BY DEF Init, T!Init, T!Base!Init, U!Init
<1>2. [Next]_vars => [S!Next]_(S!vars) /\ [E!Next]_(E!vars)
    BY SdMoves, EventsMove DEF S!vars, E!vars, E!callVars, E!pastVars
<1>3. tcp /\ [Next]_vars => tcp' /\ [T!Next]_(T!vars)
    BY TransportMoves DEF TransportNext, T!vars, T!baseVars, T!linkVars
<1>4. ~tcp /\ [Next]_vars => ~tcp' /\ [U!Next]_(U!vars)
    BY TransportMoves DEF TransportNext, U!vars
<1>5. Spec /\ tcp => T!Spec /\ S!Spec /\ E!Spec
    BY <1>1, <1>2, <1>3, PTL DEF Spec, T!Spec, S!Spec, E!Spec
<1>6. Spec /\ ~tcp => U!Spec /\ S!Spec /\ E!Spec
    BY <1>1, <1>2, <1>4, PTL DEF Spec, U!Spec, S!Spec, E!Spec
<1> QED
    BY <1>5, <1>6

-----------------------------------------------------------------------------
(*                              The transport                               *)

(* Only a UdpTransport joins a group. *)
ErrorKnown == tError = "NotJoined" => ~tcp /\ Group

LinkInv == tcp \in BOOLEAN /\ T!TypeOK /\ LinkMirrored /\ ErrorKnown

LEMMA TcpError ==
    ASSUME ErrorKnown, tcp, tcp' = tcp, T!Next PROVE ErrorKnown'
<1>1. tError # "NotJoined"
    BY DEF ErrorKnown
<1>2. tError' # "NotJoined"
    BY <1>1 DEF T!Next, T!Start, T!Connect, T!StopBegin, T!StopNative, T!StopClose,
       T!ConnectionLost, T!baseVars, T!Base!Start, T!Base!Join, T!Base!StopBegin,
       T!Base!StopNative, T!Base!StopClose
<1> QED
    BY <1>2 DEF ErrorKnown

LEMMA TcpStep ==
    ASSUME T!TypeOK, LinkMirrored, T!Next PROVE T!TypeOK' /\ LinkMirrored'
<1> USE Assumed DEF LinkMirrored, T!LinkMirrored, T!TypeOK, T!Base!TypeOK,
        T!Base!Errors, T!baseVars, T!linkVars
<1>1. CASE T!Start
    BY <1>1 DEF T!Start, T!Dial, T!Base!Start, T!Base!Join
<1>2. CASE T!Connect
    <2>1. T!Base!TypeOK'
        BY <1>2 DEF T!Connect
    <2>2. \/ connected' = TRUE /\ link' = TRUE /\ broken' = FALSE /\ kept' = kept
          \/ connected' = TRUE /\ link' = link /\ broken' = TRUE /\ kept' = kept
          \/ UNCHANGED <<connected, link, broken, kept>>
        BY <1>2 DEF T!Connect, T!Dial
    <2>3. T!TypeOK'
        BY <2>1, <2>2
    <2> QED
        BY <2>2, <2>3
<1>3. CASE T!StopBegin
    <2>1. T!Base!TypeOK'
        BY <1>3 DEF T!StopBegin, T!Base!StopBegin
    <2>2. /\ connected' = FALSE /\ broken' = broken
          /\ \/ link' = FALSE /\ kept' = kept
             \/ link' = link /\ kept' = TRUE
             \/ ~connected /\ link' = link /\ kept' = kept
        BY <1>3 DEF T!StopBegin, T!HangUp
    <2>3. T!TypeOK'
        BY <2>1, <2>2
    <2> QED
        BY <2>2, <2>3
<1>4. CASE T!StopNative
    <2>1. T!Base!TypeOK'
        BY <1>4 DEF T!StopNative, T!Base!StopNative
    <2>2. UNCHANGED <<connected, kept>>
        BY <1>4 DEF T!StopNative
    <2>3. CASE link' = link
        <3>1. broken' = broken
            BY <1>4, <2>3 DEF T!StopNative
        <3> QED
            BY <2>1, <2>2, <2>3, <3>1
    <2>4. CASE link' # link
        <3>1. link' = FALSE /\ broken' = TRUE
            BY <1>4, <2>4 DEF T!StopNative
        <3> QED
            BY <2>1, <2>2, <3>1
    <2> QED
        BY <2>3, <2>4
<1>5. CASE T!StopClose
    BY <1>5 DEF T!StopClose, T!Base!StopClose
<1>6. CASE T!ConnectionLost
    BY <1>6 DEF T!ConnectionLost
<1> QED
    BY <1>1, <1>2, <1>3, <1>4, <1>5, <1>6 DEF T!Next

LEMMA UdpStep ==
    ASSUME LinkInv, ~tcp, tcp' = tcp, U!Next, UNCHANGED linkVars PROVE LinkInv'
<1> USE Assumed DEF LinkInv, ErrorKnown, T!TypeOK, T!Base!TypeOK, T!Base!Errors, U!Errors
<1>1. LinkMirrored'
    BY DEF LinkMirrored, T!LinkMirrored
<1>2. CASE U!Start
    BY <1>1, <1>2 DEF U!Start, U!Join
<1>3. CASE U!StopBegin
    BY <1>1, <1>3 DEF U!StopBegin
<1>4. CASE U!StopNative
    BY <1>1, <1>4 DEF U!StopNative
<1>5. CASE U!StopClose
    BY <1>1, <1>5 DEF U!StopClose
<1>6. CASE U!Receive
    BY <1>1, <1>6 DEF U!Receive
<1> QED
    BY <1>2, <1>3, <1>4, <1>5, <1>6 DEF U!Next

LEMMA LinkStep == LinkInv /\ [TransportNext]_tVars => LinkInv'
<1> SUFFICES ASSUME LinkInv, [TransportNext]_tVars PROVE LinkInv'
    OBVIOUS
<1>1. CASE UNCHANGED tVars
    BY <1>1 DEF LinkInv, ErrorKnown, LinkMirrored, T!LinkMirrored, T!TypeOK, T!Base!TypeOK
<1>2. CASE tcp /\ tcp' = tcp /\ T!Next
    BY <1>2, TcpStep, TcpError DEF LinkInv
<1>3. CASE ~tcp /\ tcp' = tcp /\ U!Next /\ UNCHANGED linkVars
    BY <1>3, UdpStep
<1> QED
    BY <1>1, <1>2, <1>3 DEF TransportNext

-----------------------------------------------------------------------------
(*                                Discovery                                 *)

(* What appending does to a sequence whose length is known. *)
LEMMA Appended ==
    ASSUME NEW A, NEW n \in Nat, NEW s \in [1..n -> A], NEW e \in A
    PROVE  /\ Append(s, e) \in [1..(n + 1) -> A]
           /\ \A k \in 1..n : Append(s, e)[k] = s[k]
           /\ Append(s, e)[n + 1] = e
<1>1. s \in Seq(A) /\ Len(s) = n
    BY SeqDef, LenProperties
<1>2. /\ Append(s, e) \in Seq(A) /\ Len(Append(s, e)) = n + 1
      /\ \A k \in 1..n : Append(s, e)[k] = s[k]
      /\ Append(s, e)[n + 1] = e
    BY <1>1, AppendProperties
<1>3. Append(s, e) \in [1..Len(Append(s, e)) -> A]
    BY <1>2, LenProperties
<1> QED
    BY <1>2, <1>3

(* The last receiver handed out is the one that is remembered. *)
SdInv == S!TypeOK /\ last = made /\ OwnResults /\ OpenAreFed

LEMMA FindBeginStep ==
    ASSUME SdInv, NEW u \in Users, NEW i \in Instances, S!FindBegin(u, i) PROVE SdInv'
<1> USE Assumed DEF SdInv, S!TypeOK
<1>1. /\ made' = made + 1 /\ made' \in 1..MaxFinds /\ last' = made'
      /\ open' = open \cup {made'} /\ finding' = [finding EXCEPT ![u] = made']
      /\ finding[u] = 0
      /\ UNCHANGED <<sRunning, sNative, searching, sRefused>>
    BY DEF S!FindBegin
<1>2. made \in Nat /\ 1..made \subseteq 1..made' /\ 0..made \subseteq 0..made'
    BY <1>1
<1>3. /\ asked' \in [1..made' -> Instances]
      /\ \A k \in 1..made : asked'[k] = asked[k]
    <2>1. asked \in [1..made -> Instances] /\ asked' = Append(asked, i)
        BY DEF S!FindBegin
    <2>2. made \in Nat /\ asked \in [1..made -> Instances] /\ i \in Instances
        BY <1>2
    <2>3. Append(asked, i) \in [1..(made + 1) -> Instances]
        BY ONLY <2>2, Appended
    <2>4. \A k \in 1..made : Append(asked, i)[k] = asked[k]
        BY ONLY <2>2, Appended
    <2> QED
        BY <1>1, <2>1, <2>3, <2>4
<1>4. /\ results' \in [1..made' -> SUBSET Instances]
      /\ \A k \in 1..made : results'[k] = results[k]
      /\ results'[made'] = {}
    <2>1. /\ made \in Nat /\ results \in [1..made -> SUBSET Instances]
          /\ {} \in SUBSET Instances
        BY <1>2
    <2>2. results' = Append(results, {})
        BY DEF S!FindBegin
    <2>3. Append(results, {}) \in [1..(made + 1) -> SUBSET Instances]
        BY ONLY <2>1, Appended
    <2>4. \A k \in 1..made : Append(results, {})[k] = results[k]
        BY ONLY <2>1, Appended
    <2>5. Append(results, {})[made + 1] = {}
        BY ONLY <2>1, Appended
    <2> QED
        BY <1>1, <2>2, <2>3, <2>4, <2>5
<1>5. returned' \in [1..made' -> 0..made']
    <2>1. returned \in [1..made -> 0..made'] /\ 0 \in 0..made'
        BY <1>1, <1>2
    <2> QED
        BY <1>1, <1>2, <2>1, Appended DEF S!FindBegin
<1>6. S!TypeOK'
    BY <1>1, <1>2, <1>3, <1>4, <1>5
<1>7. OwnResults'
    <2> SUFFICES ASSUME NEW r \in 1..made', NEW j \in results'[r]
                 PROVE  Service[j] = Service[asked'[r]]
        BY DEF OwnResults, S!OwnResults
    <2>1. r \in 1..made
        BY <1>1, <1>2, <1>4
    <2> QED
        BY <1>3, <1>4, <2>1 DEF OwnResults, S!OwnResults
<1>8. OpenAreFed'
    <2> SUFFICES ASSUME NEW r \in open'
                 PROVE  r < last' \/ \E v \in Users : finding'[v] = r
        BY DEF OpenAreFed, S!OpenAreFed
    <2>1. CASE r = made'
        BY <1>1, <2>1
    <2>2. CASE r \in open
        BY <1>1, <1>2, <2>2
    <2> QED
        BY <1>1, <2>1, <2>2
<1> QED
    BY <1>1, <1>6, <1>7, <1>8

LEMMA FindReturnStep == ASSUME SdInv, NEW u \in Users, S!FindReturn(u) PROVE SdInv'
<1> USE Assumed DEF SdInv, S!TypeOK
<1>1. /\ finding[u] \in 1..made
      /\ finding' = [finding EXCEPT ![u] = 0]
      /\ returned' = [returned EXCEPT ![finding[u]] = last]
      /\ UNCHANGED <<sRunning, sNative, last, made, open, asked, results>>
    BY DEF S!FindReturn
<1>2. /\ searching \subseteq searching' /\ searching' \subseteq 1..made
      /\ sRefused \subseteq sRefused' /\ sRefused' \subseteq 1..made
      /\ finding[u] \in searching' \cup sRefused'
    BY <1>1 DEF S!FindReturn
<1>3. S!TypeOK'
    BY <1>1, <1>2
<1>4. OwnResults'
    BY <1>1 DEF OwnResults, S!OwnResults
<1>5. OpenAreFed'
    <2> SUFFICES ASSUME NEW r \in open, NEW v \in Users, finding[v] = r
                 PROVE  \/ r \in searching' \cup sRefused'
                        \/ \E w \in Users : finding'[w] = r
        BY <1>1, <1>2 DEF OpenAreFed, S!OpenAreFed
    <2>1. CASE v = u
        BY <1>2, <2>1
    <2>2. CASE v # u
        BY <1>1, <2>2
    <2> QED
        BY <2>1, <2>2
<1> QED
    BY <1>1, <1>3, <1>4, <1>5

LEMMA SdStep == SdInv /\ [S!Next]_sVars => SdInv'
<1> SUFFICES ASSUME SdInv, [S!Next]_sVars PROVE SdInv'
    OBVIOUS
<1> USE Assumed DEF SdInv, S!TypeOK
<1>1. CASE S!Start
    BY <1>1 DEF S!Start, OwnResults, S!OwnResults, OpenAreFed, S!OpenAreFed
<1>2. CASE S!Stop
    <2>1. S!TypeOK' /\ last' = made'
        BY <1>2 DEF S!Stop
    <2>2. OwnResults'
        BY <1>2 DEF S!Stop, OwnResults, S!OwnResults
    <2>3. \A r \in open' : r < last'
        BY <1>2 DEF S!Stop
    <2> QED
        BY <2>1, <2>2, <2>3 DEF OpenAreFed, S!OpenAreFed
<1>3. ASSUME NEW u \in Users, NEW i \in Instances, S!FindBegin(u, i) PROVE SdInv'
    BY <1>3, FindBeginStep
<1>4. ASSUME NEW u \in Users, S!FindReturn(u) PROVE SdInv'
    BY <1>4, FindReturnStep
<1>5. ASSUME NEW r \in S!Receivers, NEW i \in Instances, S!Found(r, i) PROVE SdInv'
    <2>1. /\ r \in 1..made /\ Service[i] = Service[asked[r]]
          /\ results' \in {results, [results EXCEPT ![r] = @ \cup {i}]}
          /\ UNCHANGED <<sRunning, sNative, last, made, open, asked, searching, finding,
                         returned, sRefused>>
        BY <1>5 DEF S!Found, S!Given
    <2>2. S!TypeOK' /\ last' = made'
        BY <2>1
    <2>3. OwnResults'
        BY <2>1 DEF OwnResults, S!OwnResults
    <2>4. OpenAreFed'
        BY <2>1 DEF OpenAreFed, S!OpenAreFed
    <2> QED
        BY <2>2, <2>3, <2>4
<1>6. CASE UNCHANGED sVars
    BY <1>6 DEF OwnResults, S!OwnResults, OpenAreFed, S!OpenAreFed
<1> QED
    BY <1>1, <1>2, <1>3, <1>4, <1>5, <1>6 DEF S!Next

-----------------------------------------------------------------------------
(*                                  Events                                  *)

(* A group that is being given up is on the list only if it was entered again. *)
GroupsInv ==
    /\ E!TypeOK
    /\ GroupsSubscribed
    /\ \A u \in Users : unsubscribing[u] \in groups => unsubscribing[u] \in crossed

LEMMA GroupsStep == GroupsInv /\ [E!Next]_eVars => GroupsInv'
<1> SUFFICES ASSUME GroupsInv, [E!Next]_eVars PROVE GroupsInv'
    OBVIOUS
<1> USE Assumed DEF GroupsInv, E!TypeOK, GroupsSubscribed, E!GroupsSubscribed, E!callVars,
        E!pastVars
<1>1. CASE E!Start
    BY <1>1 DEF E!Start
<1>2. CASE E!StopBegin
    BY <1>2 DEF E!StopBegin
<1>3. CASE E!StopClear
    BY <1>3 DEF E!StopClear, E!Closing
<1>4. ASSUME NEW u \in Users, E!StatusBegin(u) \/ E!StatusMade(u) PROVE GroupsInv'
    BY <1>4 DEF E!StatusBegin, E!StatusMade
<1>5. ASSUME NEW u \in Users, NEW g \in Groups, E!UnsubscribeBegin(u, g) PROVE GroupsInv'
    BY <1>5 DEF E!UnsubscribeBegin, E!Free
<1>6. ASSUME NEW u \in Users, NEW g \in Groups, E!SubscribeBegin(u, g) PROVE GroupsInv'
    BY <1>6 DEF E!SubscribeBegin, E!Free, E!GivingUp
<1>7. ASSUME NEW u \in Users, E!SubscribeNative(u) PROVE GroupsInv'
    BY <1>7 DEF E!SubscribeNative, E!GivingUp
<1>8. ASSUME NEW u \in Users, E!UnsubscribeNative(u) PROVE GroupsInv'
    BY <1>8 DEF E!UnsubscribeNative
<1>9. CASE UNCHANGED eVars
    BY <1>9
<1> QED
    BY <1>1, <1>2, <1>3, <1>4, <1>5, <1>6, <1>7, <1>8, <1>9 DEF E!Next

-----------------------------------------------------------------------------
(*                           The client's own part                          *)

Starting == {"sd", "rpc", "events", "tp"}
Stopping == {"stop tp", "stop events", "stop rpc", "stop sd", "stop transport"}

OwnTyped ==
    /\ running \in BOOLEAN /\ rRunning \in BOOLEAN
    /\ at \in {"idle"} \cup Starting \cup Stopping
    /\ starts \in 0..MaxStarts /\ stops \in 0..MaxStops /\ asks \in 0..MaxAsks
    /\ tpRunning \in BOOLEAN /\ tpClosed \in BOOLEAN

(* What runs at each place of start() and stop(): start() has set the flags of *)
(* the components behind it, stop() has cleared them, and those still ahead    *)
(* say what the client says.                                                   *)
Flags ==
    /\ at \in Stopping => ~running
    /\ at \in Starting => tRunning
    /\ at \in Starting \ {"sd"} => sRunning
    /\ at \in {"events", "tp"} => rRunning
    /\ at = "tp" => eRunning
    /\ at = "idle" /\ running => tRunning
    /\ at = "idle" /\ tRunning => running \/ tError = "NotJoined"
    /\ at \in {"idle", "sd"} => sRunning = running
    /\ at \in {"idle", "sd", "rpc"} => rRunning = running
    /\ at \in {"idle", "sd", "rpc", "events"} => eRunning = running
    /\ WithTp /\ at \in {"idle"} \cup Starting => tpRunning = running
    /\ WithTp /\ at \in Stopping \ {"stop tp"} => ~tpRunning
    /\ at \in {"stop rpc", "stop sd", "stop transport"} => ~eRunning
    /\ at \in {"stop sd", "stop transport"} => ~rRunning
    /\ at = "stop transport" => ~sRunning
    /\ tStopping # "no" => ~tRunning /\ at = "stop transport"

IInv == OwnTyped /\ Flags /\ LinkInv /\ SdInv /\ GroupsInv

LEMMA InitInv == Init => IInv
<1> SUFFICES ASSUME Init PROVE IInv
    OBVIOUS
<1>0. /\ 0 \in 0..MaxStarts /\ 0 \in 0..MaxStops /\ 0 \in 0..MaxAsks
      /\ 0 \in 0..MaxMessages /\ 0 \in 0..MaxFinds
    BY Assumed
<1>1. OwnTyped /\ Flags
    BY <1>0 DEF Init, OwnTyped, Starting, Stopping, Flags, T!Init, T!Base!Init, S!Init, E!Init
<1>2. LinkInv
    BY <1>0 DEF Init, T!Init, T!Base!Init, T!TypeOK, T!Base!TypeOK, T!Base!Errors, LinkInv,
       ErrorKnown, LinkMirrored, T!LinkMirrored
<1>3. SdInv
    <2>1. 1..0 = {}
        OBVIOUS
    <2>2. asked \in [1..0 -> Instances] /\ results \in [1..0 -> SUBSET Instances]
        BY <2>1 DEF Init, S!Init
    <2>3. returned \in [1..0 -> 0..0] /\ finding \in [Users -> 0..0]
        BY <2>1 DEF Init, S!Init
    <2> QED
        BY <1>0, <2>1, <2>2, <2>3 DEF Init, S!Init, S!TypeOK, SdInv, OwnResults, S!OwnResults,
           OpenAreFed, S!OpenAreFed
<1>4. GroupsInv
    BY DEF Init, E!Init, E!TypeOK, GroupsInv, GroupsSubscribed, E!GroupsSubscribed
<1> QED
    BY <1>1, <1>2, <1>3, <1>4 DEF IInv

(* A counter below its bound keeps within it. *)
LEMMA Counted == ASSUME NEW k \in Nat, NEW n \in 0..k, n < k PROVE n + 1 \in 0..k
BY SMT

LEMMA OwnStep ==
    ASSUME OwnTyped, Flags, LinkInv, S!TypeOK, E!TypeOK, [Next]_vars PROVE OwnTyped' /\ Flags'
<1> USE Assumed DEF OwnTyped, Flags, Starting, Stopping, T!baseVars, T!linkVars
<1>0. tRunning \in BOOLEAN /\ sRunning \in BOOLEAN /\ eRunning \in BOOLEAN
    BY DEF LinkInv, T!TypeOK, T!Base!TypeOK, S!TypeOK, E!TypeOK
<1>1. CASE StartTransport
    <2>1. starts' \in 0..MaxStarts
        BY <1>1 DEF StartTransport
    <2>2. /\ tStopping = "no" /\ tStopping' = "no"
          /\ tError' = "none" => tRunning'
          /\ tRunning => tRunning'
          /\ tRunning' => tRunning \/ tError' \in {"none", "NotJoined"}
          /\ tRunning /\ tError' # "none" => tError' = "NotJoined"
        BY <1>1 DEF StartTransport, TransportStart, T!Start, T!Base!Start, T!Base!Join, U!Start,
           U!Join
    <2> QED
        BY <1>1, <2>1, <2>2 DEF StartTransport
<1>2. CASE StartSd
    BY <1>2 DEF StartSd, S!Start
<1>3. CASE StartRpc
    BY <1>3 DEF StartRpc
<1>4. CASE StartEvents
    BY <1>4 DEF StartEvents, E!Start
<1>5. CASE StartTp
    BY <1>5 DEF StartTp
<1>6. CASE StopBegin
    <2>1. stops' \in 0..MaxStops
        BY <1>6, Counted DEF StopBegin
    <2>2. /\ at = "idle" /\ at' = "stop tp" /\ running' = FALSE
          /\ UNCHANGED <<starts, asks, rRunning, tpVars, tRunning, tStopping, sRunning, eRunning>>
        BY <1>6 DEF StopBegin
    <2> QED
        BY <2>1, <2>2
<1>7. CASE StopTp
    BY <1>7 DEF StopTp
<1>8. CASE StopEvents
    BY <1>8 DEF StopEvents, E!StopBegin, E!StopClear
<1>9. CASE StopRpc
    BY <1>9 DEF StopRpc
<1>10. CASE StopSd
    BY <1>10 DEF StopSd, S!Stop
<1>11. CASE StopTransport
    <2>1. tRunning' = FALSE
        BY <1>0, <1>11 DEF StopTransport, T!StopBegin, T!Base!StopBegin, T!StopNative,
           T!Base!StopNative, T!StopClose, T!Base!StopClose, U!StopBegin, U!StopNative,
           U!StopClose
    <2>2. /\ at = "stop transport" /\ at' = IF tStopping' = "no" THEN "idle" ELSE at
          /\ UNCHANGED <<running, starts, stops, asks, rRunning, tpVars, sRunning, eRunning>>
        BY <1>11 DEF StopTransport
    <2>3. CASE tStopping' = "no"
        BY <1>0, <2>1, <2>2, <2>3
    <2>4. CASE tStopping' # "no"
        BY <2>1, <2>2, <2>4
    <2> QED
        BY <2>3, <2>4
<1>12. CASE Connect
    <2>1. starts' \in 0..MaxStarts
        BY <1>12 DEF Connect
    <2>2. UNCHANGED <<tRunning, tStopping>> /\ at = "idle" /\ at' = "idle"
        BY <1>12 DEF Connect, T!Connect
    <2>3. tRunning => running
        BY <1>12, <2>2 DEF Connect, LinkInv, ErrorKnown
    <2> QED
        BY <1>12, <2>1, <2>2, <2>3 DEF Connect
<1>13. CASE ConnectionLost
    BY <1>13 DEF ConnectionLost, T!ConnectionLost
<1>14. ASSUME NEW u \in Users, UserFinds(u) \/ UserSubscribes(u) PROVE OwnTyped' /\ Flags'
    <2>1. asks' = asks \/ (asks < MaxAsks /\ asks' = asks + 1)
        BY <1>14 DEF UserFinds, UserSubscribes
    <2>2. asks' \in 0..MaxAsks
        BY <2>1, Counted
    <2>3. UNCHANGED <<lifeVars, rRunning, tpVars, tVars, sRunning, eRunning>>
        BY <1>14 DEF UserFinds, S!FindReturn, S!FindBegin, UserSubscribes, E!SubscribeNative,
           E!SubscribeBegin, E!UnsubscribeBegin, E!UnsubscribeNative, E!StatusBegin,
           E!StatusMade
    <2> QED
        BY <2>2, <2>3
<1>15. CASE ServiceFound
    <2>1. UNCHANGED <<ownVars, rRunning, tpVars, tVars, sRunning, eRunning>>
        BY <1>15 DEF ServiceFound, S!Found
    <2> QED
        BY <2>1
<1>16. CASE UNCHANGED vars
    BY <1>16
<1> QED
    BY <1>1, <1>2, <1>3, <1>4, <1>5, <1>6, <1>7, <1>8, <1>9, <1>10, <1>11, <1>12, <1>13,
       <1>14, <1>15, <1>16 DEF Next, Lifecycle

LEMMA Invariant == Spec => []IInv
<1>1. Init => IInv
    BY InitInv
<1>2. IInv /\ [Next]_vars => IInv'
    <2> SUFFICES ASSUME IInv, [Next]_vars PROVE IInv'
        OBVIOUS
    <2>1. OwnTyped' /\ Flags'
        BY OwnStep DEF IInv, SdInv, GroupsInv
    <2>2. LinkInv'
        BY TransportMoves, LinkStep DEF IInv
    <2>3. SdInv'
        BY SdMoves, SdStep DEF IInv
    <2>4. GroupsInv'
        BY EventsMove, GroupsStep DEF IInv
    <2> QED
        BY <2>1, <2>2, <2>3, <2>4 DEF IInv
<1> QED
    BY <1>1, <1>2, PTL DEF Spec

-----------------------------------------------------------------------------
(*                              The theorems                                *)

(* Every variable of the client and its components keeps its type.             *)
THEOREM TypeCorrect == Spec => []TypeOK
<1>1. IInv => TypeOK
    BY DEF IInv, OwnTyped, Starting, Stopping, LinkInv, SdInv, GroupsInv, TypeOK
<1> QED
    BY <1>1, Invariant, PTL

(* A client at rest runs with all its components or with none, but for a UDP   *)
(* transport that could not join its group (client.py:153-171,                 *)
(* transport.py:220-223).                                                      *)
THEOREM RunsTogether == Spec => []UpTogether
<1>1. IInv => UpTogether
    BY DEF IInv, Flags, LinkInv, ErrorKnown, UpTogether
<1> QED
    BY <1>1, Invariant, PTL

(* is_connected and the native connection disagree only after a failure or a   *)
(* loss (transport.py:255-285).                                                *)
THEOREM LinkKnown == Spec => []LinkMirrored
<1>1. IInv => LinkMirrored
    BY DEF IInv, LinkInv
<1> QED
    BY <1>1, Invariant, PTL

(* A receiver is given only the service it asked for (sd.py:202-223).          *)
THEOREM ResultsOwned == Spec => []OwnResults
<1>1. IInv => OwnResults
    BY DEF IInv, SdInv
<1> QED
    BY <1>1, Invariant, PTL

(* An open receiver of find() is fed, replaced or refused (sd.py:179-225).     *)
THEOREM ReadersFed == Spec => []OpenAreFed
<1>1. IInv => OpenAreFed
    BY DEF IInv, SdInv
<1> QED
    BY <1>1, Invariant, PTL

(* A group listed as subscribed is subscribed natively, about to be, or was    *)
(* refused, unless a subscribe() of it crossed an unsubscribe() of it          *)
(* (events.py:185-246).                                                        *)
THEOREM GroupsKnown == Spec => []GroupsSubscribed
<1>1. IInv => GroupsSubscribed
    BY DEF IInv, GroupsInv
<1> QED
    BY <1>1, Invariant, PTL

=============================================================================
