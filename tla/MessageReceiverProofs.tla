------------------------ MODULE MessageReceiverProofs ------------------------
(***************************************************************************)
(* What MessageReceiver guarantees for any number of threads, iterations   *)
(* and calls: type correctness, the bound on messages stranded behind the  *)
(* sentinel, that its readers see a DeliveryChannel, that its async mirror *)
(* invents, repeats, reorders and strands nothing, and that no iteration   *)
(* of a thread sees messages repeated or out of order.                     *)
(***************************************************************************)
EXTENDS MessageReceiver, SequenceTheorems, FiniteSetTheorems, TLAPS

(***************************************************************************)
(* Appending to a queue and taking its head.                               *)
(***************************************************************************)
LEMMA AppendFacts ==
    ASSUME NEW S, NEW s \in Seq(S), NEW e \in S
    PROVE  /\ Append(s, e) \in Seq(S)
           /\ Len(Append(s, e)) = Len(s) + 1
           /\ DOMAIN Append(s, e) = 1..(Len(s) + 1)
           /\ \A i \in DOMAIN s : i \in 1..Len(s) /\ Append(s, e)[i] = s[i]
           /\ Append(s, e)[Len(s) + 1] = e
           /\ Range(Append(s, e)) = Range(s) \cup {e}
  <1>1. /\ Append(s, e) \in Seq(S)
        /\ Len(Append(s, e)) = Len(s) + 1
        /\ \A i \in 1..Len(s) : Append(s, e)[i] = s[i]
        /\ Append(s, e)[Len(s) + 1] = e
    BY AppendProperties
  <1>2. DOMAIN Append(s, e) = 1..(Len(s) + 1) /\ DOMAIN s = 1..Len(s) /\ Len(s) \in Nat
    BY <1>1, LenProperties
  <1>3. Range(Append(s, e)) = Range(s) \cup {e}
    BY <1>1, <1>2 DEF Range
  <1> QED BY <1>1, <1>2, <1>3

LEMMA TailFacts ==
    ASSUME NEW S, NEW s \in Seq(S), s # <<>>
    PROVE  /\ Tail(s) \in Seq(S)
           /\ Head(s) \in S /\ Head(s) = s[1] /\ 1 \in DOMAIN s
           /\ Len(Tail(s)) = Len(s) - 1
           /\ \A i \in DOMAIN Tail(s) : i + 1 \in DOMAIN s /\ Tail(s)[i] = s[i + 1]
           /\ \A i \in DOMAIN s : i > 1 => i - 1 \in DOMAIN Tail(s) /\ Tail(s)[i - 1] = s[i]
           /\ \A i \in DOMAIN s : i \in Nat \ {0}
  <1>1. /\ Head(s) \in S /\ Tail(s) \in Seq(S)
        /\ Len(Tail(s)) = Len(s) - 1
        /\ \A i \in 1..Len(Tail(s)) : Tail(s)[i] = s[i + 1]
    BY HeadTailProperties
  <1>2. Len(s) \in Nat /\ DOMAIN s = 1..Len(s) /\ DOMAIN Tail(s) = 1..Len(Tail(s))
    BY <1>1, LenProperties
  <1>3. Len(s) # 0 /\ Head(s) = s[1]
    BY <1>2, EmptySeq
  <1> QED BY <1>1, <1>2, <1>3
-----------------------------------------------------------------------------
(* An item being pushed is one of Items, as the call has been counted. *)
Counted == \A p \in Producers : pc[p] # "idle" => calls[p] > 0

TypeInv == TypeOK /\ Counted

LEMMA ProducerItem ==
    ASSUME TypeInv, NEW p \in Producers, pc[p] # "idle"
    PROVE  Item(p) = <<p, calls[p]>> /\ Item(p) \in Messages
  <1>1. calls[p] \in 0..MaxCalls /\ calls[p] > 0
    BY DEF TypeInv, TypeOK, Counted, Writers
  <1>2. calls[p] \in 1..MaxCalls
    BY <1>1, ReceiverAssumption DEF ReceiverAssumption
  <1> QED BY <1>2, ReceiverAssumption DEF Item, Messages, ReceiverAssumption

LEMMA ItemType ==
    ASSUME TypeInv, NEW w \in Writers, pc[w] # "idle"
    PROVE  Item(w) \in Items
  <1>1. CASE w \in Closers
    BY <1>1 DEF Item, Items
  <1>2. CASE w \in Producers
    BY <1>2, ProducerItem DEF Items
  <1> QED BY <1>1, <1>2 DEF Writers

LEMMA PutNowaitType ==
    ASSUME TypeInv, NEW item \in Items, PutNowait(item)
    PROVE  /\ asyncQ' \in Seq(Items)
           /\ task' \in [Tasks -> {"new", "next", "waiting", "woken", "stopped"}]
           /\ mirror' = mirror
  <1>1. asyncQ' \in Seq(Items)
    BY AppendFacts DEF PutNowait, TypeInv, TypeOK
  <1>2. task' \in [Tasks -> {"new", "next", "waiting", "woken", "stopped"}]
    BY DEF PutNowait, TypeInv, TypeOK
  <1> QED BY <1>1, <1>2 DEF PutNowait

LEMMA TypeInductive == Spec => []TypeInv
  <1>1. Init => TypeInv
    <2> SUFFICES ASSUME Init PROVE TypeInv
      OBVIOUS
    <2>1. <<>> \in Seq(Items) /\ <<>> \in Seq(Messages) /\ Len(<<>>) = 0
      BY EmptySeq
    <2>2. TypeOK
      <3>1. /\ pc \in [Writers -> {"idle", "enqueue", "route", "schedule", "direct"}]
            /\ calls \in [Writers -> 0..MaxCalls]
            /\ reader \in [Readers -> {"get", "expired", "stopped"}]
            /\ task \in [Tasks -> {"new", "next", "waiting", "woken", "stopped"}]
        BY ReceiverAssumption DEF Init, ReceiverAssumption
      <3>2. got \in [Readers \cup Tasks -> Seq(Messages)]
        BY <2>1 DEF Init
      <3>3. stops \in 0..MaxStops /\ (MaxSize > 0 => Len(syncQ) <= MaxSize)
        BY <2>1, ReceiverAssumption DEF Init, ReceiverAssumption
      <3> QED BY <2>1, <3>1, <3>2, <3>3 DEF Init, TypeOK
    <2> QED BY <2>2 DEF Init, TypeInv, Counted, Writers
  <1>2. TypeInv /\ [Next]_vars => TypeInv'
    <2> SUFFICES ASSUME TypeInv, [Next]_vars PROVE TypeInv'
      OBVIOUS
    <2> USE DEF TypeInv, TypeOK, Counted, GoTo
    <2>1. ASSUME NEW p \in Producers, PutBegin(p) PROVE TypeInv'
      <3>1. p \in Writers /\ calls[p] \in 0..MaxCalls /\ calls[p] < MaxCalls
        BY <2>1 DEF PutBegin, Writers
      <3>2. calls[p] + 1 \in 0..MaxCalls /\ calls[p] + 1 > 0
        BY <3>1, ReceiverAssumption DEF ReceiverAssumption
      <3>3. calls' \in [Writers -> 0..MaxCalls]
        BY <2>1, <3>1, <3>2 DEF PutBegin
      <3>4. pc' \in [Writers -> {"idle", "enqueue", "route", "schedule", "direct"}]
        BY <2>1, <3>1 DEF PutBegin
      <3>5. Counted'
        <4> SUFFICES ASSUME NEW q \in Producers, pc'[q] # "idle" PROVE calls'[q] > 0
          OBVIOUS
        <4>1. CASE q = p
          BY <2>1, <3>1, <3>2, <4>1 DEF PutBegin
        <4>2. CASE q # p
          BY <2>1, <3>1, <4>2 DEF PutBegin, Writers
        <4> QED BY <4>1, <4>2
      <3> QED BY <2>1, <3>3, <3>4, <3>5 DEF PutBegin, loopVars, mirrVars
    <2>2. ASSUME NEW k \in Closers, CloseBegin(k) PROVE TypeInv'
      BY <2>2, ReceiverAssumption
         DEF CloseBegin, loopVars, mirrVars, Writers, ReceiverAssumption
    <2>3. ASSUME NEW w \in Writers, Enqueue(w) PROVE TypeInv'
      <3>1. Item(w) \in Items
        BY <2>3, ItemType DEF Enqueue
      <3>2. syncQ' \in Seq(Items) /\ Len(syncQ') = Len(syncQ) + 1
        BY <2>3, <3>1, AppendFacts DEF Enqueue
      <3>3. MaxSize > 0 => Len(syncQ') <= MaxSize
        <4>1. Len(syncQ) \in Nat
          BY LenProperties
        <4> QED BY <2>3, <3>2, <4>1, ReceiverAssumption DEF Enqueue, HasRoom, ReceiverAssumption
      <3> QED BY <2>3, <3>2, <3>3 DEF Enqueue, loopVars, mirrVars, Writers
    <2>4. ASSUME NEW w \in Writers, EnqueueFull(w) PROVE TypeInv'
      BY <2>4 DEF EnqueueFull, loopVars, mirrVars, Writers
    <2>5. ASSUME NEW w \in Writers, Route(w) PROVE TypeInv'
      BY <2>5 DEF Route, loopVars, mirrVars, Writers
    <2>6. ASSUME NEW w \in Writers, Schedule(w) PROVE TypeInv'
      <3>1. Item(w) \in Items
        BY <2>6, ItemType DEF Schedule
      <3>2. ready' \in Seq(Items)
        <4>1. Append(ready, Item(w)) \in Seq(Items)
          BY <3>1, AppendFacts
        <4> QED BY <2>6, <4>1 DEF Schedule
      <3> QED BY <2>6, <3>2 DEF Schedule, Woken, mirrVars, Writers
    <2>7. ASSUME NEW w \in Writers, Direct(w) PROVE TypeInv'
      <3>1. Item(w) \in Items
        BY <2>7, ItemType DEF Direct
      <3> QED BY <2>7, <3>1, PutNowaitType DEF Direct, loopVars, Writers
    <2>8. ASSUME NEW r \in Readers, Take(r) PROVE TypeInv'
      <3>1. syncQ' \in Seq(Items) /\ Head(syncQ) \in Items /\ Len(syncQ') = Len(syncQ) - 1
        BY <2>8, TailFacts DEF Take
      <3>2. MaxSize > 0 => Len(syncQ') <= MaxSize
        <4>1. Len(syncQ) \in Nat
          BY LenProperties
        <4> QED BY <3>1, <4>1, ReceiverAssumption DEF ReceiverAssumption
      <3>3. got' \in [Readers \cup Tasks -> Seq(Messages)]
        <4>1. CASE Head(syncQ) = Sentinel
          BY <2>8, <4>1 DEF Take
        <4>2. CASE Head(syncQ) # Sentinel
          <5>1. Append(got[r], Head(syncQ)) \in Seq(Messages)
            BY <3>1, <4>2, AppendFacts DEF Items
          <5> QED BY <2>8, <4>2, <5>1 DEF Take
        <4> QED BY <4>1, <4>2
      <3> QED BY <2>8, <3>1, <3>2, <3>3 DEF Take, writeVars, loopVars, mirrVars
    <2>9. ASSUME NEW r \in Readers, Expire(r) \/ Recheck(r) PROVE TypeInv'
      BY <2>9 DEF Expire, Recheck, writeVars, loopVars, mirrVars
    <2>10. ASSUME NEW t \in Tasks, NEW c \in AttachContexts, Attach(t, c) PROVE TypeInv'
      BY <2>10 DEF Attach, Woken, writeVars
    <2>11. ASSUME NEW t \in Tasks, AsyncGet(t) PROVE TypeInv'
      <3>1. CASE asyncQ = <<>>
        BY <2>11, <3>1 DEF AsyncGet, writeVars, loopVars
      <3>2. CASE asyncQ # <<>>
        <4>1. asyncQ' \in Seq(Items) /\ Head(asyncQ) \in Items
          <5>1. Tail(asyncQ) \in Seq(Items) /\ Head(asyncQ) \in Items
            BY <3>2, TailFacts
          <5> QED BY <2>11, <3>2, <5>1 DEF AsyncGet
        <4>2. got' \in [Readers \cup Tasks -> Seq(Messages)]
          <5>1. CASE Head(asyncQ) = Sentinel
            BY <2>11, <3>2, <5>1 DEF AsyncGet
          <5>2. CASE Head(asyncQ) # Sentinel
            <6>1. Append(got[t], Head(asyncQ)) \in Seq(Messages)
              BY <4>1, <5>2, AppendFacts DEF Items
            <6> QED BY <2>11, <3>2, <5>2, <6>1 DEF AsyncGet
          <5> QED BY <5>1, <5>2
        <4> QED BY <2>11, <3>2, <4>1, <4>2 DEF AsyncGet, writeVars, loopVars
      <3> QED BY <3>1, <3>2
    <2>12. CASE RunCallback
      <3>1. ready' \in Seq(Items) /\ Head(ready) \in Items
        BY <2>12, TailFacts DEF RunCallback
      <3> QED BY <2>12, <3>1, PutNowaitType DEF RunCallback, writeVars
    <2>13. CASE LoopSleep \/ LoopWake \/ LoopStop \/ LoopRestart \/ LoopClose
      BY <2>13, ReceiverAssumption
         DEF LoopSleep, LoopWake, LoopStop, LoopRestart, LoopClose, LoopStep,
             writeVars, mirrVars, ReceiverAssumption
    <2>14. CASE UNCHANGED vars
      BY <2>14 DEF vars, writeVars, loopVars, mirrVars
    <2> QED
      BY <2>1, <2>2, <2>3, <2>4, <2>5, <2>6, <2>7, <2>8, <2>9, <2>10, <2>11, <2>12, <2>13, <2>14
         DEF Next, WriterStep, ReaderStep
  <1> QED BY <1>1, <1>2, PTL DEF Spec

(***************************************************************************)
(* Every variable keeps its type, and a bounded queue its bound: put_nowait *)
(* tests for room under the queue's own lock (line 68).                    *)
(***************************************************************************)
THEOREM TypeCorrect == Spec => []TypeOK
  <1>1. TypeInv => TypeOK
    BY DEF TypeInv
  <1> QED BY <1>1, TypeInductive, PTL
-----------------------------------------------------------------------------
(***************************************************************************)
(* The strengthening that makes the order of the sync queue inductive: the *)
(* sentinel is there only after close(), a queued message is older than    *)
(* the call under way, and a producer with a message behind the sentinel   *)
(* is not about to enqueue another.                                        *)
(***************************************************************************)
SentinelMeansClosed ==
    /\ Sentinel \in Range(syncQ) => closed
    /\ \A k \in Closers : pc[k] = "enqueue" => closed

Numbered ==
    \A i \in DOMAIN syncQ : syncQ[i] \in Messages =>
        /\ syncQ[i][2] <= calls[syncQ[i][1]]
        /\ pc[syncQ[i][1]] = "enqueue" => syncQ[i][2] < calls[syncQ[i][1]]

Settled ==
    \A i, j \in DOMAIN syncQ :
        i < j /\ syncQ[i] = Sentinel /\ syncQ[j] \in Messages
            => pc[syncQ[j][1]] # "enqueue"

QueueInv ==
    /\ SentinelMeansClosed
    /\ Numbered
    /\ Ordered(syncQ)
    /\ Settled
    /\ LateBound

(* A step that leaves the queue alone and starts no call. *)
Quiet ==
    /\ UNCHANGED <<closed, syncQ, calls>>
    /\ \A w \in Writers : pc'[w] = "enqueue" => pc[w] = "enqueue"

LEMMA MessageParts ==
    ASSUME NEW m \in Messages
    PROVE  m[1] \in Producers /\ m[1] \in Writers /\ m[2] \in Nat /\ m = <<m[1], m[2]>>
  BY ReceiverAssumption DEF Messages, Writers, ReceiverAssumption

LEMMA WriterTypes ==
    ASSUME TypeInv
    PROVE  /\ pc \in [Writers -> {"idle", "enqueue", "route", "schedule", "direct"}]
           /\ calls \in [Writers -> Nat]
           /\ syncQ \in Seq(Items)
  <1>1. \A w \in Writers : calls[w] \in Nat
    BY ReceiverAssumption DEF TypeInv, TypeOK, ReceiverAssumption
  <1> QED BY <1>1 DEF TypeInv, TypeOK

LEMMA QuietStep ==
    ASSUME QueueInv, Quiet
    PROVE  QueueInv'
  <1>1. SentinelMeansClosed'
    BY DEF QueueInv, SentinelMeansClosed, Quiet, Writers
  <1>2. Numbered'
    BY MessageParts DEF QueueInv, Numbered, Quiet
  <1>3. Settled'
    BY MessageParts DEF QueueInv, Settled, Quiet
  <1>4. Ordered(syncQ)' /\ LateBound'
    BY DEF QueueInv, Ordered, LateBound, OneLate, Quiet
  <1> QED BY <1>1, <1>2, <1>3, <1>4 DEF QueueInv

LEMMA PutBeginStep ==
    ASSUME TypeInv, QueueInv, NEW p \in Producers, PutBegin(p)
    PROVE  QueueInv'
  <1> USE DEF QueueInv
  <1>1. /\ UNCHANGED <<closed, syncQ>> /\ pc[p] = "idle"
        /\ calls' = [calls EXCEPT ![p] = @ + 1]
        /\ pc' = pc \/ (~closed /\ pc' = [pc EXCEPT ![p] = "enqueue"])
    BY DEF PutBegin, Admits, GoTo
  <1>2. /\ pc \in [Writers -> {"idle", "enqueue", "route", "schedule", "direct"}]
        /\ calls \in [Writers -> Nat]
        /\ p \in Writers /\ p \notin Closers
    BY WriterTypes, ReceiverAssumption DEF Writers, ReceiverAssumption
  <1>3. SentinelMeansClosed'
    BY <1>1, <1>2 DEF SentinelMeansClosed, Writers
  <1>4. Numbered'
    BY <1>1, <1>2, MessageParts DEF Numbered
  <1>5. Settled'
    <2> SUFFICES ASSUME NEW i \in DOMAIN syncQ, NEW j \in DOMAIN syncQ,
                        i < j, syncQ[i] = Sentinel, syncQ[j] \in Messages
                 PROVE  pc'[syncQ[j][1]] # "enqueue"
      BY <1>1 DEF Settled
    <2>1. closed
      BY DEF SentinelMeansClosed, Range
    <2> QED BY <1>1, <2>1 DEF Settled
  <1>6. Ordered(syncQ)' /\ LateBound'
    BY <1>1 DEF Ordered, LateBound, OneLate
  <1> QED BY <1>3, <1>4, <1>5, <1>6

LEMMA CloseBeginStep ==
    ASSUME TypeInv, QueueInv, NEW k \in Closers, CloseBegin(k)
    PROVE  QueueInv'
  <1> USE DEF QueueInv
  <1>1. /\ closed' /\ syncQ' = syncQ
        /\ \A p \in Producers : pc'[p] = pc[p] /\ calls'[p] = calls[p]
    BY ReceiverAssumption DEF CloseBegin, GoTo, TypeInv, TypeOK, Writers, ReceiverAssumption
  <1>2. SentinelMeansClosed'
    BY <1>1 DEF SentinelMeansClosed
  <1>3. Numbered' /\ Settled'
    BY <1>1, MessageParts DEF Numbered, Settled
  <1>4. Ordered(syncQ)' /\ LateBound'
    BY <1>1 DEF Ordered, LateBound, OneLate
  <1> QED BY <1>2, <1>3, <1>4

LEMMA EnqueueStep ==
    ASSUME TypeInv, QueueInv, NEW w \in Writers, Enqueue(w)
    PROVE  QueueInv'
  <1> USE DEF QueueInv
  <1>1. /\ pc[w] = "enqueue" /\ pc' = [pc EXCEPT ![w] = "route"]
        /\ UNCHANGED <<closed, calls>> /\ syncQ' = Append(syncQ, Item(w))
    BY DEF Enqueue, GoTo
  <1>2. /\ pc \in [Writers -> {"idle", "enqueue", "route", "schedule", "direct"}]
        /\ calls \in [Writers -> Nat]
        /\ syncQ \in Seq(Items) /\ Item(w) \in Items
    BY <1>1, WriterTypes, ItemType
  <1> DEFINE n == Len(syncQ) + 1
  <1>3. /\ n \in Nat /\ DOMAIN syncQ = 1..Len(syncQ) /\ DOMAIN syncQ' = 1..n
        /\ \A i \in DOMAIN syncQ : syncQ'[i] = syncQ[i]
        /\ syncQ'[n] = Item(w)
        /\ Range(syncQ') = Range(syncQ) \cup {Item(w)}
    BY <1>1, <1>2, AppendFacts, LenProperties
  <1>4. \A i \in DOMAIN syncQ' : i \in Nat /\ (i = n \/ (i \in DOMAIN syncQ /\ i < n))
    BY <1>2, <1>3, LenProperties
  <1>5. /\ w \in Closers => Item(w) = Sentinel
        /\ w \notin Closers => Item(w) = <<w, calls[w]>> /\ w \in Producers
        /\ Sentinel \notin Messages
    BY ReceiverAssumption DEF Item, Writers, ReceiverAssumption
  <1>6. Item(w) \in Messages => Item(w)[1] = w /\ Item(w)[2] = calls[w] /\ w \notin Closers
    BY <1>5
  <1> HIDE DEF n
  <1>7. SentinelMeansClosed'
    <2>1. \A k \in Closers : pc'[k] = "enqueue" => pc[k] = "enqueue"
      BY <1>1, <1>2 DEF Writers
    <2>2. w \notin Closers => Item(w) # Sentinel
      BY <1>1, <1>5, ProducerItem
    <2>3. Sentinel \in Range(syncQ') => closed
      BY <1>1, <1>3, <2>2 DEF SentinelMeansClosed
    <2> QED BY <1>1, <2>1, <2>3 DEF SentinelMeansClosed
  <1>8. Numbered'
    <2> SUFFICES ASSUME NEW i \in DOMAIN syncQ', syncQ'[i] \in Messages
                 PROVE  /\ syncQ'[i][2] <= calls[syncQ'[i][1]]
                        /\ pc'[syncQ'[i][1]] = "enqueue" => syncQ'[i][2] < calls[syncQ'[i][1]]
      BY <1>1 DEF Numbered
    <2>1. CASE i = n
      BY <1>1, <1>2, <1>3, <1>6, <2>1
    <2>2. CASE i \in DOMAIN syncQ
      BY <1>1, <1>2, <1>3, <2>2, MessageParts DEF Numbered
    <2> QED BY <1>4, <2>1, <2>2
  <1>9. Ordered(syncQ')
    <2> SUFFICES ASSUME NEW i \in DOMAIN syncQ', NEW j \in DOMAIN syncQ', i < j,
                        syncQ'[i] \in Messages, syncQ'[j] \in Messages,
                        syncQ'[i][1] = syncQ'[j][1]
                 PROVE  syncQ'[i][2] < syncQ'[j][2]
      BY DEF Ordered
    <2>1. i \in DOMAIN syncQ
      BY <1>3, <1>4
    <2>2. CASE j = n
      BY <1>1, <1>3, <1>6, <2>1, <2>2 DEF Numbered
    <2>3. CASE j \in DOMAIN syncQ
      BY <1>3, <2>1, <2>3 DEF Ordered
    <2> QED BY <1>4, <2>2, <2>3
  <1>10. Settled'
    <2> SUFFICES ASSUME NEW i \in DOMAIN syncQ', NEW j \in DOMAIN syncQ', i < j,
                        syncQ'[i] = Sentinel, syncQ'[j] \in Messages
                 PROVE  pc'[syncQ'[j][1]] # "enqueue"
      BY DEF Settled
    <2>1. i \in DOMAIN syncQ
      BY <1>3, <1>4
    <2>2. CASE j = n
      BY <1>1, <1>2, <1>3, <1>6, <2>2
    <2>3. CASE j \in DOMAIN syncQ
      BY <1>1, <1>2, <1>3, <2>1, <2>3, MessageParts DEF Settled
    <2> QED BY <1>4, <2>2, <2>3
  <1>11. OneLate(syncQ')
    <2> SUFFICES ASSUME NEW i \in DOMAIN syncQ', NEW j \in DOMAIN syncQ',
                        NEW k \in DOMAIN syncQ', i < j, j < k, syncQ'[i] = Sentinel,
                        syncQ'[j] \in Messages, syncQ'[k] \in Messages
                 PROVE  syncQ'[j][1] # syncQ'[k][1]
      BY DEF OneLate
    <2>1. i \in DOMAIN syncQ /\ j \in DOMAIN syncQ
      BY <1>3, <1>4
    <2>2. CASE k = n
      BY <1>1, <1>3, <1>6, <2>1, <2>2 DEF Settled
    <2>3. CASE k \in DOMAIN syncQ
      BY <1>3, <2>1, <2>3 DEF LateBound, OneLate
    <2> QED BY <1>4, <2>2, <2>3
  <1> QED BY <1>7, <1>8, <1>9, <1>10, <1>11 DEF LateBound

LEMMA TakeStep ==
    ASSUME TypeInv, QueueInv, NEW r \in Readers, Take(r)
    PROVE  QueueInv'
  <1> USE DEF QueueInv
  <1>1. /\ syncQ # <<>> /\ syncQ' = Tail(syncQ) /\ UNCHANGED <<closed, pc, calls>>
        /\ syncQ \in Seq(Items)
    BY DEF Take, writeVars, TypeInv, TypeOK
  <1>2. /\ \A i \in DOMAIN syncQ' : i + 1 \in DOMAIN syncQ /\ syncQ'[i] = syncQ[i + 1]
        /\ DOMAIN syncQ' \subseteq Nat
    BY <1>1, TailFacts, LenProperties
  <1>3. SentinelMeansClosed'
    BY <1>1, <1>2 DEF SentinelMeansClosed, Range
  <1>4. Numbered'
    BY <1>1, <1>2 DEF Numbered
  <1>5. Ordered(syncQ') /\ Settled'
    BY <1>1, <1>2 DEF Ordered, Settled
  <1>6. OneLate(syncQ')
    <2> SUFFICES ASSUME NEW i \in DOMAIN syncQ', NEW j \in DOMAIN syncQ',
                        NEW k \in DOMAIN syncQ', i < j, j < k, syncQ'[i] = Sentinel,
                        syncQ'[j] \in Messages, syncQ'[k] \in Messages
                 PROVE  syncQ'[j][1] # syncQ'[k][1]
      BY DEF OneLate
    <2>1. i + 1 < j + 1 /\ j + 1 < k + 1
      BY <1>2
    <2> QED BY <1>2, <2>1 DEF LateBound, OneLate
  <1> QED BY <1>3, <1>4, <1>5, <1>6 DEF LateBound

LEMMA QueueInductive == Spec => []QueueInv
  <1>1. Init => QueueInv
    BY DEF Init, QueueInv, SentinelMeansClosed, Numbered, Ordered, Settled, LateBound,
           OneLate, Range, Writers
  <1>2. TypeInv /\ QueueInv /\ [Next]_vars => QueueInv'
    <2> SUFFICES ASSUME TypeInv, QueueInv, [Next]_vars PROVE QueueInv'
      OBVIOUS
    <2>1. ASSUME NEW w \in Writers, EnqueueFull(w) \/ Route(w) \/ Schedule(w) \/ Direct(w)
          PROVE  Quiet
      BY <2>1 DEF EnqueueFull, Route, Schedule, Direct, GoTo, Quiet, TypeInv, TypeOK
    <2>2. ASSUME NEW r \in Readers, Expire(r) \/ Recheck(r) PROVE Quiet
      BY <2>2 DEF Expire, Recheck, Quiet, writeVars
    <2>3. ASSUME NEW t \in Tasks,
                 AsyncGet(t) \/ \E c \in AttachContexts : Attach(t, c)
          PROVE  Quiet
      BY <2>3 DEF AsyncGet, Attach, Quiet, writeVars
    <2>4. CASE RunCallback \/ LoopSleep \/ LoopWake \/ LoopStop \/ LoopRestart \/ LoopClose
      <3>1. Quiet
        BY <2>4 DEF RunCallback, LoopSleep, LoopWake, LoopStop, LoopRestart, LoopClose,
                    LoopStep, Quiet, writeVars
      <3> QED BY <3>1, QuietStep
    <2>5. CASE UNCHANGED vars
      <3>1. Quiet
        BY <2>5 DEF vars, Quiet, writeVars
      <3> QED BY <3>1, QuietStep
    <2> QED
      BY <2>1, <2>2, <2>3, <2>4, <2>5, PutBeginStep, CloseBeginStep, EnqueueStep, TakeStep,
         QuietStep DEF Next, WriterStep, ReaderStep
  <1> QED BY <1>1, <1>2, TypeInductive, PTL DEF Spec

(***************************************************************************)
(* However many producers race with close(), each loses at most the call   *)
(* that was under way behind the sentinel (lines 66-68 and 73-74).         *)
(***************************************************************************)
THEOREM LateBounded == Spec => []LateBound
  <1>1. QueueInv => LateBound
    BY DEF QueueInv
  <1> QED BY <1>1, QueueInductive, PTL
-----------------------------------------------------------------------------
(***************************************************************************)
(* Refinement.  Each step of the receiver is a step of the channel or      *)
(* leaves unchanged what the channel sees of it.                           *)
(***************************************************************************)
Seen == <<~closed, [p \in Producers |-> calls[p]], InFlight, Queued, Delivered, Ended>>

LEMMA InFlightMember ==
    \A m : m \in InFlight <=> \E p \in Producers : pc[p] = "enqueue" /\ m = <<p, calls[p]>>
  BY ReceiverAssumption DEF InFlight, Item, ReceiverAssumption

LEMMA InFlightMemberNext ==
    \A m : m \in InFlight' <=> \E p \in Producers : pc'[p] = "enqueue" /\ m = <<p, calls'[p]>>
  BY ReceiverAssumption DEF InFlight, Item, ReceiverAssumption

(* The writer w goes from "enqueue" to another place. *)
LEMMA InFlightLeave ==
    ASSUME TypeInv, NEW w \in Writers, NEW place \in {"idle", "route"},
           pc[w] = "enqueue", GoTo(w, place), calls' = calls
    PROVE  /\ w \in Producers => InFlight' = InFlight \ {Item(w)} /\ Item(w) \in InFlight
           /\ w \notin Producers => InFlight' = InFlight
  <1>1. /\ \A p \in Producers : p # w => pc'[p] = pc[p]
        /\ pc'[w] = place
    BY WriterTypes DEF GoTo, Writers
  <1>2. CASE w \in Producers
    <2>1. Item(w) = <<w, calls[w]>>
      BY <1>2, ReceiverAssumption DEF Item, ReceiverAssumption
    <2> QED BY <1>1, <1>2, <2>1, InFlightMember, InFlightMemberNext
  <1>3. CASE w \notin Producers
    BY <1>1, <1>3, InFlightMember, InFlightMemberNext
  <1> QED BY <1>2, <1>3

LEMMA InFlightSame ==
    ASSUME TypeInv, \A p \in Producers : /\ pc'[p] = "enqueue" <=> pc[p] = "enqueue"
                                        /\ calls'[p] = calls[p]
    PROVE  InFlight' = InFlight
  BY InFlightMember, InFlightMemberNext

LEMMA PutBeginRefines ==
    ASSUME TypeInv, NEW p \in Producers, PutBegin(p)
    PROVE  Channel!Begin(p)
  <1>1. /\ pc[p] = "idle" /\ calls' = [calls EXCEPT ![p] = @ + 1]
        /\ IF ~closed THEN pc' = [pc EXCEPT ![p] = "enqueue"] ELSE pc' = pc
        /\ UNCHANGED <<closed, syncQ, reader, got>>
    BY DEF PutBegin, Admits, GoTo
  <1>2. \A m \in InFlight : m[1] # p
    BY <1>1, InFlightMember
  <1>3. [q \in Producers |-> calls'[q]]
            = [[q \in Producers |-> calls[q]] EXCEPT ![p] = @ + 1]
    BY <1>1, WriterTypes DEF Writers
  <1>4. InFlight' = IF ~closed THEN InFlight \cup {<<p, calls[p] + 1>>} ELSE InFlight
    <2>1. \A q \in Producers : calls'[q] = IF q = p THEN calls[q] + 1 ELSE calls[q]
      BY <1>1, WriterTypes DEF Writers
    <2>2. CASE ~closed
      <3>1. \A q \in Producers : pc'[q] = "enqueue" <=> pc[q] = "enqueue" \/ q = p
        BY <1>1, <2>2, WriterTypes DEF Writers
      <3> QED BY <1>1, <2>1, <2>2, <3>1, InFlightMember, InFlightMemberNext
    <2>3. CASE closed
      BY <1>1, <2>1, <2>3, InFlightMember, InFlightMemberNext
    <2> QED BY <2>2, <2>3
  <1>5. UNCHANGED <<Queued, Delivered, Ended>> /\ [q \in Producers |-> calls[q]][p] = calls[p]
    BY <1>1 DEF Queued, Delivered, Ended
  <1> QED BY <1>1, <1>2, <1>3, <1>4, <1>5 DEF Channel!Begin

LEMMA CloseBeginRefines ==
    ASSUME TypeInv, NEW k \in Closers, CloseBegin(k)
    PROVE  Channel!Close
  <1>1. /\ closed' = TRUE /\ UNCHANGED <<syncQ, reader, got>>
        /\ \A p \in Producers : pc'[p] = pc[p] /\ calls'[p] = calls[p]
    BY ReceiverAssumption, WriterTypes DEF CloseBegin, GoTo, Writers, ReceiverAssumption
  <1>2. InFlight' = InFlight
    BY <1>1, InFlightSame
  <1>3. UNCHANGED <<Queued, Delivered, Ended>>
    BY <1>1 DEF Queued, Delivered, Ended
  <1>4. [p \in Producers |-> calls'[p]] = [p \in Producers |-> calls[p]]
    BY <1>1
  <1> QED BY <1>1, <1>2, <1>3, <1>4 DEF Channel!Close

LEMMA EnqueueRefines ==
    ASSUME TypeInv, NEW w \in Writers, Enqueue(w)
    PROVE  (w \in Producers /\ Channel!Accept(Item(w))) \/ UNCHANGED Seen
  <1>1. /\ pc[w] = "enqueue" /\ GoTo(w, "route")
        /\ UNCHANGED <<closed, calls, reader, got>> /\ syncQ' = Append(syncQ, Item(w))
    BY DEF Enqueue
  <1>2. Range(syncQ') = Range(syncQ) \cup {Item(w)}
    <2>1. Item(w) \in Items
      BY <1>1, ItemType
    <2> QED BY <1>1, <2>1, WriterTypes, AppendFacts
  <1>3. UNCHANGED <<Delivered, Ended>>
    BY <1>1 DEF Delivered, Ended
  <1>4. CASE w \in Producers
    <2>1. InFlight' = InFlight \ {Item(w)} /\ Item(w) \in InFlight
      BY <1>1, <1>4, InFlightLeave
    <2>2. Queued' = Queued \cup {Item(w)}
      BY <1>1, <1>2, <1>4, ProducerItem DEF Queued
    <2> QED BY <1>1, <1>3, <1>4, <2>1, <2>2 DEF Channel!Accept
  <1>5. CASE w \notin Producers
    <2>1. Item(w) = Sentinel
      BY <1>5 DEF Item, Writers
    <2>2. Queued' = Queued
      BY <1>2, <2>1, ReceiverAssumption DEF Queued, ReceiverAssumption
    <2>3. InFlight' = InFlight
      BY <1>1, <1>5, InFlightLeave
    <2> QED BY <1>1, <1>3, <2>2, <2>3 DEF Seen
  <1> QED BY <1>4, <1>5

LEMMA EnqueueFullRefines ==
    ASSUME TypeInv, NEW w \in Writers, EnqueueFull(w)
    PROVE  (w \in Producers /\ Channel!Refuse(Item(w))) \/ UNCHANGED Seen
  <1>1. /\ pc[w] = "enqueue" /\ GoTo(w, "idle")
        /\ UNCHANGED <<closed, calls, reader, got, syncQ>>
    BY DEF EnqueueFull
  <1>2. UNCHANGED <<Queued, Delivered, Ended>>
    BY <1>1 DEF Queued, Delivered, Ended
  <1>3. CASE w \in Producers
    <2>1. InFlight' = InFlight \ {Item(w)} /\ Item(w) \in InFlight
      BY <1>1, <1>3, InFlightLeave
    <2> QED BY <1>1, <1>2, <1>3, <2>1 DEF Channel!Refuse
  <1>4. CASE w \notin Producers
    <2>1. InFlight' = InFlight
      BY <1>1, <1>4, InFlightLeave
    <2> QED BY <1>1, <1>2, <2>1 DEF Seen
  <1> QED BY <1>3, <1>4

LEMMA TakeRefines ==
    ASSUME TypeInv, QueueInv, NEW r \in Readers, Take(r)
    PROVE  Channel!End(r) \/ \E m \in Queued : Channel!Deliver(r, m)
  <1>1. /\ reader[r] = "get" /\ syncQ # <<>> /\ syncQ' = Tail(syncQ)
        /\ UNCHANGED <<closed, pc, calls>> /\ syncQ \in Seq(Items)
        /\ reader \in [Readers -> {"get", "expired", "stopped"}]
        /\ got \in [Readers \cup Tasks -> Seq(Messages)]
    BY DEF Take, writeVars, TypeInv, TypeOK
  <1> DEFINE m == Head(syncQ)
  <1>2. /\ m \in Items /\ m = syncQ[1] /\ 1 \in DOMAIN syncQ
        /\ \A i \in DOMAIN syncQ' : i + 1 \in DOMAIN syncQ /\ syncQ'[i] = syncQ[i + 1]
        /\ \A i \in DOMAIN syncQ : i > 1 => i - 1 \in DOMAIN syncQ' /\ syncQ'[i - 1] = syncQ[i]
        /\ \A i \in DOMAIN syncQ : i \in Nat \ {0}
        /\ DOMAIN syncQ' \subseteq Nat \ {0}
    BY <1>1, TailFacts, LenProperties
  <1> HIDE DEF m
  <1>3. InFlight' = InFlight
    BY <1>1, InFlightSame
  <1>4. Range(syncQ) = Range(syncQ') \cup {m}
    <2>1. ASSUME NEW x \in Range(syncQ), x # m PROVE x \in Range(syncQ')
      <3>1. PICK i \in DOMAIN syncQ : x = syncQ[i]
        BY DEF Range
      <3>2. i > 1
        BY <1>2, <2>1, <3>1
      <3> QED BY <1>2, <3>1, <3>2 DEF Range
    <2> QED BY <1>2, <2>1 DEF Range
  <1>5. CASE m = Sentinel
    <2>1. closed
      BY <1>4, <1>5 DEF QueueInv, SentinelMeansClosed
    <2>2. reader' = [reader EXCEPT ![r] = "stopped"] /\ got' = got
      BY <1>5 DEF Take, m
    <2>3. Ended' = Ended \cup {r}
      BY <1>1, <2>2 DEF Ended
    <2>4. Queued' = Queued
      BY <1>4, <1>5, ReceiverAssumption DEF Queued, ReceiverAssumption
    <2>5. Delivered' = Delivered
      BY <2>2 DEF Delivered
    <2> QED BY <1>1, <1>3, <2>1, <2>3, <2>4, <2>5 DEF Channel!End
  <1>6. CASE m # Sentinel
    <2>1. m \in Messages /\ m \in Queued
      BY <1>2, <1>4, <1>6 DEF Items, Queued
    <2>2. reader' = reader /\ got' = [got EXCEPT ![r] = Append(@, m)]
      BY <1>6 DEF Take, m
    <2>3. r \notin Ended /\ Ended' = Ended
      BY <1>1, <2>2 DEF Ended
    <2>4. \A k \in Queued : k[1] = m[1] => m[2] <= k[2]
      <3> SUFFICES ASSUME NEW k \in Queued, k[1] = m[1] PROVE m[2] <= k[2]
        OBVIOUS
      <3>1. PICK i \in DOMAIN syncQ : k = syncQ[i] /\ k \in Messages
        BY DEF Queued, Range
      <3>2. m[2] \in Nat /\ k[2] \in Nat
        BY <2>1, <3>1, MessageParts
      <3>3. CASE i = 1
        BY <1>2, <3>1, <3>2, <3>3
      <3>4. CASE i # 1
        <4>1. m[2] < k[2]
          BY <1>2, <2>1, <3>1, <3>4 DEF QueueInv, Ordered
        <4> QED BY <3>2, <4>1
      <3> QED BY <3>3, <3>4
    <2>5. Queued' = Queued \ {m}
      <3>1. m \notin Range(syncQ')
        <4> SUFFICES ASSUME NEW i \in DOMAIN syncQ', syncQ'[i] = m PROVE FALSE
          BY DEF Range
        <4>1. m[2] < m[2]
          BY <1>2, <2>1 DEF QueueInv, Ordered
        <4> QED BY <2>1, <4>1, MessageParts
      <3> QED BY <1>4, <3>1 DEF Queued
    <2>6. Delivered' = Delivered \cup {m}
      <3>1. /\ Range(got'[r]) = Range(got[r]) \cup {m}
            /\ \A q \in Readers : q # r => got'[q] = got[q]
        BY <1>1, <2>1, <2>2, AppendFacts
      <3> QED BY <3>1 DEF Delivered
    <2> QED BY <1>1, <1>3, <2>1, <2>3, <2>4, <2>5, <2>6 DEF Channel!Deliver
  <1> QED BY <1>5, <1>6

LEMMA RecheckRefines ==
    ASSUME TypeInv, NEW r \in Readers, Recheck(r)
    PROVE  Channel!End(r) \/ UNCHANGED Seen
  <1>1. /\ reader[r] = "expired"
        /\ reader' = [reader EXCEPT ![r] = IF closed THEN "stopped" ELSE "get"]
        /\ reader \in [Readers -> {"get", "expired", "stopped"}]
        /\ UNCHANGED <<closed, syncQ, got, pc, calls>>
    BY DEF Recheck, writeVars, TypeInv, TypeOK
  <1>2. UNCHANGED <<InFlight, Queued, Delivered>>
    BY <1>1, InFlightSame DEF Queued, Delivered
  <1>3. CASE closed
    <2>1. Ended' = Ended \cup {r}
      BY <1>1, <1>3 DEF Ended
    <2> QED BY <1>1, <1>2, <1>3, <2>1 DEF Channel!End
  <1>4. CASE ~closed
    <2>1. Ended' = Ended
      BY <1>1, <1>4 DEF Ended
    <2> QED BY <1>1, <1>2, <2>1 DEF Seen
  <1> QED BY <1>3, <1>4

(* A step that the channel does not see. *)
LEMMA Unseen ==
    ASSUME TypeInv, UNCHANGED <<closed, syncQ, calls>>,
           \A p \in Producers : pc'[p] = "enqueue" <=> pc[p] = "enqueue",
           \A r \in Readers : /\ got'[r] = got[r]
                              /\ reader'[r] = "stopped" <=> reader[r] = "stopped"
    PROVE  UNCHANGED Seen
  <1>1. InFlight' = InFlight
    BY InFlightSame
  <1>2. UNCHANGED <<Queued, Delivered, Ended>>
    BY DEF Queued, Delivered, Ended
  <1> QED BY <1>1, <1>2 DEF Seen

(* Every step of the receiver is one of the channel, or one it does not see.   *)
LEMMA ChannelStep ==
    ASSUME TypeInv, QueueInv, [Next]_vars
    PROVE  Channel!Next \/ UNCHANGED Seen
  <1> USE DEF Channel!Next
  <1>1. ASSUME NEW p \in Producers, PutBegin(p) PROVE Channel!Next
    BY <1>1, PutBeginRefines
  <1>2. ASSUME NEW k \in Closers, CloseBegin(k) PROVE Channel!Next
    BY <1>2, CloseBeginRefines
  <1>3. ASSUME NEW w \in Writers, Enqueue(w) \/ EnqueueFull(w)
        PROVE  Channel!Next \/ UNCHANGED Seen
    <2>1. w \in Producers => Item(w) \in InFlight
      BY <1>3, InFlightMember, ProducerItem DEF Enqueue, EnqueueFull
    <2> QED BY <1>3, <2>1, EnqueueRefines, EnqueueFullRefines
  <1>4. ASSUME NEW w \in Writers, Route(w) \/ Schedule(w) \/ Direct(w)
        PROVE  UNCHANGED Seen
    <2>1. /\ UNCHANGED <<closed, syncQ, calls, reader, got>>
          /\ \A p \in Producers : pc'[p] = "enqueue" <=> pc[p] = "enqueue"
      BY <1>4, WriterTypes DEF Route, Schedule, Direct, GoTo, Writers
    <2> QED BY <2>1, Unseen
  <1>5. ASSUME NEW r \in Readers, Take(r) PROVE Channel!Next
    BY <1>5, TakeRefines
  <1>6. ASSUME NEW r \in Readers, Recheck(r) PROVE Channel!Next \/ UNCHANGED Seen
    BY <1>6, RecheckRefines
  <1>7. ASSUME NEW r \in Readers, Expire(r) PROVE UNCHANGED Seen
    <2>1. /\ UNCHANGED <<closed, syncQ, calls, pc, got>>
          /\ \A q \in Readers : reader'[q] = "stopped" <=> reader[q] = "stopped"
      BY <1>7 DEF Expire, writeVars, TypeInv, TypeOK
    <2> QED BY <2>1, Unseen
  <1>8. ASSUME NEW t \in Tasks, AsyncGet(t) \/ \E c \in AttachContexts : Attach(t, c)
        PROVE  UNCHANGED Seen
    <2>1. /\ UNCHANGED <<closed, syncQ, calls, pc, reader>>
          /\ \A r \in Readers : got'[r] = got[r]
      BY <1>8, ReceiverAssumption
         DEF AsyncGet, Attach, writeVars, TypeInv, TypeOK, ReceiverAssumption
    <2> QED BY <2>1, Unseen
  <1>9. CASE RunCallback \/ LoopSleep \/ LoopWake \/ LoopStop \/ LoopRestart \/ LoopClose
    <2>1. UNCHANGED <<closed, syncQ, calls, pc, reader, got>>
      BY <1>9 DEF RunCallback, LoopSleep, LoopWake, LoopStop, LoopRestart, LoopClose,
                  LoopStep, writeVars
    <2> QED BY <2>1, Unseen
  <1>10. CASE UNCHANGED vars
    <2>1. UNCHANGED <<closed, syncQ, calls, pc, reader, got>>
      BY <1>10 DEF vars, writeVars
    <2> QED BY <2>1, Unseen
  <1> QED
    BY <1>1, <1>2, <1>3, <1>4, <1>5, <1>6, <1>7, <1>8, <1>9, <1>10
       DEF Next, WriterStep, ReaderStep

(***************************************************************************)
(* For any number of producers, closers, iterations and calls, readers see *)
(* of a MessageReceiver only what a DeliveryChannel allows.                *)
(***************************************************************************)
THEOREM Refinement == Spec => IsChannel
  <1>1. Init => Channel!Init
    <2> SUFFICES ASSUME Init PROVE Channel!Init
      OBVIOUS
    <2>1. InFlight = {}
      BY InFlightMember DEF Init, Writers
    <2>2. Queued = {} /\ Delivered = {} /\ Ended = {}
      BY DEF Init, Queued, Delivered, Ended, Range
    <2>3. [p \in Producers |-> calls[p]] = [p \in Producers |-> 0]
      BY DEF Init, Writers
    <2> QED BY <2>1, <2>2, <2>3 DEF Init, Channel!Init
  <1>2. TypeInv /\ QueueInv /\ [Next]_vars => [Channel!Next]_(Channel!vars)
    BY ChannelStep DEF Seen, Channel!vars
  <1> QED BY <1>1, <1>2, TypeInductive, QueueInductive, PTL DEF Spec, IsChannel, Channel!Spec
-----------------------------------------------------------------------------
(***************************************************************************)
(* What tail and append do to the order of a sequence and to what it       *)
(* repeats.                                                                *)
(***************************************************************************)
LEMMA RangeTail ==
    ASSUME NEW S, NEW s \in Seq(S), s # <<>>
    PROVE  Range(s) = Range(Tail(s)) \cup {Head(s)}
  <1>1. /\ Head(s) = s[1] /\ 1 \in DOMAIN s
        /\ \A i \in DOMAIN Tail(s) : i + 1 \in DOMAIN s /\ Tail(s)[i] = s[i + 1]
        /\ \A i \in DOMAIN s : i > 1 => i - 1 \in DOMAIN Tail(s) /\ Tail(s)[i - 1] = s[i]
        /\ \A i \in DOMAIN s : i \in Nat \ {0}
    BY TailFacts
  <1>2. ASSUME NEW x \in Range(s), x # Head(s) PROVE x \in Range(Tail(s))
    <2>1. PICK i \in DOMAIN s : x = s[i]
      BY DEF Range
    <2>2. i > 1
      BY <1>1, <1>2, <2>1
    <2> QED BY <1>1, <2>1, <2>2 DEF Range
  <1>3. Range(Tail(s)) \subseteq Range(s) /\ Head(s) \in Range(s)
    BY <1>1 DEF Range
  <1> QED BY <1>2, <1>3

LEMMA OrderedAppend ==
    ASSUME NEW S, NEW s \in Seq(S), NEW e \in S, Ordered(s),
           \A m \in Range(s) : m \in Messages /\ e \in Messages /\ m[1] = e[1] => m[2] < e[2]
    PROVE  Ordered(Append(s, e))
  <1>1. /\ DOMAIN Append(s, e) = 1..(Len(s) + 1) /\ Len(s) \in Nat /\ DOMAIN s = 1..Len(s)
        /\ \A i \in DOMAIN s : Append(s, e)[i] = s[i] /\ s[i] \in Range(s)
        /\ Append(s, e)[Len(s) + 1] = e
    BY AppendFacts, LenProperties DEF Range
  <1> DEFINE a == Append(s, e)
  <1> HIDE DEF a
  <1> SUFFICES ASSUME NEW i \in DOMAIN a, NEW j \in DOMAIN a, i < j,
                      a[i] \in Messages, a[j] \in Messages, a[i][1] = a[j][1]
               PROVE  a[i][2] < a[j][2]
    BY DEF Ordered, a
  <1>2. i \in DOMAIN s /\ (j \in DOMAIN s \/ j = Len(s) + 1)
    BY <1>1 DEF a
  <1>3. CASE j \in DOMAIN s
    BY <1>1, <1>2, <1>3 DEF Ordered, a
  <1>4. CASE j = Len(s) + 1
    BY <1>1, <1>2, <1>4 DEF a
  <1> QED BY <1>2, <1>3, <1>4

LEMMA OrderedTail ==
    ASSUME NEW S, NEW s \in Seq(S), s # <<>>, Ordered(s)
    PROVE  /\ Ordered(Tail(s))
           /\ \A m \in Range(Tail(s)) :
                 m \in Messages /\ Head(s) \in Messages /\ Head(s)[1] = m[1] => Head(s)[2] < m[2]
  <1>1. /\ Head(s) = s[1] /\ 1 \in DOMAIN s
        /\ \A i \in DOMAIN Tail(s) : i + 1 \in DOMAIN s /\ Tail(s)[i] = s[i + 1]
        /\ DOMAIN Tail(s) \subseteq Nat \ {0}
    BY TailFacts, LenProperties
  <1>2. Ordered(Tail(s))
    BY <1>1 DEF Ordered
  <1>3. ASSUME NEW m \in Range(Tail(s)), m \in Messages, Head(s) \in Messages, Head(s)[1] = m[1]
        PROVE  Head(s)[2] < m[2]
    <2>1. PICK i \in DOMAIN Tail(s) : m = Tail(s)[i]
      BY DEF Range
    <2>2. 1 < i + 1 /\ i + 1 \in DOMAIN s /\ m = s[i + 1]
      BY <1>1, <2>1
    <2> QED BY <1>1, <1>3, <2>2 DEF Ordered
  <1> QED BY <1>2, <1>3

(* A message stands in the sequence only once. *)
NoRepeat(s) == \A i, j \in DOMAIN s : s[i] = s[j] /\ s[i] \in Messages => i = j

LEMMA NoRepeatAppend ==
    ASSUME NEW S, NEW s \in Seq(S), NEW e \in S, NoRepeat(s), e \in Messages => e \notin Range(s)
    PROVE  NoRepeat(Append(s, e))
  <1>1. /\ DOMAIN Append(s, e) = 1..(Len(s) + 1) /\ Len(s) \in Nat /\ DOMAIN s = 1..Len(s)
        /\ \A i \in DOMAIN s : Append(s, e)[i] = s[i] /\ s[i] \in Range(s)
        /\ Append(s, e)[Len(s) + 1] = e
    BY AppendFacts, LenProperties DEF Range
  <1> DEFINE a == Append(s, e)
  <1> HIDE DEF a
  <1> SUFFICES ASSUME NEW i \in DOMAIN a, NEW j \in DOMAIN a, a[i] = a[j], a[i] \in Messages
               PROVE  i = j
    BY DEF NoRepeat, a
  <1>2. (i \in DOMAIN s \/ i = Len(s) + 1) /\ (j \in DOMAIN s \/ j = Len(s) + 1)
    BY <1>1 DEF a
  <1>3. CASE i \in DOMAIN s /\ j \in DOMAIN s
    BY <1>1, <1>3 DEF NoRepeat, a
  <1>4. CASE i = Len(s) + 1 \/ j = Len(s) + 1
    BY <1>1, <1>2, <1>4 DEF a
  <1> QED BY <1>2, <1>3, <1>4

LEMMA NoRepeatTail ==
    ASSUME NEW S, NEW s \in Seq(S), s # <<>>, NoRepeat(s)
    PROVE  NoRepeat(Tail(s)) /\ (Head(s) \in Messages => Head(s) \notin Range(Tail(s)))
  <1>1. /\ Head(s) = s[1] /\ 1 \in DOMAIN s
        /\ \A i \in DOMAIN Tail(s) : i + 1 \in DOMAIN s /\ Tail(s)[i] = s[i + 1]
        /\ DOMAIN Tail(s) \subseteq Nat \ {0}
    BY TailFacts, LenProperties
  <1>2. NoRepeat(Tail(s))
    <2> SUFFICES ASSUME NEW i \in DOMAIN Tail(s), NEW j \in DOMAIN Tail(s),
                        Tail(s)[i] = Tail(s)[j], Tail(s)[i] \in Messages
                 PROVE  i = j
      BY DEF NoRepeat
    <2>1. i + 1 = j + 1
      BY <1>1 DEF NoRepeat
    <2> QED BY <1>1, <2>1
  <1>3. ASSUME Head(s) \in Messages, NEW i \in DOMAIN Tail(s), Tail(s)[i] = Head(s) PROVE FALSE
    <2>1. i + 1 = 1
      BY <1>1, <1>3 DEF NoRepeat
    <2> QED BY <1>1, <2>1
  <1> QED BY <1>2, <1>3 DEF Range
-----------------------------------------------------------------------------
(***************************************************************************)
(* The async mirror.  An item goes from its writer to the loop's callbacks *)
(* or straight into the async queue, from the callbacks into the queue,    *)
(* and from the queue to a task; no other step touches any of them.        *)
(***************************************************************************)
Pushed(w) ==
    /\ pc[w] = "schedule" /\ GoTo(w, "idle") /\ UNCHANGED <<calls, stops, mirror>>
    /\ ready' = Append(ready, Item(w)) /\ asyncQ' = asyncQ
    /\ \A t \in Tasks : got'[t] = got[t]

Entered(w) ==
    /\ pc[w] = "direct" /\ GoTo(w, "idle") /\ UNCHANGED <<calls, stops, mirror>>
    /\ asyncQ' = Append(asyncQ, Item(w)) /\ ready' = ready
    /\ \A t \in Tasks : got'[t] = got[t]

Handed ==
    /\ UNCHANGED <<calls, pc, stops, mirror>>
    /\ ready # <<>> /\ ready' = Tail(ready) /\ asyncQ' = Append(asyncQ, Head(ready))
    /\ \A t \in Tasks : got'[t] = got[t]

Fetched(t) ==
    /\ UNCHANGED <<calls, pc, stops, mirror>>
    /\ asyncQ # <<>> /\ asyncQ' = Tail(asyncQ) /\ ready' = ready
    /\ got'[t] = IF Head(asyncQ) = Sentinel THEN got[t] ELSE Append(got[t], Head(asyncQ))
    /\ \A u \in Tasks : u # t => got'[u] = got[u]

Apart ==
    /\ UNCHANGED <<asyncQ, ready>> /\ stops' >= stops
    /\ \A t \in Tasks : got'[t] = got[t]

(* What a producer has called only grows, and a call it is in was begun by a   *)
(* step that counted it.                                                       *)
CallsGrow ==
    \A p \in Producers :
        \/ calls'[p] = calls[p] /\ (pc'[p] # "idle" => pc[p] # "idle")
        \/ calls'[p] = calls[p] + 1

LEMMA MirrorMoves ==
    ASSUME TypeInv, [Next]_vars
    PROVE  /\ CallsGrow
           /\ \/ \E w \in Writers : Pushed(w) \/ Entered(w)
              \/ Handed \/ Apart
              \/ \E t \in Tasks : Fetched(t)
  <1> USE WriterTypes, ReceiverAssumption DEF writeVars, loopVars, mirrVars, GoTo
  <1>0. stops \in Nat
    BY DEF TypeInv, TypeOK, ReceiverAssumption
  <1> DEFINE R == CallsGrow /\ (\/ \E w \in Writers : Pushed(w) \/ Entered(w)
                                \/ Handed \/ Apart
                                \/ \E t \in Tasks : Fetched(t))
  <1>1. ASSUME NEW p \in Producers, PutBegin(p) PROVE R
    <2>1. Apart
      BY <1>0, <1>1 DEF PutBegin, Apart
    <2>2. CallsGrow
      BY <1>1 DEF PutBegin, CallsGrow, Writers
    <2> QED BY <2>1, <2>2
  <1>2. ASSUME NEW k \in Closers, CloseBegin(k) PROVE R
    <2>1. Apart
      BY <1>0, <1>2 DEF CloseBegin, Apart
    <2>2. CallsGrow
      BY <1>2 DEF CloseBegin, CallsGrow, Writers, ReceiverAssumption
    <2> QED BY <2>1, <2>2
  <1>3. ASSUME NEW w \in Writers, Enqueue(w) \/ EnqueueFull(w) \/ Route(w) PROVE R
    <2>1. Apart
      BY <1>0, <1>3 DEF Enqueue, EnqueueFull, Route, Apart
    <2>2. CallsGrow
      BY <1>3 DEF Enqueue, EnqueueFull, Route, CallsGrow, Writers
    <2> QED BY <2>1, <2>2
  <1>4. ASSUME NEW w \in Writers, Schedule(w) PROVE R
    <2>1. Apart \/ Pushed(w)
      BY <1>0, <1>4 DEF Schedule, Apart, Pushed
    <2>2. CallsGrow
      BY <1>4 DEF Schedule, CallsGrow, Writers
    <2> QED BY <2>1, <2>2
  <1>5. ASSUME NEW w \in Writers, Direct(w) PROVE R
    <2>1. Entered(w)
      BY <1>5 DEF Direct, PutNowait, Entered
    <2>2. CallsGrow
      BY <1>5 DEF Direct, CallsGrow, Writers
    <2> QED BY <2>1, <2>2
  <1>6. ASSUME NEW r \in Readers, ReaderStep(r) PROVE R
    <2>1. /\ UNCHANGED <<asyncQ, ready, stops, calls, pc>>
          /\ \A t \in Tasks : got'[t] = got[t]
      BY <1>6 DEF ReaderStep, Take, Expire, Recheck, TypeInv, TypeOK, ReceiverAssumption
    <2> QED BY <1>0, <2>1 DEF Apart, CallsGrow
  <1>7. ASSUME NEW t \in Tasks, NEW c \in AttachContexts, Attach(t, c) PROVE R
    BY <1>0, <1>7 DEF Attach, Apart, CallsGrow
  <1>8. ASSUME NEW t \in Tasks, AsyncGet(t) PROVE R
    <2>1. UNCHANGED <<calls, pc, stops, mirror, ready>>
      BY <1>8 DEF AsyncGet
    <2>2. CASE asyncQ = <<>>
      <3>1. UNCHANGED <<asyncQ, got>>
        BY <1>8, <2>2 DEF AsyncGet
      <3> QED BY <1>0, <2>1, <3>1 DEF Apart, CallsGrow
    <2>3. CASE asyncQ # <<>>
      <3>1. /\ asyncQ' = Tail(asyncQ)
            /\ IF Head(asyncQ) = Sentinel THEN got' = got
               ELSE got' = [got EXCEPT ![t] = Append(@, Head(asyncQ))]
        BY <1>8, <2>3 DEF AsyncGet
      <3>2. got \in [Readers \cup Tasks -> Seq(Messages)]
        BY DEF TypeInv, TypeOK
      <3>3. Fetched(t)
        BY <2>1, <2>3, <3>1, <3>2 DEF Fetched
      <3> QED BY <2>1, <3>3 DEF CallsGrow
    <2> QED BY <2>2, <2>3
  <1>9. CASE RunCallback
    BY <1>9 DEF RunCallback, PutNowait, Handed, CallsGrow
  <1>10. CASE LoopSleep \/ LoopWake \/ LoopStop \/ LoopRestart \/ LoopClose
    BY <1>0, <1>10 DEF LoopSleep, LoopWake, LoopStop, LoopRestart, LoopClose, LoopStep, Apart,
                       CallsGrow
  <1>11. CASE UNCHANGED vars
    BY <1>0, <1>11 DEF vars, Apart, CallsGrow
  <1> QED
    BY <1>1, <1>2, <1>3, <1>4, <1>5, <1>6, <1>7, <1>8, <1>9, <1>10, <1>11
       DEF Next, WriterStep
-----------------------------------------------------------------------------
(***************************************************************************)
(* Messages on their way to the tasks, and those they have received.       *)
(***************************************************************************)
OnMirror == Range(asyncQ) \cup Range(ready)
Tasked   == UNION {Range(got[t]) : t \in Tasks}
Onward   == OnMirror \cup Tasked

LEMMA MirrorTypes ==
    ASSUME TypeInv
    PROVE  /\ asyncQ \in Seq(Items) /\ ready \in Seq(Items)
           /\ \A t \in Tasks : got[t] \in Seq(Messages) /\ Range(got[t]) \subseteq Messages
           /\ Range(asyncQ) \subseteq Items /\ Range(ready) \subseteq Items
  <1>1. /\ asyncQ \in Seq(Items) /\ ready \in Seq(Items)
        /\ \A t \in Tasks : got[t] \in Seq(Messages)
    BY DEF TypeInv, TypeOK
  <1>2. ASSUME NEW S, NEW s \in Seq(S) PROVE Range(s) \subseteq S
    BY LenProperties, ElementOfSeq DEF Range
  <1> QED BY <1>1, <1>2

LEMMA PushedRanges ==
    ASSUME TypeInv, NEW w \in Writers, Pushed(w)
    PROVE  /\ Item(w) \in Items
           /\ Range(ready') = Range(ready) \cup {Item(w)} /\ Range(asyncQ') = Range(asyncQ)
           /\ OnMirror' = OnMirror \cup {Item(w)} /\ Tasked' = Tasked
  <1>1. Item(w) \in Items
    BY ItemType DEF Pushed
  <1>2. Range(ready') = Range(ready) \cup {Item(w)}
    BY <1>1, MirrorTypes, AppendFacts DEF Pushed
  <1>3. Tasked' = Tasked
    BY DEF Pushed, Tasked
  <1> QED BY <1>1, <1>2, <1>3 DEF Pushed, OnMirror

LEMMA EnteredRanges ==
    ASSUME TypeInv, NEW w \in Writers, Entered(w)
    PROVE  /\ Item(w) \in Items
           /\ Range(asyncQ') = Range(asyncQ) \cup {Item(w)} /\ Range(ready') = Range(ready)
           /\ OnMirror' = OnMirror \cup {Item(w)} /\ Tasked' = Tasked
  <1>1. Item(w) \in Items
    BY ItemType DEF Entered
  <1>2. Range(asyncQ') = Range(asyncQ) \cup {Item(w)}
    BY <1>1, MirrorTypes, AppendFacts DEF Entered
  <1>3. Tasked' = Tasked
    BY DEF Entered, Tasked
  <1> QED BY <1>1, <1>2, <1>3 DEF Entered, OnMirror

LEMMA HandedRanges ==
    ASSUME TypeInv, Handed
    PROVE  /\ Head(ready) \in Items
           /\ Range(asyncQ') = Range(asyncQ) \cup {Head(ready)}
           /\ Range(ready) = Range(ready') \cup {Head(ready)}
           /\ OnMirror' = OnMirror /\ Tasked' = Tasked
  <1>1. Head(ready) \in Items /\ Range(ready) = Range(ready') \cup {Head(ready)}
    BY MirrorTypes, TailFacts, RangeTail DEF Handed
  <1>2. Range(asyncQ') = Range(asyncQ) \cup {Head(ready)}
    BY <1>1, MirrorTypes, AppendFacts DEF Handed
  <1>3. Tasked' = Tasked
    BY DEF Handed, Tasked
  <1> QED BY <1>1, <1>2, <1>3 DEF OnMirror

LEMMA FetchedRanges ==
    ASSUME TypeInv, NEW t \in Tasks, Fetched(t)
    PROVE  /\ Head(asyncQ) \in Range(asyncQ) /\ Head(asyncQ) \in Items
           /\ Range(asyncQ) = Range(asyncQ') \cup {Head(asyncQ)} /\ Range(ready') = Range(ready)
           /\ OnMirror = OnMirror' \cup {Head(asyncQ)}
           /\ Range(got'[t]) = Range(got[t]) \cup ({Head(asyncQ)} \cap Messages)
           /\ \A u \in Tasks : u # t => got'[u] = got[u]
           /\ Tasked' = Tasked \cup ({Head(asyncQ)} \cap Messages)
  <1>1. Head(asyncQ) \in Items /\ Range(asyncQ) = Range(asyncQ') \cup {Head(asyncQ)}
    BY MirrorTypes, TailFacts, RangeTail DEF Fetched
  <1>2. Range(got'[t]) = Range(got[t]) \cup ({Head(asyncQ)} \cap Messages)
    <2>1. CASE Head(asyncQ) = Sentinel
      BY <2>1, ReceiverAssumption DEF Fetched, ReceiverAssumption
    <2>2. CASE Head(asyncQ) # Sentinel
      <3>1. Head(asyncQ) \in Messages /\ got'[t] = Append(got[t], Head(asyncQ))
        BY <1>1, <2>2 DEF Fetched, Items
      <3>2. Range(got'[t]) = Range(got[t]) \cup {Head(asyncQ)}
        BY <3>1, MirrorTypes, AppendFacts
      <3> QED BY <3>1, <3>2
    <2> QED BY <2>1, <2>2
  <1>3. /\ \A u \in Tasks : u # t => got'[u] = got[u]
        /\ Range(ready') = Range(ready)
    BY DEF Fetched
  <1>4. Tasked' = Tasked \cup ({Head(asyncQ)} \cap Messages)
    BY <1>2, <1>3 DEF Tasked
  <1> QED BY <1>1, <1>2, <1>3, <1>4 DEF OnMirror

(* Only the message of the call in progress comes to what is onward.           *)
LEMMA OnwardGrows ==
    ASSUME TypeInv, [Next]_vars
    PROVE  \A m \in Onward' \cap Messages :
              \/ m \in Onward
              \/ \E p \in Producers : m = Item(p) /\ (Pushed(p) \/ Entered(p))
  <1> USE DEF Onward
  <1> DEFINE R == \A m \in Onward' \cap Messages :
                     \/ m \in Onward
                     \/ \E p \in Producers : m = Item(p) /\ (Pushed(p) \/ Entered(p))
  <1>1. ASSUME NEW w \in Writers, Pushed(w) \/ Entered(w) PROVE R
    <2>1. Onward' = Onward \cup {Item(w)}
      BY <1>1, PushedRanges, EnteredRanges
    <2>2. w \in Producers \/ Item(w) \notin Messages
      BY ReceiverAssumption DEF Writers, Item, ReceiverAssumption
    <2> QED BY <1>1, <2>1, <2>2
  <1>2. CASE Handed
    BY <1>2, HandedRanges
  <1>3. CASE Apart
    BY <1>3 DEF Apart, OnMirror, Tasked
  <1>4. ASSUME NEW t \in Tasks, Fetched(t) PROVE R
    BY <1>4, FetchedRanges DEF OnMirror
  <1> QED BY <1>1, <1>2, <1>3, <1>4, MirrorMoves
-----------------------------------------------------------------------------
(* A message that is onward is older than the call its producer is in ...      *)
Past ==
    \A m \in Onward \cap Messages :
        /\ m[2] <= calls[m[1]]
        /\ pc[m[1]] # "idle" => m[2] < calls[m[1]]

LEMMA PastStep ==
    ASSUME TypeInv, Past, [Next]_vars
    PROVE  Past'
  <1> SUFFICES ASSUME NEW m \in Onward' \cap Messages
               PROVE  /\ m[2] <= calls'[m[1]]
                      /\ pc'[m[1]] # "idle" => m[2] < calls'[m[1]]
    BY DEF Past
  <1>1. m[1] \in Producers /\ m[2] \in Nat /\ calls[m[1]] \in Nat
    BY MessageParts, WriterTypes
  <1>2. CASE m \in Onward
    <2>1. m[2] <= calls[m[1]] /\ (pc[m[1]] # "idle" => m[2] < calls[m[1]])
      BY <1>2 DEF Past
    <2>2. \/ calls'[m[1]] = calls[m[1]] /\ (pc'[m[1]] # "idle" => pc[m[1]] # "idle")
          \/ calls'[m[1]] = calls[m[1]] + 1
      BY <1>1, MirrorMoves DEF CallsGrow
    <2> QED BY <1>1, <2>1, <2>2
  <1>3. ASSUME NEW p \in Producers, m = Item(p), Pushed(p) \/ Entered(p)
        PROVE  /\ m[2] <= calls'[m[1]]
               /\ pc'[m[1]] # "idle" => m[2] < calls'[m[1]]
    <2>1. /\ pc[p] # "idle" /\ calls' = calls /\ pc' = [pc EXCEPT ![p] = "idle"]
      BY <1>3 DEF Pushed, Entered, GoTo
    <2>2. m = <<p, calls[p]>>
      BY <1>3, <2>1, ProducerItem
    <2>3. pc'[p] = "idle"
      BY <2>1, WriterTypes DEF Writers
    <2> QED BY <1>1, <2>1, <2>2, <2>3
  <1> QED BY <1>2, <1>3, OnwardGrows

(* ... and has been taken by the sync queue, as has what a producer that has   *)
(* passed line 68 is pushing.                                                  *)
Taken ==
    /\ Onward \cap Messages \subseteq Accepted
    /\ \A p \in Producers : pc[p] \in {"route", "schedule", "direct"} => Item(p) \in Accepted

LEMMA AcceptedGrows ==
    ASSUME TypeInv, QueueInv, [Next]_vars
    PROVE  Accepted \subseteq Accepted'
  <1>1. CASE UNCHANGED Seen
    BY <1>1 DEF Seen, Accepted
  <1>2. CASE Channel!Next
    BY <1>2 DEF Channel!Next, Channel!Begin, Channel!Close, Channel!Accept, Channel!Refuse,
                Channel!Deliver, Channel!End, Accepted
  <1> QED BY <1>1, <1>2, ChannelStep

(* Where a producer is past line 68 it was before, or it has just passed it.   *)
LEMMA PastTheQueue ==
    ASSUME TypeInv, [Next]_vars, NEW p \in Producers, pc'[p] \in {"route", "schedule", "direct"}
    PROVE  /\ Item(p)' = Item(p)
           /\ Enqueue(p) \/ pc[p] \in {"route", "schedule", "direct"}
  <1> USE WriterTypes, ReceiverAssumption DEF writeVars, GoTo, Writers, Item, ReceiverAssumption
  <1> DEFINE R == /\ calls'[p] = calls[p]
                  /\ Enqueue(p) \/ pc[p] \in {"route", "schedule", "direct"}
  <1>1. ASSUME NEW q \in Producers, PutBegin(q) PROVE R
    BY <1>1 DEF PutBegin
  <1>2. ASSUME NEW k \in Closers, CloseBegin(k) PROVE R
    BY <1>2 DEF CloseBegin
  <1>3. ASSUME NEW w \in Writers, Enqueue(w) PROVE R
    <2>1. CASE w = p
      BY <1>3, <2>1 DEF Enqueue
    <2>2. CASE w # p
      BY <1>3, <2>2 DEF Enqueue
    <2> QED BY <2>1, <2>2
  <1>4. ASSUME NEW w \in Writers, EnqueueFull(w) \/ Route(w) \/ Schedule(w) \/ Direct(w) PROVE R
    <2>1. calls' = calls /\ (w # p => pc'[p] = pc[p])
      BY <1>4 DEF EnqueueFull, Route, Schedule, Direct
    <2>2. w = p => pc'[p] = "idle" \/ pc[p] = "route"
      BY <1>4 DEF EnqueueFull, Route, Schedule, Direct
    <2> QED BY <2>1, <2>2
  <1>5. ASSUME NEW r \in Readers, ReaderStep(r) PROVE R
    BY <1>5 DEF ReaderStep, Take, Expire, Recheck
  <1>6. ASSUME NEW t \in Tasks, AsyncGet(t) \/ \E c \in AttachContexts : Attach(t, c) PROVE R
    BY <1>6 DEF AsyncGet, Attach
  <1>7. CASE RunCallback \/ LoopSleep \/ LoopWake \/ LoopStop \/ LoopRestart \/ LoopClose
    BY <1>7 DEF RunCallback, LoopSleep, LoopWake, LoopStop, LoopRestart, LoopClose, LoopStep
  <1>8. CASE UNCHANGED vars
    BY <1>8 DEF vars
  <1>9. R
    BY <1>1, <1>2, <1>3, <1>4, <1>5, <1>6, <1>7, <1>8 DEF Next, WriterStep
  <1> QED BY <1>9

LEMMA TakenStep ==
    ASSUME TypeInv, QueueInv, Taken, [Next]_vars
    PROVE  Taken'
  <1>1. \A p \in Producers : pc'[p] \in {"route", "schedule", "direct"} => Item(p)' \in Accepted'
    <2> SUFFICES ASSUME NEW p \in Producers, pc'[p] \in {"route", "schedule", "direct"}
                 PROVE  Item(p)' \in Accepted'
      OBVIOUS
    <2>1. Item(p)' = Item(p)
      BY PastTheQueue
    <2>2. CASE Enqueue(p)
      <3>1. Item(p) \in Messages /\ Item(p) \in Items /\ syncQ' = Append(syncQ, Item(p))
        BY <2>2, ProducerItem, ItemType DEF Enqueue, Writers
      <3>2. Item(p) \in Range(syncQ')
        BY <3>1, WriterTypes, AppendFacts
      <3> QED BY <2>1, <3>1, <3>2 DEF Accepted, Queued
    <2>3. CASE pc[p] \in {"route", "schedule", "direct"}
      BY <2>1, <2>3, AcceptedGrows DEF Taken
    <2> QED BY <2>2, <2>3, PastTheQueue
  <1>2. Onward' \cap Messages \subseteq Accepted'
    <2> SUFFICES ASSUME NEW m \in Onward' \cap Messages PROVE m \in Accepted
      BY AcceptedGrows
    <2>1. ASSUME NEW p \in Producers, m = Item(p), Pushed(p) \/ Entered(p) PROVE m \in Accepted
      BY <2>1 DEF Pushed, Entered, Taken
    <2> QED BY <2>1, OnwardGrows DEF Taken
  <1> QED BY <1>1, <1>2 DEF Taken
-----------------------------------------------------------------------------
(* Each message is in one place of the mirror or of one task ...               *)
Single ==
    /\ NoRepeat(asyncQ) /\ NoRepeat(ready)
    /\ Range(asyncQ) \cap Range(ready) \cap Messages = {}
    /\ \A t \in Tasks : NoRepeat(got[t]) /\ Range(got[t]) \cap OnMirror = {}
    /\ \A t, u \in Tasks : t # u => Range(got[t]) \cap Range(got[u]) = {}

(* The message of the call in progress is not onward yet, and is later than    *)
(* what its producer has sent before.                                          *)
LEMMA ItemIsNew ==
    ASSUME TypeInv, Past, NEW w \in Writers, pc[w] # "idle"
    PROVE  /\ Item(w) \in Messages => Item(w) \notin Onward
           /\ \A m \in Onward \cap Messages :
                 Item(w) \in Messages /\ m[1] = Item(w)[1] => m[2] < Item(w)[2]
  <1> SUFFICES ASSUME Item(w) \in Messages
               PROVE  /\ Item(w) \notin Onward
                      /\ \A m \in Onward \cap Messages : m[1] = Item(w)[1] => m[2] < Item(w)[2]
    OBVIOUS
  <1>1. w \in Producers /\ Item(w) = <<w, calls[w]>> /\ calls[w] \in Nat
    BY WriterTypes, ProducerItem, ReceiverAssumption DEF Item, Writers, ReceiverAssumption
  <1>2. \A m \in Onward \cap Messages : m[1] = w => m[2] < calls[w]
    BY DEF Past
  <1> QED BY <1>1, <1>2

LEMMA SingleStep ==
    ASSUME TypeInv, Past, Single, [Next]_vars
    PROVE  Single'
  <1> USE MirrorTypes
  <1>1. ASSUME NEW w \in Writers, Pushed(w) PROVE Single'
    <2>1. Item(w) \in Messages => Item(w) \notin Onward
      BY <1>1, ItemIsNew DEF Pushed
    <2>2. NoRepeat(ready')
      BY <1>1, <2>1, PushedRanges, NoRepeatAppend DEF Pushed, Single, Onward, OnMirror
    <2>3. NoRepeat(asyncQ') /\ \A t \in Tasks : got'[t] = got[t]
      BY <1>1 DEF Pushed, Single
    <2>4. Range(asyncQ') \cap Range(ready') \cap Messages = {}
      BY <1>1, <2>1, PushedRanges DEF Single, Onward, OnMirror
    <2>5. \A t \in Tasks : Range(got'[t]) \cap OnMirror' = {}
      BY <1>1, <2>1, <2>3, PushedRanges DEF Single, Onward, Tasked
    <2> QED BY <2>2, <2>3, <2>4, <2>5 DEF Single
  <1>2. ASSUME NEW w \in Writers, Entered(w) PROVE Single'
    <2>1. Item(w) \in Messages => Item(w) \notin Onward
      BY <1>2, ItemIsNew DEF Entered
    <2>2. NoRepeat(asyncQ')
      BY <1>2, <2>1, EnteredRanges, NoRepeatAppend DEF Entered, Single, Onward, OnMirror
    <2>3. NoRepeat(ready') /\ \A t \in Tasks : got'[t] = got[t]
      BY <1>2 DEF Entered, Single
    <2>4. Range(asyncQ') \cap Range(ready') \cap Messages = {}
      BY <1>2, <2>1, EnteredRanges DEF Single, Onward, OnMirror
    <2>5. \A t \in Tasks : Range(got'[t]) \cap OnMirror' = {}
      BY <1>2, <2>1, <2>3, EnteredRanges DEF Single, Onward, Tasked
    <2> QED BY <2>2, <2>3, <2>4, <2>5 DEF Single
  <1>3. CASE Handed
    <2>1. NoRepeat(ready') /\ (Head(ready) \in Messages => Head(ready) \notin Range(ready'))
      BY <1>3, NoRepeatTail DEF Handed, Single
    <2>2. NoRepeat(asyncQ')
      BY <1>3, HandedRanges, NoRepeatAppend DEF Handed, Single
    <2>3. \A t \in Tasks : got'[t] = got[t]
      BY <1>3 DEF Handed
    <2> QED BY <1>3, <2>1, <2>2, <2>3, HandedRanges DEF Single
  <1>4. CASE Apart
    BY <1>4 DEF Apart, Single, OnMirror
  <1>5. ASSUME NEW t \in Tasks, Fetched(t) PROVE Single'
    <2>1. NoRepeat(asyncQ') /\ (Head(asyncQ) \in Messages => Head(asyncQ) \notin Range(asyncQ'))
      BY <1>5, NoRepeatTail DEF Fetched, Single
    <2>2. NoRepeat(ready')
      BY <1>5 DEF Fetched, Single
    <2>3. NoRepeat(got'[t])
      <3>1. CASE Head(asyncQ) = Sentinel
        BY <1>5, <3>1 DEF Fetched, Single
      <3>2. CASE Head(asyncQ) # Sentinel
        <4>1. Head(asyncQ) \in Messages /\ Head(asyncQ) \notin Range(got[t])
          BY <1>5, <3>2, FetchedRanges DEF Items, Single, OnMirror
        <4>2. got'[t] = Append(got[t], Head(asyncQ))
          BY <1>5, <3>2 DEF Fetched
        <4> QED BY <4>1, <4>2, NoRepeatAppend DEF Single
      <3> QED BY <3>1, <3>2
    <2>4. Head(asyncQ) \in Messages => Head(asyncQ) \notin OnMirror'
      BY <1>5, <2>1, FetchedRanges DEF Single, OnMirror
    <2>5. \A u \in Tasks : NoRepeat(got'[u]) /\ Range(got'[u]) \cap OnMirror' = {}
      BY <1>5, <2>3, <2>4, FetchedRanges DEF Single
    <2>6. \A u, v \in Tasks : u # v => Range(got'[u]) \cap Range(got'[v]) = {}
      BY <1>5, FetchedRanges DEF Single
    <2> QED BY <1>5, <2>1, <2>2, <2>5, <2>6, FetchedRanges DEF Single
  <1> QED BY <1>1, <1>2, <1>3, <1>4, <1>5, MirrorMoves
-----------------------------------------------------------------------------
(* ... and, until the loop is stopped, stands in the order of its producer's   *)
(* calls: what a task has is older than what is queued, which is older than    *)
(* what waits in the loop's callbacks.                                         *)
Precede(S, U) == \A m \in S \cap Messages, n \in U \cap Messages : m[1] = n[1] => m[2] < n[2]

InOrder ==
    /\ Ordered(asyncQ) /\ Ordered(ready) /\ Precede(Range(asyncQ), Range(ready))
    /\ \A t \in Tasks : Ordered(got[t]) /\ Precede(Range(got[t]), OnMirror)

Order == stops = 0 => InOrder

(* How the loop's state, the mirror's and the writers' fit together.  A bound  *)
(* mirror is used through the loop only, an unbound one directly only.         *)
Mode ==
    /\ loop = "asleep" => ready = <<>>
    /\ mirror = "absent" => \A w \in Writers : pc[w] \notin {"schedule", "direct"}
    /\ stops = 0 =>
          /\ loop \in {"running", "asleep"}
          /\ mirror = "bound" => \A w \in Writers : pc[w] # "direct"
          /\ mirror # "bound" => ready = <<>> /\ \A w \in Writers : pc[w] # "schedule"

LEMMA OrderStep ==
    ASSUME TypeInv, Past, Mode, Order, [Next]_vars
    PROVE  Order'
  <1> SUFFICES ASSUME stops' = 0 PROVE InOrder'
    BY DEF Order
  <1>0. stops = 0 /\ InOrder
    <2>1. stops \in Nat /\ stops' >= stops
      <3>1. stops \in Nat
        BY ReceiverAssumption DEF TypeInv, TypeOK, ReceiverAssumption
      <3> QED BY <3>1, MirrorMoves DEF Pushed, Entered, Handed, Apart, Fetched
    <2> QED BY <2>1 DEF Order
  <1> USE <1>0, MirrorTypes DEF InOrder
  <1>1. ASSUME NEW w \in Writers, Pushed(w) PROVE InOrder'
    <2>1. \A m \in Onward \cap Messages :
             Item(w) \in Messages /\ m[1] = Item(w)[1] => m[2] < Item(w)[2]
      BY <1>1, ItemIsNew DEF Pushed
    <2>2. Ordered(ready')
      BY <1>1, <2>1, PushedRanges, OrderedAppend DEF Pushed, Onward, OnMirror
    <2>3. Ordered(asyncQ') /\ \A t \in Tasks : got'[t] = got[t]
      BY <1>1 DEF Pushed
    <2>4. Precede(Range(asyncQ'), Range(ready'))
      BY <1>1, <2>1, PushedRanges DEF Precede, Onward, OnMirror
    <2>5. \A t \in Tasks : Precede(Range(got'[t]), OnMirror')
      BY <1>1, <2>1, <2>3, PushedRanges DEF Precede, Onward, Tasked
    <2> QED BY <2>2, <2>3, <2>4, <2>5
  <1>2. ASSUME NEW w \in Writers, Entered(w) PROVE InOrder'
    <2>1. \A m \in Onward \cap Messages :
             Item(w) \in Messages /\ m[1] = Item(w)[1] => m[2] < Item(w)[2]
      BY <1>2, ItemIsNew DEF Entered
    <2>2. Ordered(asyncQ')
      BY <1>2, <2>1, EnteredRanges, OrderedAppend DEF Entered, Onward, OnMirror
    <2>3. Ordered(ready') /\ \A t \in Tasks : got'[t] = got[t]
      BY <1>2 DEF Entered
    <2>4. Precede(Range(asyncQ'), Range(ready'))
      <3>1. ready' = <<>>
        BY <1>2 DEF Entered, Mode
      <3>2. Range(ready') = {}
        BY <3>1 DEF Range
      <3> QED BY <3>2 DEF Precede
    <2>5. \A t \in Tasks : Precede(Range(got'[t]), OnMirror')
      BY <1>2, <2>1, <2>3, EnteredRanges DEF Precede, Onward, Tasked
    <2> QED BY <2>2, <2>3, <2>4, <2>5
  <1>3. CASE Handed
    <2>1. /\ Ordered(ready')
          /\ \A m \in Range(ready') : m \in Messages /\ Head(ready) \in Messages
                /\ Head(ready)[1] = m[1] => Head(ready)[2] < m[2]
      BY <1>3, OrderedTail DEF Handed
    <2>2. Ordered(asyncQ')
      <3>1. Head(ready) \in Range(ready) /\ Head(ready) \in Items
        BY <1>3, HandedRanges
      <3>2. \A m \in Range(asyncQ) : m \in Messages /\ Head(ready) \in Messages
               /\ m[1] = Head(ready)[1] => m[2] < Head(ready)[2]
        BY <3>1 DEF Precede
      <3> QED BY <1>3, <3>1, <3>2, OrderedAppend DEF Handed
    <2>3. Precede(Range(asyncQ'), Range(ready'))
      BY <1>3, <2>1, HandedRanges DEF Precede
    <2>4. \A t \in Tasks : got'[t] = got[t]
      BY <1>3 DEF Handed
    <2> QED BY <1>3, <2>1, <2>2, <2>3, <2>4, HandedRanges
  <1>4. CASE Apart
    BY <1>4 DEF Apart, OnMirror
  <1>5. ASSUME NEW t \in Tasks, Fetched(t) PROVE InOrder'
    <2>1. /\ Ordered(asyncQ')
          /\ \A m \in Range(asyncQ') : m \in Messages /\ Head(asyncQ) \in Messages
                /\ Head(asyncQ)[1] = m[1] => Head(asyncQ)[2] < m[2]
      BY <1>5, OrderedTail DEF Fetched
    <2>2. Ordered(ready') /\ Range(asyncQ') \subseteq Range(asyncQ) /\ Range(ready') = Range(ready)
      BY <1>5, FetchedRanges DEF Fetched
    <2>3. Precede(Range(asyncQ'), Range(ready'))
      BY <2>2 DEF Precede
    <2>4. Ordered(got'[t])
      <3>1. CASE Head(asyncQ) = Sentinel
        BY <1>5, <3>1 DEF Fetched
      <3>2. CASE Head(asyncQ) # Sentinel
        <4>1. Head(asyncQ) \in Messages /\ Head(asyncQ) \in OnMirror
          BY <1>5, <3>2, FetchedRanges DEF Items, OnMirror
        <4>2. got'[t] = Append(got[t], Head(asyncQ))
          BY <1>5, <3>2 DEF Fetched
        <4>3. \A m \in Range(got[t]) : m \in Messages /\ m[1] = Head(asyncQ)[1]
                 => m[2] < Head(asyncQ)[2]
          BY <4>1 DEF Precede
        <4> QED BY <4>1, <4>2, <4>3, OrderedAppend
      <3> QED BY <3>1, <3>2
    <2>5. Precede(Range(got'[t]), OnMirror')
      <3>1. Precede({Head(asyncQ)}, OnMirror')
        BY <1>5, <2>1, FetchedRanges DEF Precede, OnMirror
      <3> QED BY <1>5, <3>1, FetchedRanges DEF Precede
    <2>6. \A u \in Tasks : u # t => Ordered(got'[u]) /\ Precede(Range(got'[u]), OnMirror')
      BY <1>5, FetchedRanges DEF Precede
    <2> QED BY <2>1, <2>2, <2>3, <2>4, <2>5, <2>6
  <1> QED BY <1>1, <1>2, <1>3, <1>4, <1>5, MirrorMoves

LEMMA ModeStep ==
    ASSUME TypeInv, Mode, [Next]_vars
    PROVE  Mode'
  <1> USE WriterTypes, ReceiverAssumption DEF writeVars, loopVars, mirrVars, GoTo
  <1>0. stops \in Nat
    BY DEF TypeInv, TypeOK, ReceiverAssumption
  <1>1. ASSUME NEW w \in Writers, PutBegin(w) \/ CloseBegin(w) \/ Enqueue(w) \/ EnqueueFull(w)
        PROVE  Mode'
    BY <1>1 DEF PutBegin, CloseBegin, Enqueue, EnqueueFull, Mode
  <1>2. ASSUME NEW w \in Writers, Route(w) PROVE Mode'
    BY <1>2 DEF Route, LoopIsRunning, Mode
  <1>3. ASSUME NEW w \in Writers, Schedule(w) PROVE Mode'
    BY <1>3 DEF Schedule, Woken, Mode
  <1>4. ASSUME NEW w \in Writers, Direct(w) PROVE Mode'
    BY <1>4 DEF Direct, PutNowait, Mode
  <1>5. ASSUME NEW r \in Readers, ReaderStep(r) PROVE Mode'
    BY <1>5 DEF ReaderStep, Take, Expire, Recheck, Mode
  <1>6. ASSUME NEW t \in Tasks, NEW c \in AttachContexts, Attach(t, c) PROVE Mode'
    BY <1>6 DEF Attach, Woken, Mode
  <1>7. ASSUME NEW t \in Tasks, AsyncGet(t) PROVE Mode'
    BY <1>7 DEF AsyncGet, Mode
  <1>8. CASE RunCallback
    <2>1. Tail(ready) = <<>> \/ loop # "asleep"
      BY <1>8 DEF RunCallback
    <2> QED BY <1>8, <2>1 DEF RunCallback, PutNowait, Mode
  <1>9. CASE LoopSleep \/ LoopWake \/ LoopStop \/ LoopRestart \/ LoopClose
    BY <1>0, <1>9 DEF LoopSleep, LoopWake, LoopStop, LoopRestart, LoopClose, LoopStep, Mode
  <1>10. CASE UNCHANGED vars
    BY <1>10 DEF vars, Mode
  <1> QED
    BY <1>1, <1>2, <1>3, <1>4, <1>5, <1>6, <1>7, <1>8, <1>9, <1>10
       DEF Next, WriterStep, Writers
-----------------------------------------------------------------------------
(* While a task waits, every queued item has woken a task that will come for it. *)
WokenTasks == {t \in Tasks : task[t] = "woken"}

Wake ==
    /\ IsFiniteSet(WokenTasks)
    /\ (\E t \in Tasks : task[t] = "waiting") => Len(asyncQ) <= Cardinality(WokenTasks)

LEMMA WakeUnchanged ==
    ASSUME Wake, UNCHANGED asyncQ,
           \A t \in Tasks : (task'[t] = "woken" <=> task[t] = "woken")
                            /\ (task'[t] = "waiting" <=> task[t] = "waiting")
    PROVE  Wake'
  BY DEF Wake, WokenTasks

LEMMA PutNowaitWakes ==
    ASSUME TypeInv, Wake, NEW item \in Items, PutNowait(item)
    PROVE  Wake'
  <1>1. /\ asyncQ \in Seq(Items) /\ asyncQ' = Append(asyncQ, item)
        /\ Len(asyncQ') = Len(asyncQ) + 1 /\ Len(asyncQ) \in Nat
        /\ task \in [Tasks -> {"new", "next", "waiting", "woken", "stopped"}]
    BY MirrorTypes, AppendFacts, LenProperties DEF PutNowait, TypeInv, TypeOK
  <1>2. CASE \E t \in Tasks : task[t] = "waiting"
    <2>1. PICK t \in Tasks : task[t] = "waiting" /\ task' = [task EXCEPT ![t] = "woken"]
      BY <1>2 DEF PutNowait
    <2>2. WokenTasks' = WokenTasks \cup {t} /\ t \notin WokenTasks
      BY <1>1, <2>1 DEF WokenTasks
    <2>3. IsFiniteSet(WokenTasks') /\ Cardinality(WokenTasks') = Cardinality(WokenTasks) + 1
      BY <2>2, FS_AddElement DEF Wake
    <2>4. Cardinality(WokenTasks) \in Nat
      BY FS_CardinalityType DEF Wake
    <2> QED BY <1>1, <1>2, <2>3, <2>4 DEF Wake
  <1>3. CASE ~\E t \in Tasks : task[t] = "waiting"
    BY <1>3 DEF PutNowait, Wake, WokenTasks
  <1> QED BY <1>2, <1>3

LEMMA AsyncGetWakes ==
    ASSUME TypeInv, Wake, NEW t \in Tasks, AsyncGet(t)
    PROVE  Wake'
  <1>1. /\ task \in [Tasks -> {"new", "next", "waiting", "woken", "stopped"}]
        /\ Len(asyncQ) \in Nat /\ asyncQ \in Seq(Items)
        /\ task[t] \in {"next", "woken"}
    BY MirrorTypes, LenProperties DEF TypeInv, TypeOK, AsyncGet, Runnable
  <1>2. /\ \E v \in {"waiting", "stopped", "next"} : task' = [task EXCEPT ![t] = v]
        /\ \/ asyncQ = <<>> /\ asyncQ' = <<>>
           \/ asyncQ # <<>> /\ asyncQ' = Tail(asyncQ) /\ task'[t] # "waiting"
    BY <1>1 DEF AsyncGet
  <1>3. WokenTasks' = WokenTasks \ {t}
    BY <1>1, <1>2 DEF WokenTasks
  <1>4. /\ IsFiniteSet(WokenTasks') /\ Cardinality(WokenTasks) \in Nat
        /\ Cardinality(WokenTasks') \in Nat
        /\ Cardinality(WokenTasks') >= Cardinality(WokenTasks) - 1
    <2>1. IsFiniteSet(WokenTasks) /\ Cardinality(WokenTasks) \in Nat
      BY FS_CardinalityType DEF Wake
    <2>2. IsFiniteSet(WokenTasks')
      BY <1>3, <2>1, FS_RemoveElement, FS_Subset
    <2>3. Cardinality(WokenTasks') \in Nat
      BY <2>2, FS_CardinalityType
    <2>4. CASE t \in WokenTasks
      BY <1>3, <2>1, <2>2, <2>3, <2>4, FS_RemoveElement
    <2>5. CASE t \notin WokenTasks
      <3>1. WokenTasks' = WokenTasks
        BY <1>3, <2>5
      <3> QED BY <2>1, <3>1
    <2> QED BY <2>1, <2>2, <2>3, <2>4, <2>5
  <1>5. CASE asyncQ = <<>>
    <2>1. Len(asyncQ') = 0
      BY <1>2, <1>5, EmptySeq
    <2> QED BY <1>4, <2>1 DEF Wake
  <1>6. CASE asyncQ # <<>>
    <2>1. Len(asyncQ') = Len(asyncQ) - 1
      BY <1>1, <1>2, <1>6, TailFacts
    <2>2. (\E u \in Tasks : task'[u] = "waiting") => \E u \in Tasks : task[u] = "waiting"
      BY <1>1, <1>2, <1>6
    <2> QED BY <1>1, <1>4, <2>1, <2>2 DEF Wake
  <1> QED BY <1>5, <1>6

LEMMA WakeStep ==
    ASSUME TypeInv, Wake, [Next]_vars
    PROVE  Wake'
  <1> USE DEF writeVars, loopVars, mirrVars
  <1>1. ASSUME NEW w \in Writers, PutBegin(w) \/ CloseBegin(w) \/ Enqueue(w) \/ EnqueueFull(w)
                                  \/ Route(w) \/ Schedule(w)
        PROVE  Wake'
    BY <1>1, WakeUnchanged DEF PutBegin, CloseBegin, Enqueue, EnqueueFull, Route, Schedule
  <1>2. ASSUME NEW w \in Writers, Direct(w) PROVE Wake'
    BY <1>2, ItemType, PutNowaitWakes DEF Direct
  <1>3. ASSUME NEW r \in Readers, ReaderStep(r) PROVE Wake'
    BY <1>3, WakeUnchanged DEF ReaderStep, Take, Expire, Recheck
  <1>4. ASSUME NEW t \in Tasks, NEW c \in AttachContexts, Attach(t, c) PROVE Wake'
    <2>1. /\ task[t] = "new" /\ task' = [task EXCEPT ![t] = "next"] /\ UNCHANGED asyncQ
          /\ task \in [Tasks -> {"new", "next", "waiting", "woken", "stopped"}]
      BY <1>4 DEF Attach, TypeInv, TypeOK
    <2> QED BY <2>1, WakeUnchanged
  <1>5. ASSUME NEW t \in Tasks, AsyncGet(t) PROVE Wake'
    BY <1>5, AsyncGetWakes
  <1>6. CASE RunCallback
    BY <1>6, MirrorTypes, TailFacts, PutNowaitWakes DEF RunCallback
  <1>7. CASE LoopSleep \/ LoopWake \/ LoopStop \/ LoopRestart \/ LoopClose
    BY <1>7, WakeUnchanged DEF LoopSleep, LoopWake, LoopStop, LoopRestart, LoopClose, LoopStep
  <1>8. CASE UNCHANGED vars
    BY <1>8, WakeUnchanged DEF vars
  <1> QED
    BY <1>1, <1>2, <1>3, <1>4, <1>5, <1>6, <1>7, <1>8 DEF Next, WriterStep, Writers

(* The loop goes to sleep with nothing to do, and what could give it something *)
(* to do wakes it.                                                             *)
LEMMA SleepStep ==
    ASSUME TypeInv, Mode, Wake, NoLostWakeup, [Next]_vars
    PROVE  NoLostWakeup'
  <1> SUFFICES ASSUME mirror' = "bound", stops' = 0, loop' = "asleep"
               PROVE  \/ asyncQ' = <<>>
                      \/ \A t \in Tasks : task'[t] \in {"new", "stopped"}
    BY ModeStep DEF NoLostWakeup, Mode
  <1> DEFINE Idle == asyncQ = <<>> \/ \A t \in Tasks : task[t] \in {"new", "stopped"}
  <1> USE DEF writeVars, loopVars, mirrVars
  <1>0. stops \in Nat
    BY ReceiverAssumption DEF TypeInv, TypeOK, ReceiverAssumption
  <1>1. CASE UNCHANGED <<loop, stops, mirror, asyncQ, task>>
    BY <1>1 DEF NoLostWakeup
  <1>2. ASSUME NEW w \in Writers, PutBegin(w) \/ CloseBegin(w) \/ Enqueue(w) \/ EnqueueFull(w)
                                  \/ Route(w)
        PROVE  Idle'
    BY <1>1, <1>2 DEF PutBegin, CloseBegin, Enqueue, EnqueueFull, Route
  <1>3. ASSUME NEW w \in Writers, Schedule(w) PROVE Idle'
    <2>1. loop' = Woken \/ loop' = "closed" \/ (loop' = loop /\ loop = "closed")
      BY <1>3 DEF Schedule
    <2> QED BY <2>1 DEF Woken
  <1>4. ASSUME NEW w \in Writers, Direct(w) PROVE FALSE
    BY <1>4 DEF Direct, PutNowait, Mode
  <1>5. ASSUME NEW r \in Readers, ReaderStep(r) PROVE Idle'
    BY <1>1, <1>5 DEF ReaderStep, Take, Expire, Recheck
  <1>6. ASSUME NEW t \in Tasks, NEW c \in AttachContexts, Attach(t, c) PROVE FALSE
    BY <1>6 DEF Attach, Woken
  <1>7. ASSUME NEW t \in Tasks, AsyncGet(t) PROVE FALSE
    BY <1>7 DEF AsyncGet
  <1>8. CASE RunCallback
    BY <1>8 DEF RunCallback
  <1>9. CASE LoopSleep
    <2>1. /\ \A t \in Tasks : task[t] \notin {"next", "woken"}
          /\ UNCHANGED <<asyncQ, task>>
          /\ task \in [Tasks -> {"new", "next", "waiting", "woken", "stopped"}]
      BY <1>9 DEF LoopSleep, LoopStep, Runnable, TypeInv, TypeOK
    <2>2. CASE \E t \in Tasks : task[t] = "waiting"
      <3>1. WokenTasks = {}
        BY <2>1 DEF WokenTasks
      <3>2. Len(asyncQ) <= 0 /\ Len(asyncQ) \in Nat
        BY <2>2, <3>1, FS_EmptySet, MirrorTypes, LenProperties DEF Wake
      <3> QED BY <2>1, <3>2, MirrorTypes, EmptySeq
    <2> QED BY <2>1, <2>2
  <1>10. CASE LoopWake \/ LoopStop \/ LoopRestart \/ LoopClose
    BY <1>10 DEF LoopWake, LoopStop, LoopRestart, LoopClose, LoopStep
  <1>11. CASE UNCHANGED vars
    BY <1>1, <1>11 DEF vars
  <1> QED
    BY <1>2, <1>3, <1>4, <1>5, <1>6, <1>7, <1>8, <1>9, <1>10, <1>11
       DEF Next, WriterStep, Writers
-----------------------------------------------------------------------------
MirrorInv == Past /\ Taken /\ Single /\ Mode /\ Order /\ Wake

LEMMA MirrorInductive == Spec => [](MirrorInv /\ NoLostWakeup)
  <1>1. Init => MirrorInv /\ NoLostWakeup
    <2> SUFFICES ASSUME Init PROVE MirrorInv /\ NoLostWakeup
      OBVIOUS
    <2>1. /\ asyncQ = <<>> /\ ready = <<>> /\ \A t \in Tasks : got[t] = <<>> /\ task[t] = "new"
          /\ \A w \in Writers : pc[w] = "idle"
          /\ loop = "running" /\ mirror = "absent"
      BY DEF Init
    <2>2. Onward = {}
      BY <2>1 DEF Onward, OnMirror, Tasked, Range
    <2>3. Past /\ Taken
      BY <2>1, <2>2 DEF Past, Taken, Writers
    <2>4. Single /\ Order
      BY <2>1 DEF Single, Order, InOrder, NoRepeat, Ordered, Precede, OnMirror, Range
    <2>5. Mode /\ NoLostWakeup
      BY <2>1 DEF Mode, NoLostWakeup
    <2>6. Wake
      <3>1. WokenTasks = {}
        BY <2>1 DEF WokenTasks
      <3> QED BY <2>1, <3>1, FS_EmptySet DEF Wake
    <2> QED BY <2>3, <2>4, <2>5, <2>6 DEF MirrorInv
  <1>2. /\ TypeInv /\ QueueInv /\ MirrorInv /\ NoLostWakeup /\ [Next]_vars
        => (MirrorInv /\ NoLostWakeup)'
    BY PastStep, TakenStep, SingleStep, ModeStep, OrderStep, WakeStep, SleepStep DEF MirrorInv
  <1> QED BY <1>1, <1>2, TypeInductive, QueueInductive, PTL DEF Spec

(***************************************************************************)
(* For any number of producers, iterations and stops of the loop, what the *)
(* async mirror carries and what its tasks receive has been taken by the   *)
(* sync queue (line 68 comes before _put_async), and no message is         *)
(* received twice, neither by two tasks nor by one.                        *)
(***************************************************************************)
THEOREM MirrorFollowsSync == Spec => []MirrorFollows
  <1>1. TypeInv /\ MirrorInv => MirrorFollows
    <2> SUFFICES ASSUME TypeInv, Taken, Single PROVE MirrorFollows
      BY DEF MirrorInv
    <2>1. (Range(asyncQ) \cup Range(ready)) \cap Messages \subseteq Accepted
      BY DEF Taken, Onward, OnMirror
    <2>2. ASSUME NEW t \in Tasks, NEW i \in DOMAIN got[t]
          PROVE  got[t][i] \in Range(got[t]) /\ got[t][i] \in Messages
      BY <2>2, MirrorTypes DEF Range
    <2>3. ASSUME NEW t \in Tasks, NEW i \in DOMAIN got[t] PROVE got[t][i] \in Accepted
      BY <2>2, <2>3 DEF Taken, Onward, Tasked
    <2>4. ASSUME NEW t \in Tasks, NEW u \in Tasks, NEW i \in DOMAIN got[t], NEW j \in DOMAIN got[u],
                 got[t][i] = got[u][j]
          PROVE  t = u /\ i = j
      <3>1. t = u
        BY <2>2, <2>4 DEF Single
      <3> QED BY <2>2, <2>4, <3>1 DEF Single, NoRepeat
    <2> QED BY <2>1, <2>3, <2>4 DEF MirrorFollows
  <1> QED BY <1>1, TypeInductive, MirrorInductive, PTL

(***************************************************************************)
(* Whether a message travels by call_soon_threadsafe or is put by the      *)
(* producer's own thread (lines 52-58), each async iteration receives the  *)
(* messages of a producer in the order of its put() calls, as long as      *)
(* nobody stops the loop.                                                  *)
(***************************************************************************)
THEOREM TasksInOrder == Spec => []TaskOrder
  <1>1. MirrorInv => TaskOrder
    BY DEF MirrorInv, Order, InOrder, TaskOrder
  <1> QED BY <1>1, MirrorInductive, PTL

(***************************************************************************)
(* Until it is stopped for the first time, a loop the receiver is bound to *)
(* never blocks in select() with an item queued and a task waiting for it, *)
(* because a writer goes through call_soon_threadsafe (line 53), which     *)
(* wakes it.                                                               *)
(***************************************************************************)
THEOREM NoneSleeps == Spec => []NoLostWakeup
  BY MirrorInductive, PTL
-----------------------------------------------------------------------------
(***************************************************************************)
(* The same for the threads that iterate with "for", through the sync      *)
(* queue and whatever stops or closes.                                     *)
(***************************************************************************)
Enqueued(w) ==
    /\ Enqueue(w) /\ syncQ' = Append(syncQ, Item(w))
    /\ \A r \in Readers : got'[r] = got[r]

Read(r) ==
    /\ syncQ # <<>> /\ syncQ' = Tail(syncQ)
    /\ got'[r] = IF Head(syncQ) = Sentinel THEN got[r] ELSE Append(got[r], Head(syncQ))
    /\ \A q \in Readers : q # r => got'[q] = got[q]

Beside == syncQ' = syncQ /\ \A r \in Readers : got'[r] = got[r]

LEMMA QueueMoves ==
    ASSUME TypeInv, [Next]_vars
    PROVE  \/ \E w \in Writers : Enqueued(w)
           \/ \E r \in Readers : Read(r)
           \/ Beside
  <1> USE ReceiverAssumption DEF writeVars, loopVars, mirrVars, Beside
  <1>0. got \in [Readers \cup Tasks -> Seq(Messages)] /\ Readers \cap Tasks = {}
    BY DEF TypeInv, TypeOK, ReceiverAssumption
  <1>1. ASSUME NEW w \in Writers, Enqueue(w) PROVE Enqueued(w)
    BY <1>1 DEF Enqueue, Enqueued
  <1>2. ASSUME NEW r \in Readers, Take(r) PROVE Read(r)
    BY <1>0, <1>2 DEF Take, Read
  <1>3. ASSUME NEW t \in Tasks, AsyncGet(t) \/ \E c \in AttachContexts : Attach(t, c)
        PROVE  Beside
    BY <1>0, <1>3 DEF AsyncGet, Attach
  <1>4. CASE \/ \E p \in Producers : PutBegin(p)
             \/ \E k \in Closers : CloseBegin(k)
             \/ \E w \in Writers : EnqueueFull(w) \/ Route(w) \/ Schedule(w) \/ Direct(w)
             \/ \E r \in Readers : Expire(r) \/ Recheck(r)
    BY <1>4 DEF PutBegin, CloseBegin, EnqueueFull, Route, Schedule, Direct, Expire, Recheck
  <1>5. CASE RunCallback \/ LoopSleep \/ LoopWake \/ LoopStop \/ LoopRestart \/ LoopClose
    BY <1>5 DEF RunCallback, LoopSleep, LoopWake, LoopStop, LoopRestart, LoopClose, LoopStep
  <1>6. CASE UNCHANGED vars
    BY <1>6 DEF vars
  <1> QED
    BY <1>1, <1>2, <1>3, <1>4, <1>5, <1>6 DEF Next, WriterStep, ReaderStep

(* A producer that is to enqueue was to enqueue before, or began a call.       *)
LEMMA EnqueueBegins ==
    ASSUME TypeInv, [Next]_vars, NEW p \in Producers
    PROVE  \/ calls'[p] = calls[p] /\ (pc'[p] = "enqueue" => pc[p] = "enqueue")
           \/ calls'[p] = calls[p] + 1
  <1> USE WriterTypes, ReceiverAssumption DEF writeVars, GoTo, Writers, ReceiverAssumption
  <1> DEFINE R == \/ calls'[p] = calls[p] /\ (pc'[p] = "enqueue" => pc[p] = "enqueue")
                  \/ calls'[p] = calls[p] + 1
  <1>1. ASSUME NEW q \in Producers, PutBegin(q) PROVE R
    BY <1>1 DEF PutBegin
  <1>2. ASSUME NEW k \in Closers, CloseBegin(k) PROVE R
    BY <1>2 DEF CloseBegin
  <1>3. ASSUME NEW w \in Writers, WriterStep(w) PROVE R
    BY <1>3 DEF WriterStep, Enqueue, EnqueueFull, Route, Schedule, Direct
  <1>4. ASSUME NEW r \in Readers, ReaderStep(r) PROVE R
    BY <1>4 DEF ReaderStep, Take, Expire, Recheck
  <1>5. ASSUME NEW t \in Tasks, AsyncGet(t) \/ \E c \in AttachContexts : Attach(t, c) PROVE R
    BY <1>5 DEF AsyncGet, Attach
  <1>6. CASE RunCallback \/ LoopSleep \/ LoopWake \/ LoopStop \/ LoopRestart \/ LoopClose
    BY <1>6 DEF RunCallback, LoopSleep, LoopWake, LoopStop, LoopRestart, LoopClose, LoopStep
  <1>7. CASE UNCHANGED vars
    BY <1>7 DEF vars
  <1> QED BY <1>1, <1>2, <1>3, <1>4, <1>5, <1>6, <1>7 DEF Next

(* What a reader has is older than what is queued and than the call under way. *)
ReadInv ==
    /\ \A r \in Readers : Ordered(got[r]) /\ Precede(Range(got[r]), Range(syncQ))
    /\ \A m \in Delivered :
          /\ m[2] <= calls[m[1]]
          /\ pc[m[1]] = "enqueue" => m[2] < calls[m[1]]
    /\ \A r, q \in Readers : r # q => Range(got[r]) \cap Range(got[q]) = {}

LEMMA ReaderTypes ==
    ASSUME TypeInv
    PROVE  /\ syncQ \in Seq(Items) /\ Range(syncQ) \subseteq Items
           /\ \A r \in Readers : got[r] \in Seq(Messages) /\ Range(got[r]) \subseteq Messages
           /\ Delivered \subseteq Messages
  <1>1. syncQ \in Seq(Items) /\ \A r \in Readers : got[r] \in Seq(Messages)
    BY DEF TypeInv, TypeOK
  <1>2. ASSUME NEW S, NEW s \in Seq(S) PROVE Range(s) \subseteq S
    BY LenProperties, ElementOfSeq DEF Range
  <1> QED BY <1>1, <1>2 DEF Delivered

LEMMA ReadRanges ==
    ASSUME TypeInv, NEW r \in Readers, Read(r)
    PROVE  /\ Head(syncQ) \in Items /\ Head(syncQ) \in Range(syncQ)
           /\ Range(syncQ) = Range(syncQ') \cup {Head(syncQ)}
           /\ Range(got'[r]) = Range(got[r]) \cup ({Head(syncQ)} \cap Messages)
           /\ \A q \in Readers : q # r => got'[q] = got[q]
           /\ Delivered' = Delivered \cup ({Head(syncQ)} \cap Messages)
  <1>1. Head(syncQ) \in Items /\ Range(syncQ) = Range(syncQ') \cup {Head(syncQ)}
    BY ReaderTypes, TailFacts, RangeTail DEF Read
  <1>2. Range(got'[r]) = Range(got[r]) \cup ({Head(syncQ)} \cap Messages)
    <2>1. CASE Head(syncQ) = Sentinel
      BY <2>1, ReceiverAssumption DEF Read, ReceiverAssumption
    <2>2. CASE Head(syncQ) # Sentinel
      <3>1. Head(syncQ) \in Messages /\ got'[r] = Append(got[r], Head(syncQ))
        BY <1>1, <2>2 DEF Read, Items
      <3>2. Range(got'[r]) = Range(got[r]) \cup {Head(syncQ)}
        BY <3>1, ReaderTypes, AppendFacts
      <3> QED BY <3>1, <3>2
    <2> QED BY <2>1, <2>2
  <1>3. \A q \in Readers : q # r => got'[q] = got[q]
    BY DEF Read
  <1>4. Delivered' = Delivered \cup ({Head(syncQ)} \cap Messages)
    BY <1>2, <1>3 DEF Delivered
  <1> QED BY <1>1, <1>2, <1>3, <1>4

LEMMA DeliveredPast ==
    ASSUME TypeInv, QueueInv, ReadInv, [Next]_vars
    PROVE  \A m \in Delivered' :
              /\ m[2] <= calls'[m[1]]
              /\ pc'[m[1]] = "enqueue" => m[2] < calls'[m[1]]
  <1> SUFFICES ASSUME NEW m \in Delivered'
               PROVE  /\ m[2] <= calls'[m[1]]
                      /\ pc'[m[1]] = "enqueue" => m[2] < calls'[m[1]]
    OBVIOUS
  <1>1. m \in Delivered \/ m \in Range(syncQ) \cap Messages
    BY QueueMoves, ReadRanges DEF Delivered, Enqueued, Beside
  <1>2. m \in Messages
    BY <1>1, ReaderTypes
  <1>3. m[2] <= calls[m[1]] /\ (pc[m[1]] = "enqueue" => m[2] < calls[m[1]])
    BY <1>1, <1>2 DEF ReadInv, QueueInv, Numbered, Range
  <1>4. m[1] \in Producers /\ m[2] \in Nat /\ calls[m[1]] \in Nat
    BY <1>2, MessageParts, WriterTypes
  <1> QED BY <1>3, <1>4, EnqueueBegins

LEMMA ReadStep ==
    ASSUME TypeInv, QueueInv, ReadInv, [Next]_vars
    PROVE  ReadInv'
  <1> USE ReaderTypes DEF ReadInv
  <1>0. \A m \in Delivered' :
           /\ m[2] <= calls'[m[1]]
           /\ pc'[m[1]] = "enqueue" => m[2] < calls'[m[1]]
    BY DeliveredPast
  <1>1. ASSUME NEW w \in Writers, Enqueued(w) PROVE ReadInv'
    <2>1. Item(w) \in Items /\ pc[w] = "enqueue"
      BY <1>1, ItemType DEF Enqueued, Enqueue
    <2>2. Range(syncQ') = Range(syncQ) \cup {Item(w)}
      BY <1>1, <2>1, AppendFacts DEF Enqueued
    <2>3. ASSUME Item(w) \in Messages, NEW m \in Delivered, m[1] = Item(w)[1]
          PROVE  m[2] < Item(w)[2]
      <3>1. w \in Producers /\ Item(w) = <<w, calls[w]>>
        BY <2>3, ReceiverAssumption DEF Item, Writers, ReceiverAssumption
      <3> QED BY <2>1, <2>3, <3>1
    <2>4. \A r \in Readers : Precede(Range(got[r]), Range(syncQ'))
      BY <2>2, <2>3 DEF Precede, Delivered
    <2> QED BY <1>0, <1>1, <2>4 DEF Enqueued
  <1>2. ASSUME NEW r \in Readers, Read(r) PROVE ReadInv'
    <2>1. \A m \in Range(syncQ') : m \in Messages /\ Head(syncQ) \in Messages
             /\ Head(syncQ)[1] = m[1] => Head(syncQ)[2] < m[2]
      BY <1>2, OrderedTail DEF Read, QueueInv
    <2>2. Ordered(got'[r])
      <3>1. CASE Head(syncQ) = Sentinel
        BY <1>2, <3>1 DEF Read
      <3>2. CASE Head(syncQ) # Sentinel
        <4>1. Head(syncQ) \in Messages /\ Head(syncQ) \in Range(syncQ)
          BY <1>2, <3>2, ReadRanges DEF Items
        <4>2. \A m \in Range(got[r]) : m \in Messages /\ m[1] = Head(syncQ)[1]
                 => m[2] < Head(syncQ)[2]
          BY <4>1 DEF Precede
        <4>3. got'[r] = Append(got[r], Head(syncQ))
          BY <1>2, <3>2 DEF Read
        <4> QED BY <4>1, <4>2, <4>3, OrderedAppend
      <3> QED BY <3>1, <3>2
    <2>3. Precede(Range(got'[r]), Range(syncQ'))
      <3>1. Precede({Head(syncQ)}, Range(syncQ'))
        BY <2>1 DEF Precede
      <3> QED BY <1>2, <3>1, ReadRanges DEF Precede
    <2>4. \A q \in Readers : q # r => Ordered(got'[q]) /\ Precede(Range(got'[q]), Range(syncQ'))
      BY <1>2, ReadRanges DEF Precede
    <2>5. Head(syncQ) \in Messages => \A q \in Readers : Head(syncQ) \notin Range(got[q])
      <3> SUFFICES ASSUME Head(syncQ) \in Messages, NEW q \in Readers,
                          Head(syncQ) \in Range(got[q])
                   PROVE  FALSE
        OBVIOUS
      <3>1. Head(syncQ)[2] < Head(syncQ)[2]
        BY <1>2, ReadRanges DEF Precede
      <3> QED BY <3>1, MessageParts
    <2>6. \A p, q \in Readers : p # q => Range(got'[p]) \cap Range(got'[q]) = {}
      <3>1. /\ \A q \in Readers : q # r => Range(got'[q]) = Range(got[q])
            /\ Range(got'[r]) = Range(got[r]) \cup ({Head(syncQ)} \cap Messages)
        BY <1>2, ReadRanges
      <3>2. \A q \in Readers : q # r => Range(got'[r]) \cap Range(got'[q]) = {}
        BY <2>5, <3>1
      <3> QED BY <3>1, <3>2
    <2>7. \A q \in Readers : Ordered(got'[q]) /\ Precede(Range(got'[q]), Range(syncQ'))
      BY <2>2, <2>3, <2>4
    <2> HIDE DEF ReadInv
    <2> QED BY <1>0, <2>6, <2>7 DEF ReadInv
  <1>3. CASE Beside
    BY <1>0, <1>3 DEF Beside
  <1> QED BY <1>1, <1>2, <1>3, QueueMoves

(* Each sync iteration receives the messages of a producer in the order of its *)
(* put() calls, and no message is received twice, by two iterations or by one. *)
ReaderOrder ==
    /\ \A r \in Readers : Ordered(got[r])
    /\ \A r, q \in Readers : \A i \in DOMAIN got[r], j \in DOMAIN got[q] :
          got[r][i] = got[q][j] => r = q /\ i = j

(***************************************************************************)
(* Any number of threads may iterate over a receiver: the queue's own lock *)
(* is all that keeps what they receive in order and apart (line 94).       *)
(***************************************************************************)
THEOREM ReadersInOrder == Spec => []ReaderOrder
  <1>1. Init => ReadInv
    BY DEF Init, ReadInv, Ordered, Precede, Delivered, Range
  <1>2. TypeInv /\ QueueInv /\ ReadInv /\ [Next]_vars => ReadInv'
    BY ReadStep
  <1>3. TypeInv /\ ReadInv => ReaderOrder
    <2> SUFFICES ASSUME TypeInv, ReadInv, NEW r \in Readers, NEW q \in Readers,
                        NEW i \in DOMAIN got[r], NEW j \in DOMAIN got[q], got[r][i] = got[q][j]
                 PROVE  r = q /\ i = j
      BY DEF ReadInv, ReaderOrder
    <2>1. got[r][i] \in Range(got[r]) /\ got[q][j] \in Range(got[q]) /\ got[r][i] \in Messages
      BY ReaderTypes DEF Range
    <2>2. r = q
      BY <2>1 DEF ReadInv
    <2>3. i \in Nat /\ j \in Nat /\ got[r][i][2] \in Nat
      BY <2>1, <2>2, MessageParts, ReaderTypes, LenProperties
    <2>4. ~(i < j) /\ ~(j < i)
      BY <2>1, <2>2, <2>3 DEF ReadInv, Ordered
    <2> QED BY <2>2, <2>3, <2>4
  <1> QED BY <1>1, <1>2, <1>3, TypeInductive, QueueInductive, PTL DEF Spec
==============================================================================
