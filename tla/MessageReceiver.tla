--------------------------- MODULE MessageReceiver ---------------------------
(***************************************************************************)
(* receiver.py: the queue between the threads on which the native stack    *)
(* calls back (put), whoever stops the component (close) and the code that *)
(* iterates over the messages, with "for" in a thread of its own or with   *)
(* "async for" on an event loop.                                           *)
(*                                                                         *)
(* A step is what runs between two points where another thread may run:    *)
(* put() tests _closed, then enqueues, then looks at the async mirror,     *)
(* then hands the item to the loop.  Items are <<p, n>>, the n-th put() of *)
(* producer p, or Sentinel, the _SENTINEL object of close().               *)
(***************************************************************************)
EXTENDS Naturals, Sequences, Functions

CONSTANTS
    Producers,       \* threads that call put()
    Closers,         \* threads that call close()
    Readers,         \* sync iterations, one thread each
    Tasks,           \* async iterations, coroutines of one event loop
    Sentinel,        \* _SENTINEL
    MaxSize,         \* the maxsize argument; 0 means unbounded
    MaxCalls,        \* bound on the calls each producer or closer makes
    MaxStops,        \* bound on how often the event loop is stopped
    AttachContexts   \* where __aiter__ may run: on the "loop", "outside" of it

Writers  == Producers \cup Closers
Messages == Producers \X (1..MaxCalls)
Items    == Messages \cup {Sentinel}

ASSUME ReceiverAssumption ==
    /\ Producers \cap Closers = {}
    /\ Readers \cap Tasks = {}
    /\ Sentinel \notin Messages
    /\ MaxSize \in Nat /\ MaxCalls \in Nat /\ MaxStops \in Nat
    /\ AttachContexts \subseteq {"loop", "outside"}

VARIABLES
    closed,   \* _closed
    syncQ,    \* _sync_queue
    mirror,   \* _async_queue and _loop: "absent", "unbound" (no loop) or "bound"
    asyncQ,   \* _async_queue's items
    loop,     \* the event loop: "running", "asleep" in select(), "stopped", "closed"
    ready,    \* callbacks that call_soon_threadsafe has handed to the loop
    stops,    \* how often the loop was stopped
    pc,       \* where each writer is in put() or close()
    calls,    \* how many calls each writer has made
    reader,   \* where each sync iteration is in __next__
    task,     \* where each async iteration is in __anext__
    got       \* what each iteration has received so far

writeVars == <<pc, calls>>
loopVars  == <<loop, ready, stops>>
mirrVars  == <<mirror, asyncQ, task>>
vars == <<closed, syncQ, reader, got, writeVars, loopVars, mirrVars>>

TypeOK ==
    /\ closed \in BOOLEAN
    /\ syncQ \in Seq(Items)
    /\ MaxSize > 0 => Len(syncQ) <= MaxSize
    /\ mirror \in {"absent", "unbound", "bound"}
    /\ asyncQ \in Seq(Items)
    /\ loop \in {"running", "asleep", "stopped", "closed"}
    /\ ready \in Seq(Items)
    /\ stops \in 0..MaxStops
    /\ pc \in [Writers -> {"idle", "enqueue", "route", "schedule", "direct"}]
    /\ calls \in [Writers -> 0..MaxCalls]
    /\ reader \in [Readers -> {"get", "expired", "stopped"}]
    /\ task \in [Tasks -> {"new", "next", "waiting", "woken", "stopped"}]
    /\ got \in [Readers \cup Tasks -> Seq(Messages)]

Init ==
    /\ closed = FALSE
    /\ syncQ = <<>>
    /\ mirror = "absent"
    /\ asyncQ = <<>>
    /\ loop = "running"
    /\ ready = <<>>
    /\ stops = 0
    /\ pc = [w \in Writers |-> "idle"]
    /\ calls = [w \in Writers |-> 0]
    /\ reader = [r \in Readers |-> "get"]
    /\ task = [t \in Tasks |-> "new"]
    /\ got = [c \in Readers \cup Tasks |-> <<>>]

(* The object a call of put() or close() in progress is pushing. *)
Item(w) == IF w \in Closers THEN Sentinel ELSE <<w, calls[w]>>

GoTo(w, place) == pc' = [pc EXCEPT ![w] = place]

-----------------------------------------------------------------------------
(*                             put and close                                *)

(* Variants named after what they get wrong stand before the definition they   *)
(* change; only the mutation runs use them.                                    *)
AdmitsAlways == TRUE
Admits == ~closed

PutBegin(p) ==
    /\ pc[p] = "idle" /\ calls[p] < MaxCalls
    /\ calls' = [calls EXCEPT ![p] = @ + 1]
    /\ IF Admits THEN GoTo(p, "enqueue") ELSE UNCHANGED pc
    /\ UNCHANGED <<closed, syncQ, reader, got, loopVars, mirrVars>>

CloseBegin(k) ==
    /\ pc[k] = "idle" /\ calls[k] < MaxCalls
    /\ closed' = TRUE
    /\ calls' = [calls EXCEPT ![k] = @ + 1]
    /\ GoTo(k, "enqueue")
    /\ UNCHANGED <<syncQ, reader, got, loopVars, mirrVars>>

HasRoomOffByOne == MaxSize > 0 => Len(syncQ) <= MaxSize
HasRoom == MaxSize > 0 => Len(syncQ) < MaxSize

(* _sync_queue.put_nowait *)
Enqueue(w) ==
    /\ pc[w] = "enqueue" /\ HasRoom
    /\ syncQ' = Append(syncQ, Item(w))
    /\ GoTo(w, "route")
    /\ UNCHANGED <<closed, calls, reader, got, loopVars, mirrVars>>

EnqueueFullIgnored(w) ==
    /\ pc[w] = "enqueue" /\ ~HasRoom
    /\ GoTo(w, "route")
    /\ UNCHANGED <<closed, syncQ, calls, reader, got, loopVars, mirrVars>>

(* queue.Full leaves put() or close() before the mirror is looked at. *)
EnqueueFull(w) ==
    /\ pc[w] = "enqueue" /\ ~HasRoom
    /\ GoTo(w, "idle")
    /\ UNCHANGED <<closed, syncQ, calls, reader, got, loopVars, mirrVars>>

WokenNever == loop
Woken == IF loop = "asleep" THEN "running" ELSE loop

LoopIsRunning == loop \in {"running", "asleep"}

RouteToWaitingTask(w) ==
    /\ pc[w] = "route"
    /\ GoTo(w, CASE mirror = "absent" -> "idle"
                 [] \E t \in Tasks : task[t] = "waiting" -> "direct"
                 [] OTHER -> "schedule")
    /\ UNCHANGED <<closed, syncQ, calls, reader, got, loopVars, mirrVars>>

(* _put_async up to its branch.  The mirror is created once and never changes *)
(* afterwards, so reading it under the lock and asking is_running() are one   *)
(* step.                                                                      *)
Route(w) ==
    /\ pc[w] = "route"
    /\ GoTo(w, CASE mirror = "absent" -> "idle"
                 [] mirror = "bound" /\ LoopIsRunning -> "schedule"
                 [] OTHER -> "direct")
    /\ UNCHANGED <<closed, syncQ, calls, reader, got, loopVars, mirrVars>>

(* call_soon_threadsafe: queue the callback and wake the selector.  The loop *)
(* may have stopped since is_running(); if it was closed the call raises.    *)
Schedule(w) ==
    /\ pc[w] = "schedule"
    /\ GoTo(w, "idle")
    /\ IF loop = "closed" THEN UNCHANGED <<loop, ready>>
       ELSE /\ ready' = Append(ready, Item(w))
            /\ loop' = Woken
    /\ UNCHANGED <<closed, syncQ, calls, reader, got, stops, mirrVars>>

PutNowaitSilently(item) ==
    /\ asyncQ' = Append(asyncQ, item)
    /\ UNCHANGED <<mirror, task>>

(* asyncio.Queue.put_nowait: add the item and wake one waiting getter, if any. *)
PutNowait(item) ==
    /\ asyncQ' = Append(asyncQ, item)
    /\ IF \E t \in Tasks : task[t] = "waiting"
       THEN \E t \in Tasks : task[t] = "waiting" /\ task' = [task EXCEPT ![t] = "woken"]
       ELSE UNCHANGED task
    /\ UNCHANGED mirror

(* put_nowait called from the writer's own thread: a getter it wakes is handed *)
(* to the loop without waking the selector.                                    *)
Direct(w) ==
    /\ pc[w] = "direct"
    /\ GoTo(w, "idle")
    /\ PutNowait(Item(w))
    /\ UNCHANGED <<closed, syncQ, calls, reader, got, loopVars>>

-----------------------------------------------------------------------------
(*                        __next__, in a reader's thread                    *)

Take(r) ==
    /\ reader[r] = "get" /\ syncQ # <<>>
    /\ syncQ' = Tail(syncQ)
    /\ IF Head(syncQ) = Sentinel
       THEN reader' = [reader EXCEPT ![r] = "stopped"] /\ UNCHANGED got
       ELSE got' = [got EXCEPT ![r] = Append(@, Head(syncQ))] /\ UNCHANGED reader
    /\ UNCHANGED <<closed, writeVars, loopVars, mirrVars>>

(* get(timeout=0.5) raises Empty ... *)
Expire(r) ==
    /\ reader[r] = "get" /\ syncQ = <<>>
    /\ reader' = [reader EXCEPT ![r] = "expired"]
    /\ UNCHANGED <<closed, syncQ, got, writeVars, loopVars, mirrVars>>

RecheckNothing(r) ==
    /\ reader[r] = "expired"
    /\ reader' = [reader EXCEPT ![r] = "stopped"]
    /\ UNCHANGED <<closed, syncQ, got, writeVars, loopVars, mirrVars>>

RecheckNever(r) ==
    /\ reader[r] = "expired"
    /\ reader' = [reader EXCEPT ![r] = "get"]
    /\ UNCHANGED <<closed, syncQ, got, writeVars, loopVars, mirrVars>>

(* ... and _closed is looked at some time later. *)
Recheck(r) ==
    /\ reader[r] = "expired"
    /\ reader' = [reader EXCEPT ![r] = IF closed THEN "stopped" ELSE "get"]
    /\ UNCHANGED <<closed, syncQ, got, writeVars, loopVars, mirrVars>>

-----------------------------------------------------------------------------
(*                  __aiter__ and __anext__, on the event loop              *)

(* _ensure_async_queue keeps the loop that is running when it first runs.  An *)
(* iteration set up outside the loop is handed to it, which wakes the loop.    *)
Attach(t, context) ==
    /\ task[t] = "new"
    /\ context = "loop" => loop = "running"
    /\ mirror' = CASE mirror # "absent" -> mirror
                   [] mirror = "absent" /\ context = "loop" -> "bound"
                   [] OTHER -> "unbound"
    /\ task' = [task EXCEPT ![t] = "next"]
    /\ loop' = Woken
    /\ UNCHANGED <<closed, syncQ, asyncQ, reader, got, ready, stops, writeVars>>

Runnable(t) == task[t] \in {"next", "woken"}

(* "await q.get()": take the first item or wait for one. *)
AsyncGet(t) ==
    /\ loop = "running" /\ Runnable(t)
    /\ IF asyncQ = <<>>
       THEN task' = [task EXCEPT ![t] = "waiting"] /\ UNCHANGED <<asyncQ, got>>
       ELSE /\ asyncQ' = Tail(asyncQ)
            /\ IF Head(asyncQ) = Sentinel
               THEN task' = [task EXCEPT ![t] = "stopped"] /\ UNCHANGED got
               ELSE /\ task' = [task EXCEPT ![t] = "next"]
                    /\ got' = [got EXCEPT ![t] = Append(@, Head(asyncQ))]
    /\ UNCHANGED <<closed, syncQ, mirror, reader, writeVars, loopVars>>

-----------------------------------------------------------------------------
(*                     the event loop (asyncio, external)                   *)

RunCallback ==
    /\ loop = "running" /\ ready # <<>>
    /\ ready' = Tail(ready)
    /\ PutNowait(Head(ready))
    /\ UNCHANGED <<closed, syncQ, reader, got, loop, stops, writeVars>>

LoopStep(from, to) ==
    /\ loop = from
    /\ loop' = to
    /\ UNCHANGED <<closed, syncQ, reader, got, ready, writeVars, mirrVars>>

(* Nothing to run: block in select(). *)
LoopSleep ==
    /\ ready = <<>> /\ \A t \in Tasks : ~Runnable(t)
    /\ LoopStep("running", "asleep") /\ UNCHANGED stops

(* A timer or other I/O of the application ends select(). *)
LoopWake == LoopStep("asleep", "running") /\ UNCHANGED stops

LoopStop == stops < MaxStops /\ LoopStep("running", "stopped") /\ stops' = stops + 1

LoopRestart == LoopStep("stopped", "running") /\ UNCHANGED stops

LoopClose == LoopStep("stopped", "closed") /\ UNCHANGED stops

-----------------------------------------------------------------------------

WriterStep(w) == Enqueue(w) \/ EnqueueFull(w) \/ Route(w) \/ Schedule(w) \/ Direct(w)

ReaderStep(r) == Take(r) \/ Expire(r) \/ Recheck(r)

Next ==
    \/ \E p \in Producers : PutBegin(p)
    \/ \E k \in Closers : CloseBegin(k)
    \/ \E w \in Writers : WriterStep(w)
    \/ \E r \in Readers : ReaderStep(r)
    \/ \E t \in Tasks : AsyncGet(t) \/ \E context \in AttachContexts : Attach(t, context)
    \/ RunCallback
    \/ LoopSleep \/ LoopWake \/ LoopStop \/ LoopRestart \/ LoopClose

(* A call in progress, a reader's polling and the running loop's own work go  *)
(* on.  Nobody has to call put() or close(), to iterate, or to wake, stop or  *)
(* restart the loop.                                                          *)
Fairness ==
    /\ \A w \in Writers : WF_vars(WriterStep(w))
    /\ \A r \in Readers : WF_vars(ReaderStep(r))
    /\ \A t \in Tasks : WF_vars(AsyncGet(t))
    /\ WF_vars(RunCallback)

Spec == Init /\ [][Next]_vars

FairSpec == Spec /\ Fairness

-----------------------------------------------------------------------------
(*                                 Properties                               *)

(* Messages of one producer stand in the order of its put() calls. *)
Ordered(s) ==
    \A i, j \in DOMAIN s :
        i < j /\ s[i] \in Messages /\ s[j] \in Messages /\ s[i][1] = s[j][1]
            => s[i][2] < s[j][2]

(* At most one message of each producer stands behind the first sentinel. *)
OneLate(s) ==
    \A i, j, k \in DOMAIN s :
        i < j /\ j < k /\ s[i] = Sentinel /\ s[j] \in Messages /\ s[k] \in Messages
            => s[j][1] # s[k][1]

(* put() tests _closed without the queue's lock (line 66), so a message can be *)
(* enqueued behind the sentinel, where no iteration reaches it; but a producer *)
(* loses no more than the call that was under way.                             *)
LateBound == OneLate(syncQ)

Queued    == Range(syncQ) \cap Messages
Delivered == UNION {Range(got[r]) : r \in Readers}
Accepted  == Queued \cup Delivered

(* The async mirror never invents or repeats a message: whatever is on its way *)
(* to a task or received by one was taken by the sync queue (which raises Full *)
(* first, line 68), and no two receptions are of the same message.             *)
MirrorFollows ==
    /\ (Range(asyncQ) \cup Range(ready)) \cap Messages \subseteq Accepted
    /\ \A t, u \in Tasks : \A i \in DOMAIN got[t], j \in DOMAIN got[u] :
          /\ got[t][i] \in Accepted
          /\ got[t][i] = got[u][j] => t = u /\ i = j

(* On a loop that is not stopped, async iterations receive each producer's     *)
(* messages in order although they travel by call_soon_threadsafe when the     *)
(* loop is bound and by the producer's own thread when it is not (lines 52-58).*)
TaskOrder == stops = 0 => \A t \in Tasks : Ordered(got[t])

(* Until it is stopped for the first time, a loop captured by                  *)
(* _ensure_async_queue never blocks in select() while an item waits for a task *)
(* that is waiting for one: line 53 wakes the selector.                        *)
NoLostWakeup ==
    mirror = "bound" /\ stops = 0 /\ loop = "asleep" =>
        /\ ready = <<>>
        /\ asyncQ = <<>> \/ \A t \in Tasks : task[t] \in {"new", "stopped"}

(* Every sync iteration ends after close(), however many there are, however    *)
(* late they come and even when a full queue has refused the sentinel: the     *)
(* 0.5 s poll of __next__ sees _closed (lines 94-99).                          *)
CloseEndsReaders == closed ~> \A r \in Readers : reader[r] = "stopped"

(* Once the sentinel is in the sync queue and async iteration was started on   *)
(* the loop, some async iteration ends (or the loop is stopped meanwhile).     *)
CloseEndsATask ==
    \A k \in Closers :
        (pc[k] = "route" /\ mirror = "bound")
            ~> (stops > 0 \/ \E t \in Tasks : task[t] = "stopped")

(* A message on its way to the loop reaches a task unless an iteration has     *)
(* ended (its task may be the one that would have taken it) or the loop is     *)
(* stopped.                                                                    *)
TaskServed ==
    \A p \in Producers, n \in 1..MaxCalls :
        (pc[p] = "schedule" /\ calls[p] = n)
            ~> \/ stops > 0
               \/ \E t \in Tasks : task[t] = "stopped" \/ <<p, n>> \in Range(got[t])

InFlight == {Item(p) : p \in {q \in Producers : pc[q] = "enqueue"}}
Ended    == {r \in Readers : reader[r] = "stopped"}

(* What its readers see of the receiver is a DeliveryChannel: no message is    *)
(* delivered twice, out of its producer's order, or to a reader that has       *)
(* stopped, and no reader stops before close().                                *)
Channel == INSTANCE DeliveryChannel WITH
    open      <- ~closed,
    sent      <- [p \in Producers |-> calls[p]],
    inflight  <- InFlight,
    queued    <- Queued,
    delivered <- Delivered,
    ended     <- Ended

IsChannel == Channel!Spec

(* What tests/unit/test_receiver.py:73 asserts: messages put before close()    *)
(* are received, so an iteration does not stop with a message still standing   *)
(* in front of the sentinel.                                                   *)
ReaderDrains ==
    \A r \in Readers : reader[r] = "stopped" =>
        \A i, j \in DOMAIN syncQ :
            i < j /\ syncQ[j] = Sentinel => syncQ[i] \notin Messages

(* What close()'s docstring says (line 72): an async iteration that is waiting *)
(* when close() is called is unblocked.                                        *)
CloseUnblocksAll ==
    \A k \in Closers, t \in Tasks :
        (pc[k] = "enqueue" /\ task[t] = "waiting") ~> task[t] # "waiting"

=============================================================================
