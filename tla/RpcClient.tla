------------------------------ MODULE RpcClient ------------------------------
(***************************************************************************)
(* rpc.py's RpcClient: coroutines of one event loop in call_async(),       *)
(* threads in call(), the native stack answering on threads of its own,    *)
(* and stop(), called on the loop or on another thread.                    *)
(*                                                                         *)
(* The loop runs one coroutine at a time and only an await lets another    *)
(* one run; every other thread may run between two steps.  The native      *)
(* client is external: it answers a call with a result or not at all.      *)
(***************************************************************************)
EXTENDS Naturals, FiniteSets

CONSTANTS
    AsyncCalls,     \* invocations of call_async()
    SyncCalls,      \* invocations of call()
    None,           \* no call: an unused session of _pending
    SessionMod,     \* 2^16, the "& 0xFFFF" of _next_session
    MaxStarts,      \* bound on start() calls
    MaxStops,       \* bound on stop() calls
    StopContexts    \* where stop() may be called: on the "loop", on a "thread"

Calls    == AsyncCalls \cup SyncCalls
Sessions == 0..(SessionMod - 1)

ASSUME RpcAssumption ==
    /\ AsyncCalls \cap SyncCalls = {}
    /\ None \notin Calls
    /\ SessionMod \in Nat \ {0}
    /\ MaxStarts \in Nat /\ MaxStops \in Nat
    /\ StopContexts \subseteq {"loop", "thread"}

VARIABLES
    running,    \* _running
    session,    \* _session_counter
    pending,    \* _pending: the call whose future each session holds, or None
    future,     \* each async call's future: "none", "pending", "result", "cancelled"
    pc,         \* where each call is
    sess,       \* the session each async call was given
    native,     \* what the native client did with each call
    ready,      \* calls whose set_result is queued on the loop
    timedOut,   \* calls on which wait_for's timer has fired
    outcome,    \* how each call ended
    stopAt,     \* where stop() is
    stopFrom,   \* where stop() was called
    visited,    \* sessions its loop over _pending has visited
    size,       \* how many entries _pending had when that loop began
    starts,     \* how often start() was called
    stops,      \* how often stop() was called
    reused,     \* history: an async call was given the session of an earlier one
    foreign     \* history: stop() was called on another thread

callVars == <<pc, sess, native, outcome>>
loopVars == <<future, ready, timedOut>>
stopVars == <<stopAt, stopFrom, visited, size, stops, foreign>>
vars == <<running, pending, starts, callVars, loopVars, stopVars, session, reused>>

TypeOK ==
    /\ running \in BOOLEAN
    /\ session \in Sessions
    /\ pending \in [Sessions -> AsyncCalls \cup {None}]
    /\ future \in [AsyncCalls -> {"none", "pending", "result", "cancelled"}]
    /\ pc \in [Calls -> {"idle", "checked", "registered", "waiting", "done"}]
    /\ sess \in [AsyncCalls -> Sessions]
    /\ native \in [Calls -> {"none", "sent", "answered"}]
    /\ ready \subseteq AsyncCalls
    /\ timedOut \subseteq AsyncCalls
    /\ outcome \in [Calls -> {"none", "response", "timeout", "cancelled", "error"}]
    /\ stopAt \in {"idle", "shutdown", "cancel"}
    /\ stopFrom \in {"loop", "thread"}
    /\ visited \subseteq Sessions
    /\ size \in 0..SessionMod
    /\ starts \in 0..MaxStarts /\ stops \in 0..MaxStops
    /\ reused \in BOOLEAN /\ foreign \in BOOLEAN

Init ==
    /\ running = FALSE
    /\ session = 0
    /\ pending = [s \in Sessions |-> None]
    /\ future = [c \in AsyncCalls |-> "none"]
    /\ pc = [c \in Calls |-> "idle"]
    /\ sess = [c \in AsyncCalls |-> 0]
    /\ native = [c \in Calls |-> "none"]
    /\ ready = {}
    /\ timedOut = {}
    /\ outcome = [c \in Calls |-> "none"]
    /\ stopAt = "idle" /\ stopFrom = "loop" /\ visited = {} /\ size = 0
    /\ starts = 0 /\ stops = 0
    /\ reused = FALSE /\ foreign = FALSE

-----------------------------------------------------------------------------

Used == {s \in Sessions : pending[s] # None}

(* Something runs on the loop's thread without awaiting. *)
LoopBusy ==
    \/ \E c \in AsyncCalls : pc[c] \in {"checked", "registered"}
    \/ stopAt \in {"shutdown", "cancel"} /\ stopFrom = "loop"

End(c, how) ==
    /\ pc' = [pc EXCEPT ![c] = "done"]
    /\ outcome' = [outcome EXCEPT ![c] = how]

(* Variants named after what they get wrong stand before the definition they   *)
(* change; only the mutation runs use them.                                    *)
NextSessionUnmasked == session' = session + 1

(* _next_session; no thread switch happens inside it. *)
NextSession == session' = (session + 1) % SessionMod

(* Whoever owns the client does not start it while a stop() is under way. *)
Start ==
    /\ stopAt = "idle" /\ starts < MaxStarts
    /\ running' = TRUE
    /\ starts' = starts + 1
    /\ UNCHANGED <<pending, callVars, loopVars, stopVars, session, reused>>

-----------------------------------------------------------------------------
(*                          call_async, on the loop                         *)

Check(c) ==
    /\ ~LoopBusy /\ pc[c] = "idle"
    /\ IF running THEN pc' = [pc EXCEPT ![c] = "checked"] /\ UNCHANGED outcome
       ELSE End(c, "error")
    /\ UNCHANGED <<running, pending, starts, sess, native, loopVars, stopVars, session, reused>>

RegisterTooEarly(c) ==
    /\ pc[c] = "checked"
    /\ NextSession
    /\ sess' = [sess EXCEPT ![c] = session]
    /\ pending' = [pending EXCEPT ![session'] = c]
    /\ reused' = (reused \/ \E d \in AsyncCalls : future[d] # "none" /\ sess[d] = session')
    /\ future' = [future EXCEPT ![c] = "pending"]
    /\ pc' = [pc EXCEPT ![c] = "registered"]
    /\ UNCHANGED <<running, starts, native, outcome, ready, timedOut, stopVars>>

(* Lines 161-163: a future, a session, an entry (over whatever it held). *)
Register(c) ==
    /\ pc[c] = "checked"
    /\ NextSession
    /\ sess' = [sess EXCEPT ![c] = session']
    /\ pending' = [pending EXCEPT ![session'] = c]
    /\ reused' = (reused \/ \E d \in AsyncCalls : future[d] # "none" /\ sess[d] = session')
    /\ future' = [future EXCEPT ![c] = "pending"]
    /\ pc' = [pc EXCEPT ![c] = "registered"]
    /\ UNCHANGED <<running, starts, native, outcome, ready, timedOut, stopVars>>

(* call_method_async returned; the coroutine suspends in wait_for. *)
Issue(c) ==
    /\ pc[c] = "registered"
    /\ native' = [native EXCEPT ![c] = "sent"]
    /\ pc' = [pc EXCEPT ![c] = "waiting"]
    /\ UNCHANGED <<running, pending, starts, sess, outcome, loopVars, stopVars, session, reused>>

(* call_method_async raised; nothing takes the entry back. *)
IssueRaises(c) ==
    /\ pc[c] = "registered"
    /\ End(c, "error")
    /\ UNCHANGED <<running, pending, starts, sess, native, loopVars, stopVars, session, reused>>

RespondToSession(c) ==
    /\ native[c] = "sent"
    /\ native' = [native EXCEPT ![c] = "answered"]
    /\ ready' = ready \cup ({pending[sess[c]]} \ {None})
    /\ UNCHANGED <<running, pending, starts, pc, sess, outcome, future, timedOut,
                   stopVars, session, reused>>

(* A native thread runs _on_response, which queues set_result on the loop      *)
(* whatever cpp_resp.result says: a call that failed has a response, too.      *)
Respond(c) ==
    /\ native[c] = "sent"
    /\ native' = [native EXCEPT ![c] = "answered"]
    /\ ready' = ready \cup {c}
    /\ UNCHANGED <<running, pending, starts, pc, sess, outcome, future, timedOut,
                   stopVars, session, reused>>

(* The queued set_result; on a future that is done it raises and nothing else. *)
SetResult(c) ==
    /\ ~LoopBusy /\ c \in ready
    /\ ready' = ready \ {c}
    /\ future' = [future EXCEPT ![c] = IF @ = "pending" THEN "result" ELSE @]
    /\ UNCHANGED <<running, pending, starts, callVars, timedOut, stopVars, session, reused>>

Cancelled(f) == IF f = "pending" THEN "cancelled" ELSE f

TimerNever(c) == FALSE

(* wait_for's timer. *)
Timer(c) ==
    /\ ~LoopBusy /\ pc[c] = "waiting" /\ c \notin timedOut
    /\ timedOut' = timedOut \cup {c}
    /\ future' = [future EXCEPT ![c] = Cancelled(@)]
    /\ UNCHANGED <<running, pending, starts, callVars, ready, stopVars, session, reused>>

(* The application cancels the task that awaits the call. *)
CancelTask(c) ==
    /\ ~LoopBusy /\ pc[c] = "waiting" /\ future[c] = "pending"
    /\ future' = [future EXCEPT ![c] = "cancelled"]
    /\ UNCHANGED <<running, pending, starts, callVars, ready, timedOut, stopVars, session, reused>>

(* The coroutine goes on after a timeout: only here is the entry removed. *)
ResumeTimeoutKeeps(c) ==
    /\ ~LoopBusy /\ pc[c] = "waiting" /\ c \in timedOut
    /\ End(c, "timeout")
    /\ UNCHANGED <<running, pending, starts, sess, native, loopVars, stopVars, session, reused>>

ResumeTimeout(c) ==
    /\ ~LoopBusy /\ pc[c] = "waiting" /\ c \in timedOut
    /\ pending' = [pending EXCEPT ![sess[c]] = None]
    /\ End(c, "timeout")
    /\ UNCHANGED <<running, starts, sess, native, loopVars, stopVars, session, reused>>

(* The coroutine goes on with the response.  If the timer fired after the      *)
(* result was set, Python 3.10 and 3.11 return the response and later versions *)
(* may raise.                                                                  *)
ResumeResponse(c) ==
    /\ ~LoopBusy /\ pc[c] = "waiting" /\ future[c] = "result"
    /\ End(c, "response")
    /\ UNCHANGED <<running, pending, starts, sess, native, loopVars, stopVars, session, reused>>

(* CancelledError is not caught by call_async. *)
ResumeCancelled(c) ==
    /\ ~LoopBusy /\ pc[c] = "waiting" /\ future[c] = "cancelled" /\ c \notin timedOut
    /\ End(c, "cancelled")
    /\ UNCHANGED <<running, pending, starts, sess, native, loopVars, stopVars, session, reused>>

-----------------------------------------------------------------------------
(*                       call, on a thread of its own                       *)

SyncBegin(c) ==
    /\ pc[c] = "idle"
    /\ IF running
       THEN /\ pc' = [pc EXCEPT ![c] = "waiting"]
            /\ native' = [native EXCEPT ![c] = "sent"]
            /\ UNCHANGED outcome
       ELSE End(c, "error") /\ UNCHANGED native
    /\ UNCHANGED <<running, pending, starts, sess, loopVars, stopVars, session, reused>>

(* call_method_sync returned: a failure is raised, a success takes a session. *)
SyncReturn(c) ==
    /\ pc[c] = "waiting"
    /\ native' = [native EXCEPT ![c] = "answered"]
    /\ \/ End(c, "response") /\ NextSession
       \/ End(c, "error") /\ UNCHANGED session
    /\ UNCHANGED <<running, pending, starts, sess, loopVars, stopVars, reused>>

-----------------------------------------------------------------------------
(*                                  stop                                    *)

(* The native shutdown releases the GIL. *)
StopBegin(from) ==
    /\ stopAt = "idle" /\ stops < MaxStops
    /\ stops' = stops + 1
    /\ from = "loop" => ~LoopBusy
    /\ stopAt' = "shutdown"
    /\ stopFrom' = from
    /\ foreign' = (foreign \/ from = "thread")
    /\ UNCHANGED <<running, pending, starts, visited, size, callVars, loopVars, session, reused>>

(* _running = False *)
StopMark ==
    /\ stopAt = "shutdown"
    /\ stopAt' = "cancel"
    /\ running' = FALSE
    /\ UNCHANGED <<pending, starts, stopFrom, visited, size, stops, foreign, callVars,
                   loopVars, session, reused>>

(* The dict's iterator fails if an entry came or went since it was created, *)
(* which is just before it finds the first entry.                           *)
SameSize == visited = {} \/ Cardinality(Used) = size

(* future.cancel() on the next entry, if its future is not done. *)
StopCancel(s) ==
    /\ stopAt = "cancel" /\ SameSize /\ s \in Used \ visited
    /\ size' = Cardinality(Used)
    /\ visited' = visited \cup {s}
    /\ future' = [future EXCEPT ![pending[s]] = Cancelled(@)]
    /\ UNCHANGED <<running, pending, starts, stopAt, stopFrom, stops, foreign, callVars,
                   ready, timedOut, session, reused>>

StopLeave ==
    /\ stopAt' = "idle" /\ stopFrom' = "loop" /\ visited' = {} /\ size' = 0
    /\ UNCHANGED <<running, starts, stops, foreign, callVars, loopVars, session, reused>>

StopClearFirst ==
    /\ stopAt = "cancel" /\ SameSize
    /\ pending' = [s \in Sessions |-> None]
    /\ StopLeave

(* _pending.clear(), once every entry is visited. *)
StopClear ==
    /\ stopAt = "cancel" /\ SameSize /\ Used \subseteq visited
    /\ pending' = [s \in Sessions |-> None]
    /\ StopLeave

(* "dictionary changed size during iteration" leaves stop(). *)
StopRaise ==
    /\ stopAt = "cancel" /\ ~SameSize
    /\ StopLeave
    /\ UNCHANGED pending

-----------------------------------------------------------------------------

CallStep(c) ==
    \/ Register(c) \/ Issue(c) \/ IssueRaises(c) \/ SetResult(c) \/ Timer(c)
    \/ ResumeTimeout(c) \/ ResumeResponse(c) \/ ResumeCancelled(c)

StopStep == StopMark \/ (\E s \in Sessions : StopCancel(s)) \/ StopClear \/ StopRaise

Next ==
    \/ Start
    \/ \E c \in AsyncCalls : Check(c) \/ Respond(c) \/ CallStep(c) \/ CancelTask(c)
    \/ \E c \in SyncCalls : SyncBegin(c) \/ SyncReturn(c)
    \/ \E from \in StopContexts : StopBegin(from)
    \/ StopStep

(* The loop runs what is ready and due and a stop() under way goes on.  The    *)
(* native client need not answer, and nobody has to call, cancel or stop.  The *)
(* loop is busy only for a bounded number of steps, so weak fairness is enough.*)
Fairness ==
    /\ \A c \in AsyncCalls : WF_vars(CallStep(c))
    /\ WF_vars(StopStep)

Spec == Init /\ [][Next]_vars

FairSpec == Spec /\ Fairness

-----------------------------------------------------------------------------
(*                                 Properties                               *)

(* Until a session is given out again, and as long as stop() is called on the  *)
(* loop, every call whose future is pending is under its own session in    *)
(* _pending, where stop() and its own timeout find it (lines 162-163, 187).    *)
Tracked ==
    ~reused /\ ~foreign =>
        \A c \in AsyncCalls : future[c] = "pending" => pending[sess[c]] = c

(* Under the same conditions a client that has been stopped leaves no call     *)
(* waiting for its timeout (lines 85-89): stop() is not overtaken by a call    *)
(* between _running = False and the end of its loop.                           *)
NoneLeftBehind ==
    ~reused /\ ~foreign /\ ~running /\ stopAt = "idle" =>
        \A c \in AsyncCalls : future[c] # "pending"

(* A call that timed out is not held by _pending any more, however the timeout *)
(* met the answer, stop(), or another call under the same session (line 187).  *)
TimeoutForgets ==
    \A c \in AsyncCalls : outcome[c] = "timeout" => pending[sess[c]] # c

Stage(c) ==
    CASE pc[c] = "waiting" -> "asked" [] pc[c] = "done" -> "ended" [] OTHER -> "new"

(* Whoever awaits call_async() sees an RpcExchange: no call is given the        *)
(* answer of another, also when a wrapped session has taken its entry, and a   *)
(* late answer or a stop() changes nothing about a call that has ended (lines  *)
(* 161-188).                                                                   *)
Exchange == INSTANCE RpcExchange WITH
    Calls    <- AsyncCalls,
    stage    <- [c \in AsyncCalls |-> Stage(c)],
    answered <- {c \in AsyncCalls : native[c] = "answered"},
    outcome  <- [c \in AsyncCalls |-> outcome[c]]

IsExchange == Exchange!Spec

(* Every call_async() ends, although the native client may never answer, an    *)
(* answer may come too late, and stop() may miss the call (lines 184-188).     *)
CallsEnd == \A c \in AsyncCalls : pc[c] = "checked" ~> pc[c] = "done"

(* stop()'s docstring (line 79), "cancel pending calls": when stop() is over,  *)
(* no registered call is still waiting.                                        *)
StopCancelsPending ==
    [][stopAt = "cancel" /\ stopAt' = "idle"
         => \A c \in AsyncCalls : future'[c] # "pending"]_vars

=============================================================================
