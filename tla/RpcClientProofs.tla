---------------------------- MODULE RpcClientProofs ----------------------------
(***************************************************************************)
(* Proofs about RpcClient for every number of calls and sessions: type     *)
(* correctness, what _pending holds, who is left waiting after a stop(),   *)
(* and that call_async() implements RpcExchange.                           *)
(***************************************************************************)
EXTENDS RpcClient, FiniteSetTheorems, TLAPS

(* What the place of a call says of its future, its answer and its outcome.    *)
Life ==
    \A c \in AsyncCalls :
        /\ pc[c] \in {"idle", "checked"} => future[c] = "none"
        /\ pc[c] \in {"registered", "waiting"} => future[c] # "none"
        /\ pc[c] \in {"idle", "checked", "registered"} => native[c] = "none"
        /\ pc[c] = "waiting" => native[c] # "none"
        /\ pc[c] # "done" => outcome[c] = "none"
        /\ c \in timedOut => pc[c] \in {"waiting", "done"} /\ future[c] # "pending"
        /\ c \in ready \/ future[c] = "result" => native[c] = "answered"

(* As long as stop() is called on the loop, no coroutine runs beside it: its   *)
(* loop over _pending finds what it left, and no checked call outlives it.     *)
OnLoop ==
    /\ stopAt # "cancel" => visited = {}
    /\ ~foreign =>
          /\ stopFrom = "loop"
          /\ \A c \in AsyncCalls :
                /\ stopAt # "idle" => pc[c] \notin {"checked", "registered"}
                /\ pc[c] = "checked" => running
          /\ \A s \in visited : pending[s] # None => future[pending[s]] # "pending"
          /\ visited # {} => size = Cardinality(Used)

(* Until a session is given out again no two calls share one.                  *)
Separate ==
    ~reused => \A c, d \in AsyncCalls :
        future[c] # "none" /\ future[d] # "none" /\ sess[c] = sess[d] => c = d

Inv == Life /\ OnLoop /\ Separate /\ Tracked /\ NoneLeftBehind /\ TimeoutForgets

IInv == TypeOK /\ Inv

-----------------------------------------------------------------------------
(*                               Types                                      *)

(* _pending has at most one entry for each session.                           *)
LEMMA Few == Cardinality(Used) \in 0..SessionMod
<1>0. SessionMod \in Nat \ {0}
    BY RpcAssumption
<1>1. IsFiniteSet(Sessions) /\ Cardinality(Sessions) = SessionMod
    BY <1>0, FS_Interval DEF Sessions
<1>2. Used \in SUBSET Sessions
    BY DEF Used
<1>3. IsFiniteSet(Used) /\ Cardinality(Used) <= SessionMod
    BY <1>1, <1>2, FS_Subset
<1>4. Cardinality(Used) \in Nat
    BY <1>3, FS_CardinalityType
<1> QED
    BY <1>0, <1>3, <1>4

LEMMA SessionTyped == ASSUME session \in Sessions, NextSession PROVE session' \in Sessions
BY RpcAssumption DEF NextSession, Sessions

LEMMA Assumed ==
    /\ AsyncCalls \subseteq Calls /\ SyncCalls \subseteq Calls
    /\ AsyncCalls \cap SyncCalls = {}
    /\ None \notin AsyncCalls
    /\ 0 \in Sessions /\ 0 \in 0..SessionMod /\ 0 \in 0..MaxStarts /\ 0 \in 0..MaxStops
    /\ StopContexts \subseteq {"loop", "thread"}
BY RpcAssumption DEF Calls, Sessions

(* A count below its bound keeps within it.                                    *)
LEMMA More == ASSUME NEW n \in Nat, NEW k \in 0..n, k < n PROVE k + 1 \in 0..n
BY SMT

LEMMA InitInv == Init => IInv
<1> SUFFICES ASSUME Init PROVE IInv
    OBVIOUS
<1>1. TypeOK
    BY Assumed DEF Init, TypeOK
<1>2. Inv
    BY Assumed DEF Init, Inv, Life, OnLoop, Separate, Tracked, NoneLeftBehind,
                   TimeoutForgets
<1> QED
    BY <1>1, <1>2 DEF IInv

LEMMA Actions ==
    ASSUME [Next]_vars
    PROVE  \/ Start
           \/ \E c \in AsyncCalls :
                 \/ Check(c) \/ Register(c) \/ Issue(c) \/ IssueRaises(c)
                 \/ Respond(c) \/ SetResult(c) \/ Timer(c) \/ CancelTask(c)
                 \/ ResumeTimeout(c) \/ ResumeResponse(c) \/ ResumeCancelled(c)
           \/ \E c \in SyncCalls : SyncBegin(c) \/ SyncReturn(c)
           \/ \E from \in StopContexts : StopBegin(from)
           \/ StopMark \/ (\E s \in Sessions : StopCancel(s)) \/ StopClear \/ StopRaise
           \/ UNCHANGED vars
BY DEF Next, CallStep, StopStep

LEMMA TypeStep == ASSUME TypeOK, [Next]_vars PROVE TypeOK'
<1> USE DEF TypeOK
<1>0. /\ MaxStarts \in Nat /\ MaxStops \in Nat
    BY RpcAssumption
<1>1. CASE Start
    <2>1. starts' \in 0..MaxStarts
        BY <1>0, <1>1, More DEF Start
    <2> QED
        BY <1>1, <2>1 DEF Start, callVars, loopVars, stopVars
<1>2. ASSUME NEW c \in AsyncCalls, Check(c) \/ Register(c) \/ Issue(c) \/ IssueRaises(c)
      PROVE  TypeOK'
    <2>1. CASE Check(c)
        BY <2>1, Assumed DEF Check, End, loopVars, stopVars
    <2>2. CASE Register(c)
        <3>1. session' \in Sessions
            BY <2>2, SessionTyped DEF Register
        <3> QED
            BY <2>2, <3>1, Assumed DEF Register, stopVars
    <2>3. CASE Issue(c)
        BY <2>3, Assumed DEF Issue, loopVars, stopVars
    <2>4. CASE IssueRaises(c)
        BY <2>4, Assumed DEF IssueRaises, End, loopVars, stopVars
    <2> QED
        BY <1>2, <2>1, <2>2, <2>3, <2>4
<1>3. ASSUME NEW c \in AsyncCalls, Respond(c) \/ SetResult(c) \/ Timer(c) \/ CancelTask(c)
      PROVE  TypeOK'
    <2>1. CASE Respond(c)
        BY <2>1, Assumed DEF Respond, stopVars
    <2>2. CASE SetResult(c)
        BY <2>2 DEF SetResult, callVars, stopVars
    <2>3. CASE Timer(c)
        BY <2>3 DEF Timer, Cancelled, callVars, stopVars
    <2>4. CASE CancelTask(c)
        BY <2>4 DEF CancelTask, callVars, stopVars
    <2> QED
        BY <1>3, <2>1, <2>2, <2>3, <2>4
<1>4. ASSUME NEW c \in AsyncCalls, ResumeTimeout(c) \/ ResumeResponse(c) \/ ResumeCancelled(c)
      PROVE  TypeOK'
    BY <1>4, Assumed DEF ResumeTimeout, ResumeResponse, ResumeCancelled, End, loopVars, stopVars
<1>5. ASSUME NEW c \in SyncCalls, SyncBegin(c) \/ SyncReturn(c)
      PROVE  TypeOK'
    <2>1. session' \in Sessions
        BY <1>5, SessionTyped DEF SyncBegin, SyncReturn
    <2> QED
        BY <1>5, <2>1, Assumed DEF SyncBegin, SyncReturn, End, loopVars, stopVars
<1>6. ASSUME NEW from \in StopContexts, StopBegin(from) PROVE TypeOK'
    <2>1. stops' \in 0..MaxStops
        BY <1>0, <1>6, More DEF StopBegin
    <2> QED
        BY <1>6, <2>1, Assumed DEF StopBegin, callVars, loopVars
<1>7. CASE StopMark
    BY <1>7 DEF StopMark, callVars, loopVars
<1>8. ASSUME NEW s \in Sessions, StopCancel(s) PROVE TypeOK'
    BY <1>8, Few DEF StopCancel, Cancelled, Used, callVars
<1>9. CASE StopClear \/ StopRaise
    BY <1>9, Assumed DEF StopClear, StopRaise, StopLeave, callVars, loopVars
<1>10. CASE UNCHANGED vars
    BY <1>10 DEF vars, callVars, loopVars, stopVars
<1> QED
    BY Actions, <1>1, <1>2, <1>3, <1>4, <1>5, <1>6, <1>7, <1>8, <1>9, <1>10

-----------------------------------------------------------------------------
(*                              The calls                                   *)

LEMMA LifeStep == ASSUME TypeOK, Life, [Next]_vars PROVE Life'
<1> USE DEF TypeOK, Life
<1>1. ASSUME NEW c \in AsyncCalls, Check(c) \/ Register(c) \/ Issue(c) \/ IssueRaises(c)
      PROVE  Life'
    BY <1>1, Assumed DEF Check, Register, Issue, IssueRaises, End, loopVars
<1>2. ASSUME NEW c \in AsyncCalls, Respond(c) \/ SetResult(c) \/ Timer(c) \/ CancelTask(c)
      PROVE  Life'
    BY <1>2, Assumed DEF Respond, SetResult, Timer, CancelTask, Cancelled, callVars
<1>3. ASSUME NEW c \in AsyncCalls, ResumeTimeout(c) \/ ResumeResponse(c) \/ ResumeCancelled(c)
      PROVE  Life'
    BY <1>3, Assumed DEF ResumeTimeout, ResumeResponse, ResumeCancelled, End, loopVars
<1>4. ASSUME NEW c \in SyncCalls, SyncBegin(c) \/ SyncReturn(c)
      PROVE  Life'
    BY <1>4, Assumed DEF SyncBegin, SyncReturn, End, loopVars
<1>5. ASSUME NEW s \in Sessions, StopCancel(s) PROVE Life'
    BY <1>5, Assumed DEF StopCancel, Used, Cancelled, callVars
<1>6. CASE UNCHANGED <<callVars, loopVars>>
    BY <1>6 DEF callVars, loopVars
<1> QED
    BY Actions, <1>1, <1>2, <1>3, <1>4, <1>5, <1>6
       DEF Start, StopBegin, StopMark, StopClear, StopRaise, StopLeave, vars

LEMMA ForgetStep ==
    ASSUME TypeOK, Life, TimeoutForgets, [Next]_vars PROVE TimeoutForgets'
<1> USE DEF TypeOK, TimeoutForgets
<1>1. ASSUME NEW c \in AsyncCalls, Register(c) PROVE TimeoutForgets'
    <2>1. session' \in Sessions /\ outcome[c] = "none"
        BY <1>1, SessionTyped, Assumed DEF Register, Life
    <2> QED
        BY <1>1, <2>1, Assumed DEF Register
<1>2. ASSUME NEW c \in AsyncCalls, Check(c) \/ Issue(c) \/ IssueRaises(c)
      PROVE  TimeoutForgets'
    BY <1>2, Assumed DEF Check, Issue, IssueRaises, End
<1>3. ASSUME NEW c \in AsyncCalls, Respond(c) \/ SetResult(c) \/ Timer(c) \/ CancelTask(c)
      PROVE  TimeoutForgets'
    BY <1>3 DEF Respond, SetResult, Timer, CancelTask, callVars
<1>4. ASSUME NEW c \in AsyncCalls, ResumeTimeout(c) \/ ResumeResponse(c) \/ ResumeCancelled(c)
      PROVE  TimeoutForgets'
    BY <1>4, Assumed DEF ResumeTimeout, ResumeResponse, ResumeCancelled, End
<1>5. ASSUME NEW c \in SyncCalls, SyncBegin(c) \/ SyncReturn(c) PROVE TimeoutForgets'
    BY <1>5, Assumed DEF SyncBegin, SyncReturn, End
<1>6. CASE StopClear
    BY <1>6, Assumed DEF StopClear, StopLeave, callVars
<1>7. CASE UNCHANGED <<pending, callVars>>
    BY <1>7 DEF callVars
<1> QED
    BY Actions, <1>1, <1>2, <1>3, <1>4, <1>5, <1>6, <1>7
       DEF Start, StopBegin, StopMark, StopCancel, StopRaise, StopLeave, vars

LEMMA SeparateStep == ASSUME TypeOK, Life, Separate, [Next]_vars PROVE Separate'
<1> USE DEF TypeOK, Separate
<1>1. ASSUME NEW c \in AsyncCalls, Register(c) PROVE Separate'
    <2>1. /\ sess' = [sess EXCEPT ![c] = session'] /\ future' = [future EXCEPT ![c] = "pending"]
          /\ ~reused' => ~reused /\ \A d \in AsyncCalls :
                                      future[d] # "none" => sess[d] # session'
        BY <1>1 DEF Register
    <2> QED
        BY <2>1
<1>2. ASSUME NEW c \in AsyncCalls, Respond(c) \/ SetResult(c) \/ Timer(c) \/ CancelTask(c)
      PROVE  Separate'
    BY <1>2 DEF Respond, SetResult, Timer, CancelTask, Cancelled, callVars
<1>3. ASSUME NEW s \in Sessions, StopCancel(s) PROVE Separate'
    BY <1>3 DEF StopCancel, Used, Cancelled, callVars
<1>4. CASE UNCHANGED <<sess, future, reused>>
    BY <1>4
<1> QED
    BY Actions, <1>1, <1>2, <1>3, <1>4
       DEF Start, Check, Issue, IssueRaises, ResumeTimeout, ResumeResponse, ResumeCancelled,
           SyncBegin, SyncReturn, StopBegin, StopMark, StopClear, StopRaise, StopLeave, End,
           vars, callVars, loopVars

-----------------------------------------------------------------------------
(*                                stop()                                    *)

(* On the loop a coroutine and stop() exclude each other.                      *)
LEMMA OnLoopStep == ASSUME TypeOK, Life, OnLoop, [Next]_vars PROVE OnLoop'
<1> USE DEF TypeOK, OnLoop
<1>1. CASE Start
    BY <1>1 DEF Start, Used, callVars, loopVars, stopVars
<1>2. ASSUME NEW c \in AsyncCalls, Check(c) PROVE OnLoop'
    BY <1>2, Assumed DEF Check, LoopBusy, End, Used, loopVars, stopVars
<1>3. ASSUME NEW c \in AsyncCalls, Register(c) PROVE OnLoop'
    BY <1>3, Assumed DEF Register, stopVars
<1>4. ASSUME NEW c \in AsyncCalls, Issue(c) \/ IssueRaises(c) PROVE OnLoop'
    BY <1>4, Assumed DEF Issue, IssueRaises, End, Used, loopVars, stopVars
<1>5. ASSUME NEW c \in AsyncCalls, Respond(c) PROVE OnLoop'
    BY <1>5 DEF Respond, Used, stopVars
<1>6. ASSUME NEW c \in AsyncCalls, SetResult(c) \/ Timer(c) \/ CancelTask(c) PROVE OnLoop'
    BY <1>6 DEF SetResult, Timer, CancelTask, LoopBusy, Used, callVars, stopVars
<1>7. ASSUME NEW c \in AsyncCalls, ResumeTimeout(c) \/ ResumeResponse(c) \/ ResumeCancelled(c)
      PROVE  OnLoop'
    BY <1>7, Assumed
       DEF ResumeTimeout, ResumeResponse, ResumeCancelled, LoopBusy, End, loopVars, stopVars
<1>8. ASSUME NEW c \in SyncCalls, SyncBegin(c) \/ SyncReturn(c) PROVE OnLoop'
    BY <1>8, Assumed DEF SyncBegin, SyncReturn, End, Used, loopVars, stopVars
<1>9. ASSUME NEW from \in StopContexts, StopBegin(from) PROVE OnLoop'
    BY <1>9, Assumed DEF StopBegin, LoopBusy, Used, callVars, loopVars
<1>10. CASE StopMark
    BY <1>10 DEF StopMark, Used, callVars, loopVars
<1>11. ASSUME NEW s \in Sessions, StopCancel(s) PROVE OnLoop'
    <2>1. /\ Used' = Used /\ pending' = pending /\ size' = Cardinality(Used)
          /\ visited' = visited \cup {s} /\ pending[s] \in AsyncCalls
          /\ future' = [future EXCEPT ![pending[s]] = Cancelled(@)]
        BY <1>11 DEF StopCancel, Used
    <2>2. /\ stopAt = "cancel" /\ UNCHANGED <<running, stopAt, stopFrom, foreign, pc>>
        BY <1>11 DEF StopCancel, callVars
    <2>3. future'[pending[s]] # "pending"
        BY <2>1 DEF Cancelled
    <2>4. \A c \in AsyncCalls : future[c] # "pending" => future'[c] # "pending"
        BY <2>1, <2>3
    <2> QED
        BY <2>1, <2>2, <2>3, <2>4
<1>12. CASE StopClear \/ StopRaise
    BY <1>12 DEF StopClear, StopRaise, StopLeave, callVars
<1>13. CASE UNCHANGED vars
    BY <1>13 DEF Used, vars, callVars, loopVars, stopVars
<1> QED
    BY Actions, <1>1, <1>2, <1>3, <1>4, <1>5, <1>6, <1>7, <1>8, <1>9, <1>10, <1>11, <1>12, <1>13

(* When its loop is over, no entry holds a pending future.                     *)
LEMMA Cleared ==
    ASSUME TypeOK, OnLoop, Tracked, ~reused, ~foreign, StopClear
    PROVE  \A c \in AsyncCalls : future[c] # "pending"
<1> SUFFICES ASSUME NEW c \in AsyncCalls, future[c] = "pending" PROVE FALSE
    OBVIOUS
<1>1. pending[sess[c]] = c /\ sess[c] \in Sessions
    BY DEF Tracked, TypeOK
<1>2. sess[c] \in visited
    BY <1>1, Assumed DEF StopClear, Used
<1> QED
    BY <1>1, <1>2, Assumed DEF OnLoop

LEMMA TrackedStep ==
    ASSUME TypeOK, Life, OnLoop, Separate, Separate', Tracked, [Next]_vars PROVE Tracked'
<1> SUFFICES ASSUME ~reused', ~foreign',
                    NEW c \in AsyncCalls, future'[c] = "pending"
             PROVE  pending'[sess'[c]] = c
    BY DEF Tracked
<1> USE DEF TypeOK
<1>0. ~reused /\ ~foreign
    BY Actions
       DEF Start, Check, Register, Issue, IssueRaises, Respond, SetResult, Timer, CancelTask,
           ResumeTimeout, ResumeResponse, ResumeCancelled, SyncBegin, SyncReturn, StopBegin,
           StopMark, StopCancel, StopClear, StopRaise, StopLeave, vars, stopVars
<1>1. ASSUME NEW d \in AsyncCalls, Register(d) PROVE pending'[sess'[c]] = c
    <2>1. session' \in Sessions
        BY <1>1, SessionTyped DEF Register
    <2>2. CASE c = d
        BY <1>1, <2>1, <2>2 DEF Register
    <2>3. CASE c # d
        BY <1>0, <1>1, <2>1, <2>3 DEF Register, Tracked
    <2> QED
        BY <2>2, <2>3
<1>2. ASSUME NEW d \in AsyncCalls, ResumeTimeout(d) PROVE pending'[sess'[c]] = c
    <2>1. /\ future[c] = "pending" /\ future[d] \notin {"none", "pending"}
          /\ UNCHANGED sess /\ pending' = [pending EXCEPT ![sess[d]] = None]
        BY <1>2 DEF ResumeTimeout, loopVars, Life
    <2>2. sess[c] # sess[d]
        BY <1>0, <2>1 DEF Separate
    <2> QED
        BY <1>0, <2>1, <2>2 DEF Tracked
<1>3. CASE StopClear
    BY <1>0, <1>3, Cleared DEF StopClear, StopLeave, loopVars
<1>4. CASE UNCHANGED <<pending, sess>> /\ future[c] = "pending"
    BY <1>0, <1>4 DEF Tracked
<1>5. ASSUME NEW d \in AsyncCalls,
             \/ Check(d) \/ Issue(d) \/ IssueRaises(d) \/ Respond(d) \/ SetResult(d)
             \/ Timer(d) \/ CancelTask(d) \/ ResumeResponse(d) \/ ResumeCancelled(d)
      PROVE  UNCHANGED <<pending, sess>> /\ future[c] = "pending"
    BY <1>5 DEF Check, Issue, IssueRaises, Respond, SetResult, Timer, CancelTask, Cancelled,
                ResumeResponse, ResumeCancelled, callVars, loopVars
<1>6. ASSUME NEW s \in Sessions, StopCancel(s)
      PROVE  UNCHANGED <<pending, sess>> /\ future[c] = "pending"
    BY <1>6 DEF StopCancel, Cancelled, Used, callVars
<1>7. ASSUME NEW d \in SyncCalls, SyncBegin(d) \/ SyncReturn(d)
      PROVE  UNCHANGED <<pending, sess>> /\ future[c] = "pending"
    BY <1>7 DEF SyncBegin, SyncReturn, loopVars
<1>8. ASSUME \/ Start \/ (\E from \in StopContexts : StopBegin(from)) \/ StopMark \/ StopRaise
             \/ UNCHANGED vars
      PROVE  UNCHANGED <<pending, sess>> /\ future[c] = "pending"
    BY <1>8 DEF Start, StopBegin, StopMark, StopRaise, StopLeave, vars, callVars, loopVars
<1> QED
    BY Actions, <1>1, <1>2, <1>3, <1>4, <1>5, <1>6, <1>7, <1>8

(* A future is made only while the client runs, and the stop() that ends that  *)
(* cancels it before it is over.                                               *)
LEMMA NoneLeftStep ==
    ASSUME TypeOK, OnLoop, Tracked, NoneLeftBehind, [Next]_vars PROVE NoneLeftBehind'
<1> SUFFICES ASSUME ~reused', ~foreign', ~running', stopAt' = "idle",
                    NEW c \in AsyncCalls
             PROVE  future'[c] # "pending"
    BY DEF NoneLeftBehind
<1> USE DEF TypeOK
<1>0. ~reused /\ ~foreign
    BY Actions
       DEF Start, Check, Register, Issue, IssueRaises, Respond, SetResult, Timer, CancelTask,
           ResumeTimeout, ResumeResponse, ResumeCancelled, SyncBegin, SyncReturn, StopBegin,
           StopMark, StopCancel, StopClear, StopRaise, StopLeave, vars, stopVars
<1>1. CASE StopClear
    BY <1>0, <1>1, Cleared DEF StopClear, StopLeave, loopVars
<1>2. ~StopRaise
    BY <1>0 DEF StopRaise, SameSize, OnLoop
<1>3. ASSUME NEW d \in AsyncCalls PROVE ~Register(d)
    BY <1>0 DEF Register, OnLoop, stopVars
<1>4. CASE ~running /\ stopAt = "idle"
    <2>1. future[c] # "pending"
        BY <1>0, <1>4 DEF NoneLeftBehind
    <2>2. \A d \in AsyncCalls, s \in Sessions : ~Register(d) /\ ~StopCancel(s)
        BY <1>3, <1>4 DEF StopCancel
    <2> QED
        BY <1>2, <1>4, <2>1, <2>2, Actions
           DEF Start, Check, Issue, IssueRaises, Respond, SetResult, Timer, CancelTask,
               ResumeTimeout, ResumeResponse, ResumeCancelled, SyncBegin, SyncReturn, StopBegin,
               StopMark, StopClear, Cancelled, vars, callVars, loopVars
<1>5. CASE running \/ stopAt # "idle"
    <2>1. StopClear
        BY <1>2, <1>3, <1>5, Actions
           DEF Start, Check, Issue, IssueRaises, Respond, SetResult, Timer, CancelTask,
               ResumeTimeout, ResumeResponse, ResumeCancelled, SyncBegin, SyncReturn, StopBegin,
               StopMark, StopCancel, vars, stopVars
    <2> QED
        BY <1>1, <2>1
<1> QED
    BY <1>4, <1>5

-----------------------------------------------------------------------------
(*                             The theorems                                 *)

LEMMA Invariant == Spec => []IInv
<1>1. Init => IInv
    BY InitInv
<1>2. IInv /\ [Next]_vars => IInv'
    <2> SUFFICES ASSUME IInv, [Next]_vars PROVE IInv'
        OBVIOUS
    <2>1. TypeOK' /\ Life'
        BY TypeStep, LifeStep DEF IInv, Inv
    <2>2. TimeoutForgets' /\ Separate' /\ OnLoop'
        BY ForgetStep, SeparateStep, OnLoopStep DEF IInv, Inv
    <2>3. Tracked' /\ NoneLeftBehind'
        BY <2>2, TrackedStep, NoneLeftStep DEF IInv, Inv
    <2> QED
        BY <2>1, <2>2, <2>3 DEF IInv, Inv
<1> QED
    BY <1>1, <1>2, PTL DEF Spec

(* Every variable of RpcClient keeps its type (rpc.py:51-188).                 *)
THEOREM TypeCorrect == Spec => []TypeOK
<1>1. IInv => TypeOK
    BY DEF IInv
<1> QED
    BY <1>1, Invariant, PTL

(* Until a session is given out again and while stop() stays on the loop, a    *)
(* pending call is in _pending under its own session (rpc.py:162-163, 187).    *)
THEOREM PendingTracked == Spec => []Tracked
<1>1. IInv => Tracked
    BY DEF IInv, Inv
<1> QED
    BY <1>1, Invariant, PTL

(* Under the same conditions a stopped client leaves no call waiting for its   *)
(* timeout (rpc.py:85-89).                                                     *)
THEOREM StopLeavesNone == Spec => []NoneLeftBehind
<1>1. IInv => NoneLeftBehind
    BY DEF IInv, Inv
<1> QED
    BY <1>1, Invariant, PTL

(* A call that timed out is not held by _pending any more (rpc.py:187).        *)
THEOREM TimedOutForgotten == Spec => []TimeoutForgets
<1>1. IInv => TimeoutForgets
    BY DEF IInv, Inv
<1> QED
    BY <1>1, Invariant, PTL

-----------------------------------------------------------------------------
(*                            The refinement                                *)

(* What an awaiting caller sees of each step of one call.                      *)
LEMMA Seen ==
    ASSUME TypeOK, Life, NEW c \in AsyncCalls,
           \/ Check(c) \/ Register(c) \/ Issue(c) \/ IssueRaises(c)
           \/ Respond(c) \/ SetResult(c) \/ Timer(c) \/ CancelTask(c)
           \/ ResumeTimeout(c) \/ ResumeResponse(c) \/ ResumeCancelled(c)
    PROVE  \/ UNCHANGED Exchange!vars
           \/ Exchange!Fail(c) \/ Exchange!Ask(c) \/ Exchange!Answer(c)
           \/ Exchange!Respond(c) \/ Exchange!GiveUp(c)
<1>1. CASE \/ Register(c) \/ SetResult(c) \/ Timer(c) \/ CancelTask(c)
           \/ Check(c) /\ running
    <2>1. /\ UNCHANGED <<native, outcome>>
          /\ \A d \in AsyncCalls : Stage(d)' = Stage(d)
        BY <1>1, Assumed
           DEF TypeOK, Register, SetResult, Timer, CancelTask, Check, Stage, callVars
    <2> QED
        BY <2>1 DEF Exchange!vars
<1>2. CASE \/ IssueRaises(c)
           \/ Check(c) /\ ~running
    <2>1. /\ UNCHANGED native /\ outcome' = [outcome EXCEPT ![c] = "error"]
          /\ Stage(c) = "new" /\ Stage(c)' = "ended"
          /\ \A d \in AsyncCalls \ {c} : Stage(d)' = Stage(d)
        BY <1>2, Assumed DEF TypeOK, IssueRaises, Check, End, Stage
    <2>2. Exchange!Fail(c)
        BY <2>1, Assumed DEF TypeOK, Exchange!Fail, Exchange!Ends
    <2> QED
        BY <2>2
<1>3. CASE Issue(c)
    <2>1. /\ native' = [native EXCEPT ![c] = "sent"] /\ UNCHANGED outcome
          /\ native[c] = "none"
          /\ Stage(c) = "new" /\ Stage(c)' = "asked"
          /\ \A d \in AsyncCalls \ {c} : Stage(d)' = Stage(d)
        BY <1>3, Assumed DEF TypeOK, Issue, Stage, Life
    <2>2. {d \in AsyncCalls : native'[d] = "answered"}
             = {d \in AsyncCalls : native[d] = "answered"}
        BY <2>1, Assumed DEF TypeOK
    <2>3. Exchange!Ask(c)
        BY <2>1, <2>2 DEF Exchange!Ask
    <2> QED
        BY <2>3
<1>4. CASE Respond(c)
    <2>1. /\ native' = [native EXCEPT ![c] = "answered"] /\ native[c] = "sent"
          /\ UNCHANGED outcome /\ Stage(c) # "new"
          /\ \A d \in AsyncCalls : Stage(d)' = Stage(d)
        BY <1>4, Assumed DEF TypeOK, Respond, Stage, Life
    <2>2. {d \in AsyncCalls : native'[d] = "answered"}
             = {d \in AsyncCalls : native[d] = "answered"} \cup {c}
        BY <2>1, Assumed DEF TypeOK
    <2>3. Exchange!Answer(c)
        BY <2>1, <2>2 DEF Exchange!Answer
    <2> QED
        BY <2>3
<1>5. CASE ResumeTimeout(c)
    <2>1. /\ UNCHANGED native /\ outcome' = [outcome EXCEPT ![c] = "timeout"]
          /\ Stage(c) = "asked" /\ Stage(c)' = "ended"
          /\ \A d \in AsyncCalls \ {c} : Stage(d)' = Stage(d)
        BY <1>5, Assumed DEF TypeOK, ResumeTimeout, End, Stage
    <2>2. Exchange!Ends(c, "timeout")
        BY <2>1, Assumed DEF TypeOK, Exchange!Ends
    <2>3. Exchange!GiveUp(c)
        BY <2>1, <2>2 DEF Exchange!GiveUp
    <2> QED
        BY <2>3
<1>6. CASE ResumeCancelled(c)
    <2>1. /\ UNCHANGED native /\ outcome' = [outcome EXCEPT ![c] = "cancelled"]
          /\ Stage(c) = "asked" /\ Stage(c)' = "ended"
          /\ \A d \in AsyncCalls \ {c} : Stage(d)' = Stage(d)
        BY <1>6, Assumed DEF TypeOK, ResumeCancelled, End, Stage
    <2>2. Exchange!Ends(c, "cancelled")
        BY <2>1, Assumed DEF TypeOK, Exchange!Ends
    <2>3. Exchange!GiveUp(c)
        BY <2>1, <2>2 DEF Exchange!GiveUp
    <2> QED
        BY <2>3
<1>7. CASE ResumeResponse(c)
    <2>1. /\ UNCHANGED native /\ outcome' = [outcome EXCEPT ![c] = "response"]
          /\ native[c] = "answered"
          /\ Stage(c) = "asked" /\ Stage(c)' = "ended"
          /\ \A d \in AsyncCalls \ {c} : Stage(d)' = Stage(d)
        BY <1>7, Assumed DEF TypeOK, ResumeResponse, End, Stage, Life
    <2>2. Exchange!Respond(c)
        BY <2>1, Assumed DEF TypeOK, Exchange!Respond, Exchange!Ends
    <2> QED
        BY <2>2
<1>8. CASE Check(c)
    BY <1>1, <1>2, <1>8
<1> QED
    BY <1>1, <1>2, <1>3, <1>4, <1>5, <1>6, <1>7, <1>8

(* Calls of other threads, start() and stop() show nothing.                    *)
LEMMA Unseen ==
    ASSUME TypeOK,
           \/ Start \/ StopMark \/ StopClear \/ StopRaise \/ UNCHANGED vars
           \/ \E c \in SyncCalls : SyncBegin(c) \/ SyncReturn(c)
           \/ \E from \in StopContexts : StopBegin(from)
           \/ \E s \in Sessions : StopCancel(s)
    PROVE  UNCHANGED Exchange!vars
<1>1. \A d \in AsyncCalls :
         pc'[d] = pc[d] /\ native'[d] = native[d] /\ outcome'[d] = outcome[d]
    BY Assumed
       DEF TypeOK, Start, StopMark, StopClear, StopRaise, StopLeave, SyncBegin, SyncReturn, End,
           StopBegin, StopCancel, vars, callVars
<1> QED
    BY <1>1 DEF Exchange!vars, Stage

(* call_async() implements RpcExchange: a response only to the call that was   *)
(* answered, and one end for each call (rpc.py:161-188).                       *)
THEOREM Refinement == Spec => IsExchange
<1>1. Init => Exchange!Init
    BY Assumed DEF Init, Exchange!Init, Stage
<1>2. IInv /\ [Next]_vars => [Exchange!Next]_(Exchange!vars)
    BY Actions, Seen, Unseen DEF IInv, Inv, Exchange!Next
<1> QED
    BY <1>1, <1>2, Invariant, PTL DEF Spec, IsExchange, Exchange!Spec

=============================================================================
