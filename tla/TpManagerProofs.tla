--------------------------- MODULE TpManagerProofs ---------------------------
(***************************************************************************)
(* What TpManager.send puts on the wire, for every mtu, every length of    *)
(* payload and every size of native segment.                               *)
(***************************************************************************)
EXTENDS TpManager, TLAPS

Last == wire[Len(wire)]

(* The part of the type the order of the segments depends on.                  *)
Typed ==
    /\ length \in Nat
    /\ size \in NativeSizes \cup {0}
    /\ next \in 0..length
    /\ offset \in Nat
    /\ wire \in Seq([path : {"native", "python"}, from : Nat, upto : Nat])

(* Before the first segment. *)
Fresh ==
    pc \in {"idle", "native", "whole"} => wire = <<>> /\ next = 0 /\ offset = 0

(* The native run ends where the native side goes on.                          *)
NativeAt ==
    pc = "segmenting" =>
        /\ offset = 0
        /\ \/ wire = <<>> /\ next = 0
           \/ wire # <<>> /\ Last.path = "native" /\ Last.upto = next

(* The Python run has not begun, or ends where its loop goes on.               *)
PythonAt ==
    pc = "python" =>
        \/ offset = 0 /\ (wire = <<>> \/ Last.path = "native")
        \/ /\ length > Mtu /\ wire # <<>>
           /\ Last.path = "python" /\ Last.upto = AtMost(offset, length)

IInv == Typed /\ Runs /\ Fresh /\ NativeAt /\ PythonAt /\ FallbackComplete

-----------------------------------------------------------------------------

(* Emitting a segment that goes on where the last one of its way ended, or     *)
(* begins a run at the first byte, keeps the wire in runs.                     *)
LEMMA EmitKeepsRuns ==
    ASSUME Typed, Runs, length' = length,
           NEW path \in {"native", "python"}, NEW from \in Nat, NEW upto \in Nat,
           from <= upto, upto <= length,
           path = "native" => wire = <<>> \/ Last.path = "native",
           from = IF wire # <<>> /\ Last.path = path THEN Last.upto ELSE 0,
           Emit(path, from, upto)
    PROVE  /\ Runs'
           /\ wire' \in Seq([path : {"native", "python"}, from : Nat, upto : Nat])
           /\ wire' # <<>>
           /\ Last' = [path |-> path, from |-> from, upto |-> upto]
<1> DEFINE S == [path : {"native", "python"}, from : Nat, upto : Nat]
           e == [path |-> path, from |-> from, upto |-> upto]
<1>1. e \in S /\ wire \in Seq(S) /\ wire' = Append(wire, e)
    BY DEF Emit, Typed
<1>2. /\ wire' \in Seq(S)
      /\ Len(wire') = Len(wire) + 1
      /\ Len(wire) \in Nat
      /\ wire'[Len(wire) + 1] = e
      /\ \A i \in 1..Len(wire) : wire'[i] = wire[i]
    BY <1>1
<1>3. wire' # <<>> /\ Last' = e
    BY <1>2 DEF Last
<1>4. Runs'
    <2> SUFFICES ASSUME NEW i \in 1..(Len(wire) + 1)
                 PROVE  /\ wire'[i].from <= wire'[i].upto /\ wire'[i].upto <= length
                        /\ (i > 1 /\ wire'[i].path = "native") => wire'[i-1].path = "native"
                        /\ wire'[i].from = IF i > 1 /\ wire'[i-1].path = wire'[i].path
                                           THEN wire'[i-1].upto ELSE 0
        <3>1. DOMAIN wire' = 1..(Len(wire) + 1)
            BY <1>2
        <3>2. length' = length
            OBVIOUS
        <3> HIDE DEF S, e
        <3> QED
            BY <3>1, <3>2 DEF Runs
    <2>1. CASE i \in 1..Len(wire)
        <3>1. i > 1 => i - 1 \in 1..Len(wire)
            BY <2>1, <1>2
        <3>2. wire'[i] = wire[i] /\ (i > 1 => wire'[i-1] = wire[i-1])
            BY <2>1, <3>1, <1>2
        <3> QED
            BY <2>1, <3>2, <1>1 DEF Runs
    <2>2. CASE i = Len(wire) + 1
        <3>1. wire'[i] = e
            BY <2>2, <1>2
        <3>2. i > 1 <=> wire # <<>>
            BY <2>2, <1>1, <1>2
        <3>3. i > 1 => wire'[i-1] = Last
            BY <2>2, <1>2 DEF Last
        <3> QED
            BY <3>1, <3>2, <3>3
    <2> QED
        BY <2>1, <2>2, <1>2
<1> QED
    BY <1>2, <1>3, <1>4

-----------------------------------------------------------------------------

LEMMA InitInv == Init => IInv
<1> SUFFICES ASSUME Init PROVE IInv
    OBVIOUS
<1>1. wire = <<>> /\ length \in Nat /\ next = 0 /\ offset = 0 /\ size = 0 /\ pc = "idle"
    BY TpAssumption DEF Init
<1> QED
    BY <1>1 DEF IInv, Typed, Runs, Fresh, NativeAt, PythonAt, FallbackComplete

LEMMA NextInv == IInv /\ [Next]_vars => IInv'
<1> SUFFICES ASSUME IInv, [Next]_vars PROVE IInv'
    OBVIOUS
<1> USE TpAssumption
<1>0. Typed /\ Runs /\ Fresh /\ NativeAt /\ PythonAt /\ FallbackComplete
    BY DEF IInv
<1>1. CASE Call
    BY <1>0, <1>1 DEF Call, Goto, nativeVars, IInv, Typed, Runs, Fresh, NativeAt, PythonAt,
                      FallbackComplete, Complete, Last
<1>2. CASE NativeRaises
    BY <1>0, <1>2 DEF NativeRaises, Goto, nativeVars, IInv, Typed, Runs, Fresh, NativeAt, PythonAt,
                      FallbackComplete, Complete, Last
<1>3. CASE NotNeeded
    BY <1>0, <1>3 DEF NotNeeded, Goto, nativeVars, IInv, Typed, Runs, Fresh, NativeAt, PythonAt,
                      FallbackComplete, Complete, Last
<1>4. ASSUME NEW success \in BOOLEAN, NEW s \in NativeSizes, SegmentMessage(success, s)
      PROVE  IInv'
    BY <1>0, <1>4 DEF SegmentMessage, Goto, IInv, Typed, Runs, Fresh, NativeAt, PythonAt,
                      FallbackComplete, Complete, Last
<1>5. CASE SendSegment
    <2>1. /\ pc = "segmenting" /\ pc' = pc /\ next < length /\ length' = length
          /\ size' = size /\ offset' = offset /\ Emit("native", next, next')
          /\ next' = AtMost(next + size, length)
        BY <1>5 DEF SendSegment
    <2>2. /\ length \in Nat /\ next \in Nat /\ size \in Nat
          /\ next' \in Nat /\ next <= next' /\ next' <= length
        BY <1>0, <2>1 DEF Typed, AtMost
    <2>3. wire = <<>> \/ Last.path = "native"
        BY <1>0, <2>1 DEF NativeAt
    <2>4. next = IF wire # <<>> /\ Last.path = "native" THEN Last.upto ELSE 0
        BY <1>0, <2>1 DEF NativeAt
    <2>5. /\ Runs' /\ wire' # <<>>
          /\ wire' \in Seq([path : {"native", "python"}, from : Nat, upto : Nat])
          /\ Last' = [path |-> "native", from |-> next, upto |-> next']
        BY <1>0, <2>1, <2>2, <2>3, <2>4, EmitKeepsRuns
    <2> QED
        BY <1>0, <2>1, <2>2, <2>5 DEF IInv, Typed, Fresh, NativeAt, PythonAt, FallbackComplete
<1>6. CASE NoSegment
    BY <1>0, <1>6 DEF NoSegment, Goto, nativeVars, IInv, Typed, Runs, Fresh, NativeAt, PythonAt,
                      FallbackComplete, Complete, Last
<1>7. CASE NoRounds
    BY <1>0, <1>7 DEF NoRounds, Goto, nativeVars, IInv, Typed, Runs, Fresh, NativeAt, PythonAt,
                      FallbackComplete, Complete, Last
<1>8. CASE SendWhole
    <2>1. /\ pc = "whole" /\ pc' = "returned" /\ length' = length /\ next' = next
          /\ size' = size /\ offset' = offset /\ Emit("native", 0, length)
        BY <1>8 DEF SendWhole, Goto, nativeVars
    <2>2. wire = <<>> /\ length \in Nat
        BY <1>0, <2>1 DEF Fresh, Typed
    <2>3. /\ Runs' /\ wire' # <<>>
          /\ wire' \in Seq([path : {"native", "python"}, from : Nat, upto : Nat])
          /\ Last' = [path |-> "native", from |-> 0, upto |-> length]
        BY <1>0, <2>1, <2>2, EmitKeepsRuns
    <2> QED
        BY <1>0, <2>1, <2>3 DEF IInv, Typed, Fresh, NativeAt, PythonAt, FallbackComplete, Last
<1>9. CASE Refuse
    BY <1>0, <1>9 DEF Refuse, Goto, nativeVars, IInv, Typed, Runs, Fresh, NativeAt, PythonAt,
                      FallbackComplete, Complete, Last
<1>10. CASE PythonWhole
    <2>1. /\ pc = "python" /\ pc' = "returned" /\ length <= Mtu /\ length' = length /\ next' = next
          /\ size' = size /\ offset' = offset /\ Emit("python", 0, length)
        BY <1>10 DEF PythonWhole, Goto, nativeVars
    <2>2. length \in Nat /\ (wire = <<>> \/ Last.path = "native")
        BY <1>0, <2>1 DEF PythonAt, Typed
    <2>3. /\ Runs' /\ wire' # <<>>
          /\ wire' \in Seq([path : {"native", "python"}, from : Nat, upto : Nat])
          /\ Last' = [path |-> "python", from |-> 0, upto |-> length]
        BY <1>0, <2>1, <2>2, EmitKeepsRuns
    <2> QED
        BY <1>0, <2>1, <2>3 DEF IInv, Typed, Fresh, NativeAt, PythonAt, FallbackComplete, Complete, Last
<1>11. CASE PythonSegment
    <2> DEFINE upto == AtMost(offset + Mtu, length)
    <2>1. /\ pc = "python" /\ pc' = pc /\ length > Mtu /\ offset < length
          /\ length' = length /\ next' = next /\ size' = size
          /\ offset' = offset + Mtu /\ Emit("python", offset, upto)
        BY <1>11 DEF PythonSegment, nativeVars
    <2>2. /\ length \in Nat /\ offset \in Nat
          /\ upto \in Nat /\ offset <= upto /\ upto <= length
        BY <1>0, <2>1 DEF Typed, AtMost
    <2>3. offset = IF wire # <<>> /\ Last.path = "python" THEN Last.upto ELSE 0
        BY <1>0, <2>1, <2>2 DEF PythonAt, AtMost
    <2>4. /\ Runs' /\ wire' # <<>>
          /\ wire' \in Seq([path : {"native", "python"}, from : Nat, upto : Nat])
          /\ Last' = [path |-> "python", from |-> offset, upto |-> upto]
        BY <1>0, <2>1, <2>2, <2>3, EmitKeepsRuns
    <2>5. Last'.path = "python" /\ Last'.upto = AtMost(offset', length')
        BY <2>1, <2>4
    <2> QED
        BY <1>0, <2>1, <2>2, <2>4, <2>5 DEF IInv, Typed, Fresh, NativeAt, PythonAt, FallbackComplete
<1>12. CASE PythonEnd
    <2>1. /\ pc = "python" /\ pc' = "returned" /\ length > Mtu /\ offset >= length
          /\ UNCHANGED <<length, next, size, offset, wire>>
        BY <1>12 DEF PythonEnd, Goto, nativeVars
    <2>2. wire # <<>> /\ Last.upto = length
        BY <1>0, <2>1 DEF PythonAt, Typed, AtMost
    <2> QED
        BY <1>0, <2>1, <2>2 DEF IInv, Typed, Runs, Fresh, NativeAt, PythonAt, FallbackComplete,
                               Complete, Last
<1>13. CASE PythonRefuse
    BY <1>0, <1>13 DEF PythonRefuse, Goto, nativeVars, IInv, Typed, Runs, Fresh, NativeAt, PythonAt,
                       FallbackComplete, Complete, Last
<1>14. CASE UNCHANGED vars
    BY <1>0, <1>14 DEF vars, IInv, Typed, Runs, Fresh, NativeAt, PythonAt, FallbackComplete,
                       Complete, Last
<1> QED
    BY <1>1, <1>2, <1>3, <1>4, <1>5, <1>6, <1>7, <1>8, <1>9, <1>10, <1>11, <1>12, <1>13, <1>14
    DEF Next, Step

LEMMA Inductive == Spec => []IInv
    BY InitInv, NextInv, PTL DEF Spec

(* Whatever fails where, the wire holds a native run and then a Python one,    *)
(* each a gapless prefix of the payload.                                       *)
THEOREM RunsAlways == Spec => []Runs
<1>1. IInv => Runs
    BY DEF IInv
<1> QED
    BY <1>1, Inductive, PTL

(* When the Python loop returns, its run ends with the payload's last byte.    *)
THEOREM FallbackIsComplete == Spec => []FallbackComplete
<1>1. IInv => FallbackComplete
    BY DEF IInv
<1> QED
    BY <1>1, Inductive, PTL

-----------------------------------------------------------------------------
(*                                 Types                                    *)

(* The passes line 92 allows are at most two more than the bytes.              *)
LEMMA RoundsBounded == ASSUME length \in 0..MaxLength PROVE Rounds \in 0..(MaxLength + 2)
<1>1. length \in Nat /\ length <= MaxLength /\ MaxLength \in Nat /\ Mtu \in Nat \ {0}
    BY TpAssumption
<1>2. length \div Mtu \in Nat /\ length \div Mtu <= length
    BY <1>1
<1> QED
    BY <1>1, <1>2 DEF Rounds

LEMMA Emitted ==
    ASSUME wire \in Seq(Segment), NEW path \in {"native", "python"},
           NEW from \in 0..MaxLength, NEW upto \in 0..MaxLength, Emit(path, from, upto)
    PROVE  wire' \in Seq(Segment)
BY DEF Emit, Segment

LEMMA NextTyped == TypeOK /\ [Next]_vars => TypeOK'
<1> SUFFICES ASSUME TypeOK, [Next]_vars PROVE TypeOK'
    OBVIOUS
<1> USE TpAssumption DEF TypeOK
<1>1. CASE Call
    BY <1>1 DEF Call, Goto, nativeVars
<1>2. CASE NativeRaises \/ NotNeeded \/ NoSegment \/ NoRounds \/ Refuse
    BY <1>2 DEF NativeRaises, NotNeeded, NoSegment, NoRounds, Refuse, Goto, nativeVars
<1>3. ASSUME NEW success \in BOOLEAN, NEW s \in NativeSizes, SegmentMessage(success, s)
      PROVE  TypeOK'
    BY <1>3, RoundsBounded DEF SegmentMessage, Goto
<1>4. CASE SendSegment
    <2>1. next' \in 0..length /\ next \in 0..MaxLength /\ next' \in 0..MaxLength
        BY <1>4 DEF SendSegment, AtMost
    <2>2. wire' \in Seq(Segment)
        BY <1>4, <2>1, Emitted DEF SendSegment
    <2> QED
        BY <1>4, <2>1, <2>2 DEF SendSegment
<1>5. CASE SendWhole \/ PythonWhole
    <2>1. 0 \in 0..MaxLength
        OBVIOUS
    <2>2. wire' \in Seq(Segment)
        BY <1>5, <2>1, Emitted DEF SendWhole, PythonWhole
    <2> QED
        BY <1>5, <2>2 DEF SendWhole, PythonWhole, Goto, nativeVars
<1>6. CASE PythonSegment
    <2>1. /\ offset \in 0..MaxLength /\ AtMost(offset + Mtu, length) \in 0..MaxLength
          /\ offset' \in 0..(MaxLength + Mtu)
        BY <1>6 DEF PythonSegment, AtMost
    <2>2. wire' \in Seq(Segment)
        BY <1>6, <2>1, Emitted DEF PythonSegment
    <2> QED
        BY <1>6, <2>1, <2>2 DEF PythonSegment, nativeVars
<1>7. CASE PythonEnd \/ PythonRefuse
    BY <1>7 DEF PythonEnd, PythonRefuse, Goto, nativeVars
<1>8. CASE UNCHANGED vars
    BY <1>8 DEF vars
<1> QED
    BY <1>1, <1>2, <1>3, <1>4, <1>5, <1>6, <1>7, <1>8 DEF Next, Step

(* Every variable of send() keeps its type (tp.py:79-126).                     *)
THEOREM TypeCorrect == Spec => []TypeOK
<1>1. ASSUME Init PROVE TypeOK
    <2>1. <<>> \in Seq(Segment)
        OBVIOUS
    <2>2. native \in BOOLEAN /\ length \in 0..MaxLength
        BY <1>1, TpAssumption DEF Init
    <2>3. /\ size \in NativeSizes \cup {0} /\ next \in 0..length
          /\ rounds \in 0..(MaxLength + 2) /\ offset \in 0..(MaxLength + Mtu)
        BY <1>1, <2>2, TpAssumption DEF Init
    <2> QED
        BY <1>1, <2>1, <2>2, <2>3 DEF Init, TypeOK
<1> QED
    BY <1>1, NextTyped, PTL DEF Spec

-----------------------------------------------------------------------------
(*                              Exactly once                                *)

Alike == \A i \in DOMAIN wire : wire[i].path = wire[1].path

(* While nothing has failed, only one way is used, and each pass of the native *)
(* loop has taken it a whole segment further or to the end.                    *)
Unfailed ==
    ~failed /\ ~refused =>
        /\ Alike
        /\ pc # "segmenting" /\ pc # "returned" => size = 0
        /\ pc = "python" => wire = <<>> \/ Last.path = "python"
        /\ pc = "segmenting" =>
              /\ known /\ size \in NativeSizes /\ rounds \in 0..Rounds
              /\ next = length \/ next = (Rounds - rounds) * size
        /\ pc = "returned" /\ (size = 0 \/ length <= Rounds * size) /\ length > 0 => Complete

(* One more segment of the same way leaves one way.                            *)
LEMMA EmitAlike ==
    ASSUME Typed, Alike,
           NEW path \in {"native", "python"}, NEW from \in Nat, NEW upto \in Nat,
           wire = <<>> \/ Last.path = path,
           Emit(path, from, upto)
    PROVE  Alike'
<1> DEFINE S == [path : {"native", "python"}, from : Nat, upto : Nat]
           e == [path |-> path, from |-> from, upto |-> upto]
<1>1. e \in S /\ wire \in Seq(S) /\ wire' = Append(wire, e)
    BY DEF Emit, Typed
<1>2. /\ Len(wire) \in Nat /\ DOMAIN wire = 1..Len(wire) /\ DOMAIN wire' = 1..(Len(wire) + 1)
      /\ wire'[Len(wire) + 1] = e
      /\ \A i \in 1..Len(wire) : wire'[i] = wire[i]
    BY <1>1
<1>3. CASE wire = <<>>
    BY <1>2, <1>3 DEF Alike
<1>4. CASE wire # <<>>
    <2>1. Len(wire) \in 1..Len(wire) /\ 1 \in 1..Len(wire)
        BY <1>1, <1>2, <1>4
    <2>2. e.path = wire[1].path
        BY <1>2, <1>4, <2>1 DEF Alike, Last
    <2>3. \A i \in 1..Len(wire) : wire'[i].path = wire'[1].path
        BY <1>2, <2>1 DEF Alike
    <2> QED
        BY <1>2, <2>1, <2>2, <2>3 DEF Alike
<1> QED
    BY <1>3, <1>4

LEMMA OneMore == ASSUME NEW k \in Nat, NEW s \in Nat PROVE (k + 1) * s = k * s + s
BY SMT

LEMMA UnfailedStep == ASSUME IInv, TypeOK, Unfailed, [Next]_vars PROVE Unfailed'
<1> SUFFICES ASSUME ~failed', ~refused' PROVE Unfailed'
    BY DEF Unfailed
<1> USE TpAssumption
<1>0. /\ Typed /\ Fresh /\ NativeAt /\ PythonAt /\ FallbackComplete
      /\ length \in Nat /\ Rounds \in Nat /\ Rounds' = Rounds
      /\ length' = length
    <2>1. length' = length
        BY DEF Next, Step, Call, NativeRaises, NotNeeded, SegmentMessage, SendSegment, NoSegment,
               NoRounds, SendWhole, Refuse, PythonWhole, PythonSegment, PythonEnd, PythonRefuse,
               vars
    <2>2. Rounds \in 0..(MaxLength + 2)
        BY RoundsBounded DEF TypeOK
    <2> QED
        BY <2>1, <2>2 DEF IInv, Typed, Rounds
<1>1. CASE Call
    BY <1>0, <1>1 DEF Call, Goto, nativeVars, Unfailed, Fresh, Alike, Last
<1>2. CASE NotNeeded
    BY <1>0, <1>2 DEF NotNeeded, Goto, nativeVars, Unfailed, Alike
<1>3. ASSUME NEW success \in BOOLEAN, NEW s \in NativeSizes, SegmentMessage(success, s)
      PROVE  Unfailed'
    <2>1. wire = <<>> /\ wire' = wire /\ next' = 0 /\ rounds' = Rounds /\ success
        BY <1>0, <1>3 DEF SegmentMessage, Fresh
    <2>2. 0 = (Rounds - Rounds) * s
        BY <1>0
    <2> QED
        BY <1>0, <1>3, <2>1, <2>2 DEF SegmentMessage, Goto, Unfailed, Alike
<1>4. CASE SendSegment
    <2>1. /\ pc = "segmenting" /\ pc' = pc /\ rounds > 0 /\ next < length
          /\ next' = AtMost(next + size, length) /\ rounds' = rounds - 1
          /\ Emit("native", next, next') /\ UNCHANGED <<size, known>>
          /\ ~failed /\ ~refused
        BY <1>4 DEF SendSegment
    <2>2. /\ Alike /\ known /\ size \in NativeSizes /\ rounds \in 0..Rounds
          /\ next = (Rounds - rounds) * size
        BY <1>0, <2>1 DEF Unfailed, Typed
    <2>3. next \in Nat /\ next' \in Nat /\ size \in Nat
        BY <1>0, <2>1, <2>2 DEF Typed, AtMost
    <2>4. Alike'
        BY <1>0, <2>1, <2>2, <2>3, EmitAlike DEF NativeAt
    <2>5. next + size = (Rounds - rounds') * size
        <3>1. Rounds - rounds \in Nat /\ Rounds - rounds' = (Rounds - rounds) + 1
            BY <1>0, <2>1, <2>2
        <3> QED
            BY <2>2, <2>3, <3>1, OneMore
    <2> QED
        BY <1>0, <2>1, <2>2, <2>3, <2>4, <2>5 DEF Unfailed, AtMost
<1>5. CASE NoSegment \/ NoRounds
    <2>1. /\ pc = "segmenting" /\ pc' = "returned" /\ UNCHANGED <<wire, size>>
          /\ ~failed /\ ~refused
          /\ rounds = 0 \/ ~(next < length)
        <3>1. CASE NoSegment
            <4>1. pc = "segmenting" /\ pc' = "returned" /\ UNCHANGED <<wire, size, refused>>
                BY <3>1 DEF NoSegment, Goto, nativeVars
            <4>2. failed' = (failed \/ next < length)
                BY <3>1 DEF NoSegment
            <4> QED
                BY <1>0, <4>1, <4>2
        <3>2. CASE NoRounds
            BY <1>0, <3>2 DEF NoRounds, Goto, nativeVars
        <3> QED
            BY <1>5, <3>1, <3>2
    <2>2. /\ Alike /\ size \in NativeSizes /\ rounds \in 0..Rounds
          /\ next = length \/ next = (Rounds - rounds) * size
          /\ next \in Nat /\ next <= length
        BY <1>0, <2>1 DEF Unfailed, Typed
    <2>3. length <= Rounds * size => next = length
        BY <1>0, <2>1, <2>2
    <2>4. next = length /\ length > 0 => Complete
        BY <1>0, <2>1 DEF NativeAt, Complete, Last
    <2> QED
        BY <1>0, <2>1, <2>2, <2>3, <2>4 DEF Unfailed, Alike, Complete
<1>6. CASE SendWhole
    <2>1. /\ wire = <<>> /\ pc' = "returned" /\ Emit("native", 0, length)
          /\ ~failed /\ ~refused
        BY <1>0, <1>6 DEF SendWhole, Goto, Fresh
    <2>2. wire' = <<[path |-> "native", from |-> 0, upto |-> length]>>
        BY <2>1 DEF Emit
    <2> QED
        BY <1>0, <2>1, <2>2 DEF Unfailed, Alike, Complete
<1>7. CASE PythonWhole
    <2>1. /\ pc = "python" /\ pc' = "returned" /\ length <= Mtu
          /\ Emit("python", 0, length) /\ ~failed /\ ~refused
        BY <1>7 DEF PythonWhole, Goto
    <2>2. wire = <<>>
        BY <1>0, <2>1 DEF Unfailed, PythonAt
    <2>3. wire' = <<[path |-> "python", from |-> 0, upto |-> length]>>
        BY <2>1, <2>2 DEF Emit
    <2> QED
        BY <1>0, <2>1, <2>3 DEF Unfailed, Alike, Complete
<1>8. CASE PythonSegment
    <2> DEFINE upto == AtMost(offset + Mtu, length)
    <2>1. /\ pc = "python" /\ pc' = pc /\ Emit("python", offset, upto)
          /\ size' = size /\ ~failed /\ ~refused /\ upto \in Nat /\ offset \in Nat
        BY <1>0, <1>8 DEF PythonSegment, nativeVars, Typed, AtMost
    <2>2. Alike'
        BY <1>0, <2>1, EmitAlike DEF Unfailed
    <2>3. Last'.path = "python"
        BY <1>0, <2>1 DEF Emit, Typed, Last
    <2> QED
        BY <1>0, <2>1, <2>2, <2>3 DEF Unfailed
<1>9. CASE PythonEnd
    <2>1. /\ pc = "python" /\ pc' = "returned" /\ length > Mtu /\ offset >= length
          /\ wire' = wire /\ ~failed /\ ~refused
        BY <1>9 DEF PythonEnd, Goto
    <2>2. Complete
        BY <1>0, <2>1 DEF PythonAt, Typed, AtMost, Complete, Last
    <2> QED
        BY <1>0, <2>1, <2>2 DEF Unfailed, Alike, Complete
<1>10. CASE UNCHANGED vars
    BY <1>0, <1>10 DEF vars, Unfailed, Alike, Complete, Last
<1>11. ~NativeRaises /\ ~Refuse /\ ~PythonRefuse
    BY DEF NativeRaises, Refuse, PythonRefuse
<1> QED
    BY <1>1, <1>2, <1>3, <1>4, <1>5, <1>6, <1>7, <1>8, <1>9, <1>10, <1>11 DEF Next, Step

(* Without a failure, and with segments large enough for the passes, send()    *)
(* puts one complete run on the wire (tp.py:88-126).                           *)
THEOREM SentOnce == Spec => []ExactlyOnce
<1>1. Init => Unfailed
    BY DEF Init, Unfailed, Alike
<1>2. Unfailed => ExactlyOnce
    BY DEF Unfailed, ExactlyOnce, Rounds, Alike
<1> QED
    BY <1>1, <1>2, UnfailedStep, Inductive, TypeCorrect, PTL DEF Spec
=============================================================================
