------------------------------ MODULE TpManager ------------------------------
(***************************************************************************)
(* tp.py's TpManager.send: one message goes out through the native         *)
(* segmenter or, when something on that way raises, through the Python     *)
(* loop.  Only the bytes on the wire tell the calls apart, so a segment is *)
(* the range of the payload it carries.                                    *)
(*                                                                         *)
(* The native TP manager and the transport are external: either may fail   *)
(* at every call.  start() and stop() touch nothing that send() reads;     *)
(* SomeIpServer models them.                                               *)
(***************************************************************************)
EXTENDS Integers, Sequences

CONSTANTS
    Mtu,            \* the mtu argument, in bytes
    MaxLength,      \* bound on the length of a payload
    NativeSizes,    \* payload bytes the native segmenter may put in a segment
    HasNative       \* whether the extension is there: a set of choices

ASSUME TpAssumption ==
    /\ Mtu \in Nat \ {0}
    /\ MaxLength \in Nat
    /\ NativeSizes \subseteq Nat \ {0}
    /\ HasNative \subseteq BOOLEAN

VARIABLES
    native,     \* _cpp is not None
    length,     \* len(message.payload)
    pc,         \* where send() is
    size,       \* the segment size the native transfer uses
    known,      \* the native side knows the transfer: segment_message succeeded
    next,       \* first byte the native side has not handed out
    rounds,     \* passes the loop of line 93 has left
    offset,     \* offset of line 115
    wire,       \* the segments the transport took
    failed,     \* history: the native side failed a call
    refused     \* history: the transport raised

vars == <<native, length, pc, size, known, next, rounds, offset, wire, failed, refused>>

Segment == [path : {"native", "python"}, from : 0..MaxLength, upto : 0..MaxLength]

TypeOK ==
    /\ native \in BOOLEAN
    /\ length \in 0..MaxLength
    /\ pc \in {"idle", "native", "whole", "segmenting", "python", "returned", "raised"}
    /\ size \in NativeSizes \cup {0}
    /\ known \in BOOLEAN
    /\ next \in 0..length
    /\ rounds \in 0..(MaxLength + 2)
    /\ offset \in 0..(MaxLength + Mtu)
    /\ wire \in Seq(Segment)
    /\ failed \in BOOLEAN /\ refused \in BOOLEAN

Init ==
    /\ native \in HasNative
    /\ length \in 0..MaxLength
    /\ pc = "idle"
    /\ size = 0 /\ known = FALSE /\ next = 0 /\ rounds = 0
    /\ offset = 0
    /\ wire = <<>>
    /\ failed = FALSE /\ refused = FALSE

-----------------------------------------------------------------------------

AtMost(a, b) == IF a <= b THEN a ELSE b

Emit(path, from, upto) ==
    wire' = Append(wire, [path |-> path, from |-> from, upto |-> upto])

Goto(place) == pc' = place

nativeVars == <<size, known, next, rounds>>

Call ==
    /\ pc = "idle"
    /\ Goto(IF native THEN "native" ELSE "python")
    /\ UNCHANGED <<native, length, nativeVars, offset, wire, failed, refused>>

-----------------------------------------------------------------------------
(*                 The native way, inside the try block                     *)

(* to_cpp_message, needs_segmentation, segment_message or get_next_segment      *)
(* raises; the exception is swallowed.                                         *)
NativeRaises ==
    /\ pc = "native" \/ (pc = "segmenting" /\ rounds > 0)
    /\ Goto("python")
    /\ failed' = TRUE
    /\ UNCHANGED <<native, length, nativeVars, offset, wire, refused>>

NotNeeded ==
    /\ pc = "native"
    /\ Goto("whole")
    /\ UNCHANGED <<native, length, nativeVars, offset, wire, failed, refused>>

(* Variants named after what they get wrong stand before the definition they   *)
(* change; only the mutation runs use them.                                    *)
RoundsTooFew == length \div Mtu

(* max_segments *)
Rounds == (length \div Mtu) + 2

(* The result of segment_message is not looked at.  When it is an error, the   *)
(* transfer it names does not exist.                                           *)
SegmentMessage(success, s) ==
    /\ pc = "native"
    /\ Goto("segmenting")
    /\ size' = s
    /\ known' = success
    /\ rounds' = Rounds
    /\ failed' = ~success
    /\ UNCHANGED <<native, length, next, offset, wire, refused>>

SendSegmentOverrun ==
    /\ pc = "segmenting" /\ rounds > 0 /\ known /\ next < length
    /\ next' = next + size
    /\ rounds' = rounds - 1
    /\ Emit("native", next, AtMost(next', length))
    /\ UNCHANGED <<native, length, pc, size, known, offset, failed, refused>>

(* get_next_segment hands out a segment and the transport takes it. *)
SendSegment ==
    /\ pc = "segmenting" /\ rounds > 0 /\ known /\ next < length
    /\ next' = AtMost(next + size, length)
    /\ rounds' = rounds - 1
    /\ Emit("native", next, next')
    /\ UNCHANGED <<native, length, pc, size, known, offset, failed, refused>>

(* get_next_segment returns anything but SUCCESS: after the last segment, for  *)
(* a transfer it does not know, or because it failed.  send() returns.         *)
NoSegment ==
    /\ pc = "segmenting" /\ rounds > 0
    /\ Goto("returned")
    /\ failed' = (failed \/ next < length)
    /\ UNCHANGED <<native, length, nativeVars, offset, wire, refused>>

(* The loop has made all its passes. *)
NoRounds ==
    /\ pc = "segmenting" /\ rounds = 0
    /\ Goto("returned")
    /\ UNCHANGED <<native, length, nativeVars, offset, wire, failed, refused>>

SendWhole ==
    /\ pc = "whole"
    /\ Emit("native", 0, length)
    /\ Goto("returned")
    /\ UNCHANGED <<native, length, nativeVars, offset, failed, refused>>

(* The transport raises inside the try block: the loop starts over in Python.  *)
Refuse ==
    /\ \/ pc = "whole"
       \/ (pc = "segmenting" /\ rounds > 0 /\ known /\ next < length)
    /\ Goto("python")
    /\ refused' = TRUE
    /\ UNCHANGED <<native, length, nativeVars, offset, wire, failed>>

-----------------------------------------------------------------------------
(*                            The Python way                                *)

PythonWhole ==
    /\ pc = "python" /\ length <= Mtu
    /\ Emit("python", 0, length)
    /\ Goto("returned")
    /\ UNCHANGED <<native, length, nativeVars, offset, failed, refused>>

PythonSegmentSkips ==
    /\ pc = "python" /\ length > Mtu /\ offset < length
    /\ Emit("python", offset, AtMost(offset + Mtu, length))
    /\ offset' = offset + Mtu + 1
    /\ UNCHANGED <<native, length, pc, nativeVars, failed, refused>>

PythonSegment ==
    /\ pc = "python" /\ length > Mtu /\ offset < length
    /\ Emit("python", offset, AtMost(offset + Mtu, length))
    /\ offset' = offset + Mtu
    /\ UNCHANGED <<native, length, pc, nativeVars, failed, refused>>

PythonEndTooEarly ==
    /\ pc = "python" /\ length > Mtu /\ offset + Mtu >= length
    /\ Goto("returned")
    /\ UNCHANGED <<native, length, nativeVars, offset, wire, failed, refused>>

PythonEnd ==
    /\ pc = "python" /\ length > Mtu /\ offset >= length
    /\ Goto("returned")
    /\ UNCHANGED <<native, length, nativeVars, offset, wire, failed, refused>>

PythonRefuse ==
    /\ pc = "python" /\ (offset < length \/ length <= Mtu)
    /\ Goto("raised")
    /\ refused' = TRUE
    /\ UNCHANGED <<native, length, nativeVars, offset, wire, failed>>

Step ==
    \/ NativeRaises \/ NotNeeded
    \/ \E success \in BOOLEAN, s \in NativeSizes : SegmentMessage(success, s)
    \/ SendSegment \/ NoSegment \/ NoRounds \/ SendWhole \/ Refuse
    \/ PythonWhole \/ PythonSegment \/ PythonEnd \/ PythonRefuse

Next == Call \/ Step

Spec == Init /\ [][Next]_vars

-----------------------------------------------------------------------------
(*                                 Properties                               *)

(* What is on the wire is at most two runs, the native one first, and each run *)
(* is the payload from its first byte on without gap or repetition, wherever   *)
(* either side stopped (lines 93-104 and 115-126).                             *)
Runs ==
    \A i \in DOMAIN wire :
        /\ wire[i].from <= wire[i].upto /\ wire[i].upto <= length
        /\ (i > 1 /\ wire[i].path = "native") => wire[i-1].path = "native"
        /\ wire[i].from = IF i > 1 /\ wire[i-1].path = wire[i].path
                          THEN wire[i-1].upto ELSE 0

(* The last segment the transport took ends the message. *)
Complete == wire # <<>> /\ wire[Len(wire)].upto = length

(* When the Python loop returns it sent the whole message, whatever the native *)
(* way had put on the wire before it failed (lines 112-126).                   *)
FallbackComplete ==
    pc = "returned" /\ wire # <<>> /\ wire[Len(wire)].path = "python" => Complete

(* Without a failure, and with segments large enough for the passes line 92    *)
(* allows, the message is sent exactly once: one complete run.                 *)
ExactlyOnce ==
    pc = "returned" /\ ~failed /\ ~refused /\ (size = 0 \/ length <= ((length \div Mtu) + 2) * size) =>
        /\ length > 0 => Complete
        /\ \A i \in DOMAIN wire : wire[i].path = wire[1].path

=============================================================================
