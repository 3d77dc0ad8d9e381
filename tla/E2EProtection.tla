----------------------------- MODULE E2EProtection -----------------------------
(***************************************************************************)
(* e2e.py's E2EProtection: the counter protect() hands to the profile and  *)
(* then advances, and check() reads.  The profile is Python code, so other *)
(* threads run between the reading and the advance; the advance itself     *)
(* calls nothing and is one step of the interpreter.  A protection without *)
(* a profile passes payloads through and has no state.                     *)
(***************************************************************************)
EXTENDS Integers

CONSTANTS
    Threads,        \* threads that protect, each one payload at a time
    Size            \* counter values, 256 in the code

(* What the module that composes this one has to assume of the constants. *)
E2EAssumption == Size \in Nat \ {0}

VARIABLES
    counter,    \* _counter
    holds,      \* the counter value each thread was given and has not advanced, or -1
    ended,      \* history: calls of protect() that have returned
    began,      \* history: how many had when each thread was given its value
    log         \* history: the value of each, with these two counts

vars == <<counter, holds, ended, began, log>>

Values == 0..(Size - 1)

Entry == [value : Values, began : Nat, ended : Nat]

TypeOK ==
    /\ counter \in Values
    /\ holds \in [Threads -> Values \cup {-1}]
    /\ ended \in Nat
    /\ began \in [Threads -> Nat]
    /\ log \subseteq Entry

Init ==
    /\ counter = 0
    /\ holds = [t \in Threads |-> -1]
    /\ ended = 0
    /\ began = [t \in Threads |-> 0]
    /\ log = {}

(* The profile is called with the counter. *)
ProtectBegin(t) ==
    /\ holds[t] = -1
    /\ holds' = [holds EXCEPT ![t] = counter]
    /\ began' = [began EXCEPT ![t] = ended]
    /\ UNCHANGED <<counter, ended, log>>

Logged(t) ==
    /\ ended' = ended + 1
    /\ log' = log \cup {[value |-> holds[t], began |-> began[t], ended |-> ended']}

(* Variants named after what they get wrong stand before the definition they   *)
(* change; only the mutation runs use them.                                    *)
ProtectEndFromOld(t) ==
    /\ holds[t] # -1
    /\ counter' = (holds[t] + 1) % Size
    /\ Logged(t)
    /\ holds' = [holds EXCEPT ![t] = -1]
    /\ UNCHANGED began

ProtectEndUnmasked(t) ==
    /\ holds[t] # -1
    /\ counter' = counter + 1
    /\ Logged(t)
    /\ holds' = [holds EXCEPT ![t] = -1]
    /\ UNCHANGED began

(* It returns, and the counter is read again to be advanced. *)
ProtectEnd(t) ==
    /\ holds[t] # -1
    /\ counter' = (counter + 1) % Size
    /\ Logged(t)
    /\ holds' = [holds EXCEPT ![t] = -1]
    /\ UNCHANGED began

(* The profile raises out of protect(): the counter is not advanced. *)
ProtectRaises(t) ==
    /\ holds[t] # -1
    /\ holds' = [holds EXCEPT ![t] = -1]
    /\ UNCHANGED <<counter, ended, began, log>>

(* What check() gives the profile, which decides with it on a payload received. *)
check == counter

Next == \E t \in Threads : ProtectBegin(t) \/ ProtectEnd(t) \/ ProtectRaises(t)

Spec == Init /\ [][Next]_vars

(* Two payloads share a counter value only if they were protected at the same  *)
(* time or at least a whole round of the counter apart: no overlap of other    *)
(* calls sets the counter back (lines 88-96).                                  *)
DistinctCounters ==
    \A e, f \in log :
        e.ended <= f.began /\ f.began - e.began < Size => e.value # f.value

=============================================================================
