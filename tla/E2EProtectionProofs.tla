-------------------------- MODULE E2EProtectionProofs --------------------------
(***************************************************************************)
(* Proofs about E2EProtection for every number of threads and every size   *)
(* of the counter.  The counter is the number of ended calls, reduced; so  *)
(* the value a call was given is the number of calls that had ended when   *)
(* it began, reduced, however the calls overlap.                           *)
(***************************************************************************)
EXTENDS E2EProtection, TLAPS

(* A remainder leaves a multiple of the divisor.                               *)
LEMMA Quotient ==
    ASSUME NEW s \in Nat \ {0}, NEW n \in Nat
    PROVE  n % s \in 0..(s - 1) /\ \E q \in Int : n = s * q + (n % s)
<1>1. n % s \in 0..(s - 1)
    BY SMT
<1>2. ASSUME NEW r \in 0..(s - 1) PROVE n % s = r => \E q \in Int : n = s * q + r
    BY SMT
<1> QED
    BY <1>1, <1>2

(* And is the only one of its kind.                                            *)
LEMMA Remainder ==
    ASSUME NEW s \in Nat \ {0}, NEW r \in 0..(s - 1), NEW q \in Int
    PROVE  (s * q + r) % s = r
BY SMT

(* Advancing the reduced counter is reducing the advanced one.                 *)
LEMMA Advance ==
    ASSUME NEW s \in Nat \ {0}, NEW n \in Nat
    PROVE  ((n % s) + 1) % s = (n + 1) % s
<1> DEFINE r == n % s
<1>1. r \in 0..(s - 1)
    BY Quotient
<1>2. PICK q \in Int : n = s * q + r
    BY Quotient
<1> HIDE DEF r
<1>3. CASE r + 1 < s
    <2>1. r + 1 \in 0..(s - 1)
        BY <1>1, <1>3, SMT
    <2>2. (s * q + (r + 1)) % s = r + 1 /\ (s * 0 + (r + 1)) % s = r + 1
        BY <2>1, Remainder, q \in Int, 0 \in Int
    <2>3. n + 1 = s * q + (r + 1) /\ r + 1 = s * 0 + (r + 1)
        BY <1>1, <1>2, SMT
    <2> QED
        BY <2>2, <2>3 DEF r
<1>4. CASE r + 1 = s
    <2>1. (s * (q + 1) + 0) % s = 0 /\ (s * 1 + 0) % s = 0
        BY Remainder, 0 \in 0..(s - 1), q + 1 \in Int
    <2>2. n + 1 = s * (q + 1) + 0 /\ r + 1 = s * 1 + 0
        BY <1>1, <1>2, <1>4, SMT
    <2> QED
        BY <2>1, <2>2 DEF r
<1> QED
    BY <1>1, <1>3, <1>4, SMT

(* Numbers less than the divisor apart have different remainders.              *)
LEMMA Apart ==
    ASSUME NEW s \in Nat \ {0}, NEW a \in Nat, NEW b \in Nat, a < b, b - a < s
    PROVE  a % s # b % s
<1> SUFFICES ASSUME a % s = b % s PROVE FALSE
    OBVIOUS
<1> DEFINE r == a % s
<1>1. r \in 0..(s - 1)
    BY Quotient
<1>2. PICK p \in Int : a = s * p + r
    BY Quotient
<1>3. PICK q \in Int : b = s * q + r
    BY Quotient
<1> HIDE DEF r
<1>4. b - a = s * (q - p)
    BY <1>1, <1>2, <1>3, SMT
<1>5. q - p \in Int /\ (q - p >= 1 \/ q - p <= 0)
    OBVIOUS
<1> HIDE DEF r
<1>6. CASE q - p >= 1
    BY <1>4, <1>5, <1>6, SMT
<1>7. CASE q - p <= 0
    BY <1>4, <1>5, <1>7, SMT
<1> QED
    BY <1>5, <1>6, <1>7

-----------------------------------------------------------------------------

Inv ==
    /\ TypeOK
    /\ counter = ended % Size
    /\ \A t \in Threads : began[t] <= ended /\ (holds[t] # -1 => holds[t] = began[t] % Size)
    /\ \A e \in log : e.began < e.ended /\ e.value = e.began % Size

LEMMA InvInit == E2EAssumption /\ Init => Inv
<1> SUFFICES ASSUME E2EAssumption, Init PROVE Inv
    OBVIOUS
<1>1. Size \in Nat \ {0}
    BY DEF E2EAssumption
<1>2. 0 % Size = 0
    <2>1. (Size * 0 + 0) % Size = 0
        BY <1>1, Remainder, 0 \in 0..(Size - 1)
    <2> QED
        BY <1>1, <2>1, SMT
<1> QED
    BY <1>1, <1>2 DEF Init, Inv, TypeOK, Values

(* What protect() may do in the middle keeps the invariant.                    *)
LEMMA InvBegin ==
    ASSUME E2EAssumption, Inv, NEW t \in Threads, ProtectBegin(t)
    PROVE  Inv'
<1>1. TypeOK'
    BY DEF Inv, TypeOK, ProtectBegin
<1> QED
    BY <1>1 DEF Inv, TypeOK, ProtectBegin

LEMMA InvEnd ==
    ASSUME E2EAssumption, Inv, NEW t \in Threads, ProtectEnd(t)
    PROVE  Inv'
<1> DEFINE entry == [value |-> holds[t], began |-> began[t], ended |-> ended']
<1>0. Size \in Nat \ {0} /\ ended \in Nat /\ ended' = ended + 1 /\ began[t] \in Nat
      /\ holds[t] \in Values
    BY DEF E2EAssumption, Inv, TypeOK, ProtectEnd, Logged
<1>1. counter' = ended' % Size
    BY <1>0, Advance DEF Inv, ProtectEnd
<1>2. counter' \in Values
    <2>1. ended' \in Nat
        BY <1>0
    <2> QED
        BY <1>0, <1>1, <2>1, Quotient DEF Values
<1>3. entry \in Entry
    BY <1>0 DEF Entry
<1>4. entry.began < entry.ended /\ entry.value = entry.began % Size
    BY <1>0 DEF Inv, ProtectEnd
<1>5. log' = log \cup {entry}
    BY DEF ProtectEnd, Logged
<1>6. began' = began /\ holds' = [holds EXCEPT ![t] = -1]
    BY DEF ProtectEnd
<1>7. TypeOK'
    BY <1>0, <1>2, <1>3, <1>5, <1>6 DEF Inv, TypeOK
<1>8. \A u \in Threads :
          began'[u] <= ended' /\ (holds'[u] # -1 => holds'[u] = began'[u] % Size)
    BY <1>0, <1>6 DEF Inv, TypeOK
<1>9. \A e \in log' : e.began < e.ended /\ e.value = e.began % Size
    BY <1>4, <1>5 DEF Inv
<1> QED
    BY <1>1, <1>7, <1>8, <1>9 DEF Inv

LEMMA InvRaises == ASSUME Inv, NEW t \in Threads, ProtectRaises(t) PROVE Inv'
<1>1. TypeOK'
    BY DEF Inv, TypeOK, ProtectRaises
<1> QED
    BY <1>1 DEF Inv, TypeOK, ProtectRaises

LEMMA InvStutter == ASSUME Inv, UNCHANGED vars PROVE Inv'
BY DEF Inv, TypeOK, vars

(* The invariant is what keeps the values apart.                               *)
LEMMA InvDistinct == E2EAssumption /\ Inv => DistinctCounters
<1> SUFFICES ASSUME E2EAssumption, Inv, NEW e \in log, NEW f \in log,
                    e.ended <= f.began, f.began - e.began < Size
             PROVE  e.value # f.value
    BY DEF DistinctCounters
<1>1. Size \in Nat \ {0} /\ e.began \in Nat /\ e.ended \in Nat /\ f.began \in Nat
    BY DEF E2EAssumption, Inv, TypeOK, Entry
<1>2. e.began < f.began
    BY <1>1 DEF Inv
<1> QED
    BY <1>1, <1>2, Apart DEF Inv

=============================================================================
