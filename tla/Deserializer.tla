----------------------------- MODULE Deserializer -----------------------------
(***************************************************************************)
(* serialization.py's Deserializer: what each read returns, where it       *)
(* leaves the position, and what a read that fails has consumed.           *)
(***************************************************************************)
EXTENDS Integers, Sequences

CONSTANT Base   \* see Serializer

VARIABLES
    cpp,    \* the native Deserializer is used
    data,   \* the payload
    pos,    \* position
    value,  \* what the last read returned
    failed  \* it raised ValueError

S == INSTANCE Serializer WITH buf <- data

remaining == Len(data) - pos

Slice(from, n) == SubSeq(data, from + 1, from + n)

Unsigned(d) ==
    LET sum[k \in 0..Len(d)] == IF k = 0 THEN 0 ELSE sum[k - 1] * Base + d[k]
    IN  sum[Len(d)]

Scalar(t, d) ==
    LET v == Unsigned(d)
    IN  CASE t \in S!Signed /\ ~S!InRange(t, v) -> v - S!Power[Len(d)]
          [] t = "bool" -> IF v = 0 THEN 0 ELSE 1
          [] OTHER -> v

Returns(v, n) == value' = v /\ pos' = pos + n /\ failed' = FALSE

Raises(at) == failed' = TRUE /\ pos' = at /\ UNCHANGED value

(* An error result of the native Deserializer becomes an exception; where it   *)
(* leaves its position is its own affair.                                      *)
unwrap == cpp /\ \E at \in {pos, Len(data)} : Raises(at)

(* A failed read of one value leaves Python's position where it was.           *)
ReadScalar(t) ==
    LET n == S!Width[t]
    IN  /\ \/ n <= remaining /\ Returns(Scalar(t, Slice(pos, n)), n)
           \/ n > remaining /\ ~cpp /\ Raises(pos)
           \/ n > remaining /\ unwrap
        /\ UNCHANGED <<cpp, data>>

Prefix == S!Width["uint32"]

(* The length, then its bytes one by one: a payload that ends in between has   *)
(* been consumed when the read fails.                                          *)
Counted(Of(_)) ==
    LET n == Unsigned(Slice(pos, Prefix))
    IN  /\ \/ Prefix > remaining /\ ~cpp /\ Raises(pos)
           \/ Prefix > remaining /\ unwrap
           \/ Prefix <= remaining /\ Prefix + n > remaining /\ Raises(Len(data))
           \/ /\ Prefix <= remaining /\ Prefix + n <= remaining
              /\ Returns(Of(Slice(pos + Prefix, n)), Prefix + n)
        /\ UNCHANGED <<cpp, data>>

ReadBytes == Counted(LAMBDA d : d)

(* Python takes all or nothing, the native way byte by byte. *)
ReadBytesRaw(n) ==
    /\ \/ n <= remaining /\ Returns(Slice(pos, n), n)
       \/ n > remaining /\ Raises(IF cpp THEN Len(data) ELSE pos)
    /\ UNCHANGED <<cpp, data>>

(* One NUL at the end, if there is one, is no part of the text.                *)
Unterminated(d) == IF d # <<>> /\ d[Len(d)] = 0 THEN SubSeq(d, 1, Len(d) - 1) ELSE d

ReadString == Counted(Unterminated)

=============================================================================
