------------------------------ MODULE Serializer ------------------------------
(***************************************************************************)
(* serialization.py's Serializer: what each write appends to the buffer,   *)
(* and which values it refuses, in the Python code and, where it delegates,*)
(* in the native one.  A float is the integer its bits spell.  Text is the *)
(* sequence of bytes its encoding gives.                                   *)
(***************************************************************************)
EXTENDS Integers, Sequences

CONSTANT Base   \* values of a byte, 256 in the code

VARIABLES
    cpp,    \* the native Serializer and Deserializer are used
    buf     \* the buffer, Python's or the native one

Width == [bool |-> 1, uint8 |-> 1, uint16 |-> 2, uint32 |-> 4, uint64 |-> 8,
          int8 |-> 1, int16 |-> 2, int32 |-> 4, int64 |-> 8, float32 |-> 4, float64 |-> 8]

Scalars == DOMAIN Width

Signed == {"int8", "int16", "int32", "int64"}

Power[n \in Nat] == IF n = 0 THEN 1 ELSE Base * Power[n - 1]

InRange(t, v) ==
    LET n == Power[Width[t]]
    IN  IF t \in Signed THEN -n <= 2 * v /\ 2 * v < n ELSE 0 <= v /\ v < n

(* Only Python's write_bool and write_uint8 take every integer. *)
Accepts(t, v) == t = "bool" \/ (t = "uint8" /\ ~cpp) \/ InRange(t, v)

(* Variants named after what they get wrong stand before the definition they   *)
(* change; only the mutation runs use them.                                    *)
BytesLittle(v, n) == [k \in 1..n |-> (v \div Power[k - 1]) % Base]

(* The n bytes of v, the first the most significant; two's complement.         *)
Bytes(v, n) == [k \in 1..n |-> (v \div Power[n - k]) % Base]

Scalar(t, v) == IF t = "bool" THEN <<IF v = 0 THEN 0 ELSE 1>> ELSE Bytes(v, Width[t])

(* What a reader of it will find. *)
Meant(t, v) ==
    CASE t = "bool" -> IF v = 0 THEN 0 ELSE 1
      [] t = "uint8" -> v % Base
      [] OTHER -> v

Blob(d) == Bytes(Len(d), Width["uint32"]) \o d

Text(d) == Blob(Append(d, 0))

(* The length of a blob is written as a uint32.                                *)
Counts(d) == InRange("uint32", Len(d))

Init == cpp \in BOOLEAN /\ buf = <<>>

(* A refused value raises and appends nothing. *)
WriteScalar(t, v) == Accepts(t, v) /\ buf' = buf \o Scalar(t, v) /\ UNCHANGED cpp

WriteBytes(d) == Counts(d) /\ buf' = buf \o Blob(d) /\ UNCHANGED cpp

WriteBytesRaw(d) == buf' = buf \o d /\ UNCHANGED cpp

WriteString(d) == Counts(Append(d, 0)) /\ buf' = buf \o Text(d) /\ UNCHANGED cpp

Reset == buf' = <<>> /\ UNCHANGED cpp

=============================================================================
