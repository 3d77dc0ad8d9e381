---------------------------------- MODULE Crc ----------------------------------
(***************************************************************************)
(* The Python code of e2e.py's crc8 and crc16, and what they have to be:   *)
(* the remainder of a division of polynomials.  An integer is the set of   *)
(* the positions of its one bits, which is also the polynomial over GF(2)  *)
(* with those exponents: both xor and addition are the symmetric           *)
(* difference.                                                             *)
(***************************************************************************)
EXTENDS Integers, Sequences

Xor(a, b) == (a \ b) \cup (b \ a)

(* (crc << 1) & (2^width - 1), and crc >> 1. *)
Left(crc, width) == {e + 1 : e \in crc} \ {width}

Right(crc) == {e - 1 : e \in crc \ {0}}

(* Variants named after what they get wrong stand before the definition they   *)
(* change; only the mutation runs use them.                                    *)
Step8Late(crc) == IF 7 \in Left(crc, 8) THEN Xor(Left(crc, 8), {4, 3, 2, 0}) ELSE Left(crc, 8)

Step8(crc) == IF 7 \in crc THEN Xor(Left(crc, 8), {4, 3, 2, 0}) ELSE Left(crc, 8)

Step16(crc) == IF 0 \in crc THEN Xor(Right(crc), {15, 10, 3}) ELSE Right(crc)

(* A byte is taken in with eight steps. *)
Byte8(crc, byte) ==
    LET c[i \in 0..8] == IF i = 0 THEN Xor(crc, byte) ELSE Step8(c[i - 1])
    IN  c[8]

Byte16(crc, byte) ==
    LET c[i \in 0..8] == IF i = 0 THEN Xor(crc, byte) ELSE Step16(c[i - 1])
    IN  c[8]

crc8(bytes) ==
    LET c[k \in 0..Len(bytes)] == IF k = 0 THEN 0..7 ELSE Byte8(c[k - 1], bytes[k])
    IN  Xor(c[Len(bytes)], 0..7)

crc16(bytes) ==
    LET c[k \in 0..Len(bytes)] == IF k = 0 THEN 0..15 ELSE Byte16(c[k - 1], bytes[k])
    IN  Xor(c[Len(bytes)], 0..15)

-----------------------------------------------------------------------------
(*                         The reference definition                         *)

(* One step of a division by p, whose degree is width: a leading term at top   *)
(* takes p, moved there, away from the polynomial.                             *)
Subtract(r, top, p, width) == IF top \in r THEN Xor(r, {e + top - width : e \in p}) ELSE r

(* The remainder of polynomial m of degree below n.                            *)
Remainder(m, n, p, width) ==
    LET r[i \in 0..(n - width)] == IF i = 0 THEN m ELSE Subtract(r[i - 1], n - i, p, width)
    IN  r[n - width]

(* The bits of a message, in the order Order gives those of a byte, as a       *)
(* polynomial that starts with the checksum's initial ones and leaves room for *)
(* it at the end.                                                              *)
Dividend(bytes, width, Order(_)) ==
    LET n == 8 * Len(bytes)
        bits == UNION {{n - 8 * k + Order(e) + width : e \in bytes[k]} : k \in DOMAIN bytes}
    IN  Xor(bits, {n + e : e \in 0..(width - 1)})

(* CRC-8/SAE-J1850: the polynomial 0x11D, most significant bits first.         *)
Reference8(bytes) ==
    Xor(Remainder(Dividend(bytes, 8, LAMBDA e : e), 8 * Len(bytes) + 8, {8, 4, 3, 2, 0}, 8), 0..7)

(* CRC-16/X.25: the polynomial 0x11021, least significant bits first.          *)
Reference16(bytes) ==
    LET r == Remainder(Dividend(bytes, 16, LAMBDA e : 7 - e), 8 * Len(bytes) + 16,
                       {16, 12, 5, 0}, 16)
    IN  Xor({15 - e : e \in r}, 0..15)

=============================================================================
