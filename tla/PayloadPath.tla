------------------------------ MODULE PayloadPath ------------------------------
(***************************************************************************)
(* A payload from the values written to the values read.  It is built with *)
(* a Serializer and read with a Deserializer, at once or after it crossed  *)
(* the network in a message; a request that arrived may be answered.  The  *)
(* reader may find less than was written, and knows what to look for.      *)
(***************************************************************************)
EXTENDS Integers, Sequences, FiniteSets

CONSTANTS
    Base, Half,     \* see Serializer and Messages
    Values,         \* the integers each type is tried with
    Blobs,          \* the byte strings and texts, as sequences of bytes
    Headers,        \* the messages, without a payload, that carry it
    MaxItems,       \* bound on the values of a payload
    MaxChecked      \* bound on the bytes whose checksums are looked at

VARIABLES
    cpp, buf,       \* the Serializer; cpp also says that there is a native transport
    items,          \* history: what was written, in order, as type and value
    stage,          \* where the payload is
    sent,           \* the message sent
    wire,           \* the native message on the network
    received,       \* the last message a listener put into a receiver
    reads, data, pos, value, failed,    \* the Deserializer, reads its cpp
    got             \* history: what was read

writer == <<cpp, buf, items>>
network == <<sent, wire, received>>
reader == <<reads, data, pos, value, failed, got>>
vars == <<writer, stage, network, reader>>

S == INSTANCE Serializer
D == INSTANCE Deserializer WITH cpp <- reads
M == INSTANCE Messages
C == INSTANCE Crc

ASSUME PayloadAssumption ==
    /\ Base \in Nat \ {0, 1} /\ Half \in Nat \ {0}
    /\ Values \in [S!Scalars -> SUBSET Int]
    /\ Blobs \subseteq Seq(0..(Base - 1))
    /\ \A h \in Headers : /\ h.message_id \in M!Id /\ h.request_id \in M!Id
                          /\ h.message_type \in DOMAIN M!MessageType
                          /\ h.return_code \in DOMAIN M!ReturnCode
    /\ MaxItems \in Nat /\ MaxChecked \in Nat

NoMessage == "none"

Init ==
    /\ S!Init
    /\ items = <<>> /\ got = <<>>
    /\ stage = "write"
    /\ sent = NoMessage /\ wire = NoMessage /\ received = NoMessage
    /\ reads = FALSE /\ data = <<>> /\ pos = 0 /\ value = 0 /\ failed = FALSE

-----------------------------------------------------------------------------
(*                                Writing                                   *)

Write(t, v) ==
    /\ stage = "write" /\ Len(items) < MaxItems
    /\ \/ t \in S!Scalars /\ S!WriteScalar(t, v)
       \/ t = "bytes" /\ S!WriteBytes(v)
       \/ t = "raw" /\ S!WriteBytesRaw(v)
       \/ t = "string" /\ S!WriteString(v)
    /\ items' = Append(items, [type |-> t, value |-> v])
    /\ UNCHANGED <<stage, network, reader>>

Reset ==
    /\ stage = "write" /\ items # <<>>
    /\ S!Reset
    /\ items' = <<>>
    /\ UNCHANGED <<stage, network, reader>>

-----------------------------------------------------------------------------
(*                              The network                                 *)

Send(h) ==
    /\ stage = "write" /\ cpp
    /\ sent' = M!Message(h.message_id, h.request_id, h.message_type, h.return_code,
                         h.interface_version, buf)
    /\ wire' = M!to_cpp_message(sent')
    /\ stage' = "request"
    /\ UNCHANGED <<writer, received, reader>>

Deliver ==
    /\ stage \in {"request", "response"}
    /\ received' \in M!Received(wire)
    /\ stage' = IF stage = "request" THEN "arrived" ELSE "answered"
    /\ UNCHANGED <<writer, sent, wire, reader>>

(* ResponseSender.send(): the response it makes has no source, so a transport  *)
(* without a remote endpoint refuses it.                                       *)
Respond(code, remote) ==
    LET response == M!Response(received, code, received.payload)
    IN  /\ stage = "arrived" /\ received.message_type = "REQUEST"
        /\ IF M!Target(response, "none", remote) = "none"
           THEN stage' = "unanswered" /\ UNCHANGED wire
           ELSE stage' = "response" /\ wire' = M!to_cpp_message(response)
        /\ UNCHANGED <<writer, sent, received, reader>>

-----------------------------------------------------------------------------
(*                                Reading                                   *)

(* A Deserializer of the first n bytes of the payload. *)
Open(payload, native, n) ==
    /\ stage' = "read"
    /\ reads' = native /\ data' = SubSeq(payload, 1, n)
    /\ sent' = NoMessage /\ wire' = NoMessage /\ received' = NoMessage
    /\ UNCHANGED <<writer, pos, value, failed, got>>

OpenWritten(native, n) == stage = "write" /\ Open(buf, native, n)

OpenReceived == stage = "arrived" /\ Open(received.payload, TRUE, Len(received.payload))

Read ==
    /\ stage = "read" /\ ~failed /\ Len(got) < Len(items)
    /\ LET item == items[Len(got) + 1]
       IN  \/ item.type \in S!Scalars /\ D!ReadScalar(item.type)
           \/ item.type = "bytes" /\ D!ReadBytes
           \/ item.type = "raw" /\ D!ReadBytesRaw(Len(item.value))
           \/ item.type = "string" /\ D!ReadString
    /\ got' = IF failed' THEN got ELSE Append(got, value')
    /\ UNCHANGED <<writer, stage, network>>

Next ==
    \/ \E t \in S!Scalars : \E v \in Values[t] : Write(t, v)
    \/ \E t \in {"bytes", "raw", "string"}, d \in Blobs : Write(t, d)
    \/ Reset
    \/ \E h \in Headers : Send(h)
    \/ Deliver
    \/ \E code \in {"E_OK", "E_NOT_OK"}, remote \in {"none", "peer"} : Respond(code, remote)
    \/ \E native \in BOOLEAN, n \in 0..Len(buf) : OpenWritten(native, n)
    \/ OpenReceived
    \/ Read

Spec == Init /\ [][Next]_vars

-----------------------------------------------------------------------------
(*                               Properties                                 *)

Meant(item) ==
    IF item.type \in S!Scalars THEN S!Meant(item.type, item.value) ELSE item.value

Size(item) ==
    CASE item.type \in S!Scalars -> S!Width[item.type]
      [] item.type = "bytes" -> 4 + Len(item.value)
      [] item.type = "raw" -> Len(item.value)
      [] item.type = "string" -> 4 + Len(item.value) + 1

(* The bytes of the first n values. *)
SizeUpTo(n) == LET size[k \in 0..n] == IF k = 0 THEN 0 ELSE size[k - 1] + Size(items[k])
               IN  size[n]

(* Whatever was accepted is read back, by either implementation whichever one  *)
(* wrote it, and every value ends where the next begins.  A read fails only    *)
(* when the payload ends inside its value, and a payload that ends there never *)
(* yields one (serialization.py, the writes and the reads).                   *)
RoundTrip ==
    stage = "read" =>
        /\ \A k \in DOMAIN got : got[k] = Meant(items[k])
        /\ IF failed THEN Len(data) < SizeUpTo(Len(got) + 1)
                     ELSE pos = SizeUpTo(Len(got)) /\ pos <= Len(data)

(* A digit as a byte with as many bits, spread over the octet. *)
Octet(digit) == {2 * e : e \in {e \in 0..3 : (digit \div 2 ^ e) % 2 = 1}}

(* The checksums e2e.py computes without the native code are the ones it names *)
(* (lines 104-136), and change with every single byte of what was written.     *)
CrcSound ==
    stage = "write" /\ Len(buf) <= MaxChecked =>
        LET bytes == [k \in DOMAIN buf |-> Octet(buf[k])]
        IN  /\ C!crc8(bytes) = C!Reference8(bytes)
            /\ C!crc16(bytes) = C!Reference16(bytes)
            /\ \A k \in DOMAIN bytes : \A other \in {{}, {0}, {7}, 0..7} \ {bytes[k]} :
                  LET changed == [bytes EXCEPT ![k] = other]
                  IN  C!crc8(changed) # C!crc8(bytes) /\ C!crc16(changed) # C!crc16(bytes)

(* A message arrives equal to the one sent, and a response to it with its ids, *)
(* which the combined value stands for (transport.py:53, rpc.py:31,            *)
(* types.py:70).  The response does not take over the request's version of the *)
(* interface, and this does not ask for it.                                    *)
Carried ==
    /\ stage = "arrived" => M!Eq(received, sent)
    /\ stage = "answered" =>
          /\ received.message_type = "RESPONSE"
          /\ M!from_value(M!value(received.message_id)) = sent.message_id
          /\ M!from_value(M!value(received.request_id)) = sent.request_id

=============================================================================
