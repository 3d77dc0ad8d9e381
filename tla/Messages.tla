------------------------------- MODULE Messages -------------------------------
(***************************************************************************)
(* types.py's ids and enumerations, message.py's Message, and what         *)
(* _bridge.py makes of them on the way to the native types and back.       *)
(***************************************************************************)
EXTENDS Integers

CONSTANT Half   \* values of half an id, 2^16 in the code

(* A MessageId or a RequestId, by its upper and lower half; any other value is *)
(* refused with ValueError.                                                    *)
Id == [upper : 0..(Half - 1), lower : 0..(Half - 1)]

value(id) == id.upper * Half + id.lower

(* Both halves are masked, so every integer is taken.                          *)
from_value(v) == [upper |-> (v \div Half) % Half, lower |-> v % Half]

MessageType ==
    [REQUEST |-> 0, REQUEST_NO_RETURN |-> 1, NOTIFICATION |-> 2, REQUEST_ACK |-> 64,
     RESPONSE |-> 128, ERROR |-> 129, RESPONSE_ACK |-> 192, ERROR_ACK |-> 193,
     TP_REQUEST |-> 32, TP_REQUEST_NO_RETURN |-> 33, TP_NOTIFICATION |-> 34]

ReturnCode ==
    [E_OK |-> 0, E_NOT_OK |-> 1, E_UNKNOWN_SERVICE |-> 2, E_UNKNOWN_METHOD |-> 3,
     E_NOT_READY |-> 4, E_NOT_REACHABLE |-> 5, E_TIMEOUT |-> 6,
     E_WRONG_PROTOCOL_VERSION |-> 7, E_WRONG_INTERFACE_VERSION |-> 8,
     E_MALFORMED_MESSAGE |-> 9, E_WRONG_MESSAGE_TYPE |-> 10, E_E2E_REPEATED |-> 11,
     E_E2E_WRONG_SEQUENCE |-> 12, E_E2E |-> 13, E_E2E_NOT_AVAILABLE |-> 14,
     E_E2E_NO_NEW_DATA |-> 15]

Versions == 0..255

(* The constructor; protocol_version has one value and is left out.            *)
Message(mid, rid, type, code, version, payload) ==
    [message_id |-> mid, request_id |-> rid, message_type |-> type, return_code |-> code,
     interface_version |-> version, payload |-> payload, source_endpoint |-> "none"]

(* __eq__: where a message came from makes no difference.                      *)
Eq(m, n) == \A f \in DOMAIN m \ {"source_endpoint"} : m[f] = n[f]

(* The native message holds the numbers of the enumerations.                   *)
to_cpp_message(m) ==
    [message_id |-> m.message_id, request_id |-> m.request_id,
     message_type |-> MessageType[m.message_type], return_code |-> ReturnCode[m.return_code],
     interface_version |-> m.interface_version, payload |-> m.payload]

Member(enum, n) == CHOOSE name \in DOMAIN enum : enum[name] = n

(* Variants named after what they get wrong stand before the definition they   *)
(* change; only the mutation runs use them.                                    *)
FromCppDefaultVersion(c) ==
    Message(c.message_id, c.request_id, Member(MessageType, c.message_type),
            Member(ReturnCode, c.return_code), 1, c.payload)

from_cpp_message(c) ==
    Message(c.message_id, c.request_id, Member(MessageType, c.message_type),
            Member(ReturnCode, c.return_code), c.interface_version, c.payload)

(* The listener of a transport: a sender that cannot be converted is left out. *)
Received(c) ==
    {[from_cpp_message(c) EXCEPT !.source_endpoint = e] : e \in {"sender", "none"}}

(* The endpoint send() chooses: the given one, the remote one, the source.     *)
Target(m, endpoint, remote) ==
    CASE endpoint # "none" -> endpoint
      [] endpoint = "none" /\ remote # "none" -> remote
      [] OTHER -> m.source_endpoint

(* What ResponseSender makes of the request it was created for.                *)
Response(request, code, payload) ==
    Message(request.message_id, request.request_id, "RESPONSE", code, 1, payload)

=============================================================================
