----------------------------- MODULE MCPayloadPath -----------------------------
(***************************************************************************)
(* Instances of PayloadPath for TLC.                                       *)
(***************************************************************************)
EXTENDS PayloadPath

(* The ends of the ranges of a signed and of an unsigned integer of n values.  *)
Edges(n) == {-(n \div 2) - 1, -(n \div 2), -1, 0, 1, n \div 2 - 1, n \div 2, n - 1, n}

MCValues == [t \in S!Scalars |-> Edges(Base ^ S!Width[t])]

MCBlobs == {<<>>, <<0>>, <<2, 0>>}

(* Every message type and return code, and ids at the ends of their ranges.    *)
MCHeaders ==
    {[message_id |-> [upper |-> 1, lower |-> Half - 1],
      request_id |-> [upper |-> Half - 1, lower |-> 0],
      message_type |-> type, return_code |-> code, interface_version |-> version] :
        type \in DOMAIN M!MessageType, code \in {"E_OK", "E_E2E_NO_NEW_DATA"},
        version \in {0, 255}}

=============================================================================
