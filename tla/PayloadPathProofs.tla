--------------------------- MODULE PayloadPathProofs ---------------------------
(***************************************************************************)
(* What a message keeps on its way through the native types, whatever its  *)
(* ids, type, return code and payload, and for every size of an id: it     *)
(* arrives equal to the one sent, and is answered with its ids.  And what  *)
(* a payload keeps from the writes to the reads, for every size of a byte  *)
(* and any number of values: they are read as they were written.  Last,    *)
(* the checksums that are computed in Python, for bytes of any number.     *)
(***************************************************************************)
EXTENDS PayloadPath, SequenceTheorems, FiniteSetTheorems, WellFoundedInduction, TLAPS

(* An id is what its combined value says it is: the two masks of from_value    *)
(* take the value apart where value() put it together.                         *)
LEMMA Halves ==
    ASSUME NEW half \in Nat \ {0}, NEW u \in 0..(half - 1), NEW l \in 0..(half - 1)
    PROVE  ((u * half + l) \div half) % half = u /\ (u * half + l) % half = l
  <1>1. (u * half + l) \div half = u /\ (u * half + l) % half = l
    BY SMT
  <1>2. u % half = u
    BY SMT
  <1> QED BY <1>1, <1>2

LEMMA IdFromValue ==
    ASSUME PayloadAssumption, NEW id \in M!Id
    PROVE  M!from_value(M!value(id)) = id
  <1>1. /\ Half \in Nat \ {0} /\ id.upper \in 0..(Half - 1) /\ id.lower \in 0..(Half - 1)
        /\ id = [upper |-> id.upper, lower |-> id.lower]
    BY DEF PayloadAssumption, M!Id
  <1> QED BY <1>1, Halves DEF M!from_value, M!value

(* No two members of an enumeration have the same number.                      *)
LEMMA TypeNumbers ==
    \A a, b \in DOMAIN M!MessageType : M!MessageType[a] = M!MessageType[b] => a = b
  BY DEF M!MessageType

LEMMA CodeNumbers ==
    \A a, b \in DOMAIN M!ReturnCode : M!ReturnCode[a] = M!ReturnCode[b] => a = b
  BY DEF M!ReturnCode

LEMMA MemberOfNumber ==
    ASSUME NEW enum, NEW name \in DOMAIN enum,
           \A a, b \in DOMAIN enum : enum[a] = enum[b] => a = b
    PROVE  M!Member(enum, enum[name]) = name
  BY DEF M!Member
-----------------------------------------------------------------------------
(* What send() is given: a message made by the constructor, of values of their *)
(* types, with no source.                                                      *)
WellFormed(m) ==
    /\ m = M!Message(m.message_id, m.request_id, m.message_type, m.return_code,
                     m.interface_version, m.payload)
    /\ m.message_id \in M!Id /\ m.request_id \in M!Id
    /\ m.message_type \in DOMAIN M!MessageType
    /\ m.return_code \in DOMAIN M!ReturnCode

(* Only the source can differ after the way there.                             *)
LEMMA ThereAndBack ==
    ASSUME NEW m, WellFormed(m)
    PROVE  M!from_cpp_message(M!to_cpp_message(m)) = m
  <1> DEFINE c == M!to_cpp_message(m)
  <1>1. /\ c.message_id = m.message_id /\ c.request_id = m.request_id
        /\ c.interface_version = m.interface_version /\ c.payload = m.payload
        /\ c.message_type = M!MessageType[m.message_type]
        /\ c.return_code = M!ReturnCode[m.return_code]
    BY DEF M!to_cpp_message
  <1>2. /\ M!Member(M!MessageType, c.message_type) = m.message_type
        /\ M!Member(M!ReturnCode, c.return_code) = m.return_code
    BY <1>1, TypeNumbers, CodeNumbers, MemberOfNumber DEF WellFormed
  <1> HIDE DEF c
  <1> QED BY <1>1, <1>2 DEF WellFormed, M!from_cpp_message, c

LEMMA ReceivedIsSent ==
    ASSUME NEW m, WellFormed(m), NEW r \in M!Received(M!to_cpp_message(m))
    PROVE  /\ r = [m EXCEPT !.source_endpoint = r.source_endpoint]
           /\ M!Eq(r, m)
  <1>1. PICK e \in {"sender", "none"} : r = [m EXCEPT !.source_endpoint = e]
    BY ThereAndBack DEF M!Received
  <1>2. m = M!Message(m.message_id, m.request_id, m.message_type, m.return_code,
                      m.interface_version, m.payload)
    BY DEF WellFormed
  <1>3. /\ r.source_endpoint = e
        /\ DOMAIN r = DOMAIN m
        /\ \A f \in DOMAIN m \ {"source_endpoint"} : r[f] = m[f]
    BY <1>1, <1>2 DEF M!Message
  <1> QED BY <1>1, <1>3 DEF M!Eq

(* A message on the network stands for the one sent, or for a response to it.  *)
Answers(m) ==
    /\ m.message_type = "RESPONSE"
    /\ m.message_id = sent.message_id /\ m.request_id = sent.request_id

PathInv ==
    /\ stage \in {"request", "arrived", "response", "answered"} => WellFormed(sent)
    /\ stage = "request" => wire = M!to_cpp_message(sent)
    /\ stage = "arrived" => received \in M!Received(M!to_cpp_message(sent))
    /\ stage = "response" =>
          \E code \in {"E_OK", "E_NOT_OK"} :
             wire = M!to_cpp_message(M!Response(sent, code, sent.payload))
    /\ stage = "answered" => Answers(received)

(* The response to a message that is well formed is so too.                    *)
LEMMA ResponseWellFormed ==
    ASSUME NEW m, WellFormed(m), NEW code \in {"E_OK", "E_NOT_OK"}
    PROVE  /\ WellFormed(M!Response(m, code, m.payload))
           /\ M!Response(m, code, m.payload).message_type = "RESPONSE"
           /\ M!Response(m, code, m.payload).message_id = m.message_id
           /\ M!Response(m, code, m.payload).request_id = m.request_id
  <1>1. "RESPONSE" \in DOMAIN M!MessageType /\ code \in DOMAIN M!ReturnCode
    BY DEF M!MessageType, M!ReturnCode
  <1> QED BY <1>1 DEF WellFormed, M!Response, M!Message

LEMMA SendStep ==
    ASSUME PayloadAssumption, NEW h \in Headers, Send(h)
    PROVE  PathInv'
  <1>1. /\ h.message_id \in M!Id /\ h.request_id \in M!Id
        /\ h.message_type \in DOMAIN M!MessageType
        /\ h.return_code \in DOMAIN M!ReturnCode
    BY DEF PayloadAssumption
  <1>2. /\ sent' = M!Message(h.message_id, h.request_id, h.message_type, h.return_code,
                             h.interface_version, buf)
        /\ wire' = M!to_cpp_message(sent') /\ stage' = "request"
    BY DEF Send
  <1>3. WellFormed(sent')
    BY <1>1, <1>2 DEF WellFormed, M!Message
  <1> QED BY <1>2, <1>3 DEF PathInv

LEMMA DeliverStep ==
    ASSUME PathInv, Deliver
    PROVE  PathInv'
  <1>1. sent' = sent /\ received' \in M!Received(wire) /\ stage \in {"request", "response"}
    BY DEF Deliver
  <1>2. WellFormed(sent)
    BY <1>1 DEF PathInv
  <1>3. CASE stage = "request"
    BY <1>1, <1>2, <1>3 DEF Deliver, PathInv
  <1>4. CASE stage = "response"
    <2>1. PICK code \in {"E_OK", "E_NOT_OK"} :
             wire = M!to_cpp_message(M!Response(sent, code, sent.payload))
      BY <1>4 DEF PathInv
    <2> DEFINE r == M!Response(sent, code, sent.payload)
    <2>2. /\ WellFormed(r) /\ r.message_type = "RESPONSE"
          /\ r.message_id = sent.message_id /\ r.request_id = sent.request_id
      BY <1>2, ResponseWellFormed
    <2>3. {"message_id", "request_id", "message_type"} \subseteq DOMAIN r
      BY DEF M!Response, M!Message
    <2> HIDE DEF r
    <2>4. M!Eq(received', r)
      BY <1>1, <2>1, <2>2, ReceivedIsSent DEF r
    <2>5. DOMAIN received' = DOMAIN r
      BY <1>1, <2>1, <2>2, ReceivedIsSent DEF r
    <2>6. Answers(received)'
      BY <1>1, <2>2, <2>3, <2>4, <2>5 DEF Answers, M!Eq
    <2>7. stage' = "answered"
      BY <1>4 DEF Deliver
    <2> QED BY <1>1, <1>2, <2>6, <2>7 DEF PathInv
  <1> QED BY <1>1, <1>3, <1>4

LEMMA RespondStep ==
    ASSUME PathInv, NEW code \in {"E_OK", "E_NOT_OK"}, NEW remote, Respond(code, remote)
    PROVE  PathInv'
  <1>1. /\ stage = "arrived" /\ sent' = sent
        /\ \/ stage' = "unanswered"
           \/ /\ stage' = "response"
              /\ wire' = M!to_cpp_message(M!Response(received, code, received.payload))
    BY DEF Respond
  <1>2. WellFormed(sent) /\ received \in M!Received(M!to_cpp_message(sent))
    BY <1>1 DEF PathInv
  <1>3. M!Response(received, code, received.payload) = M!Response(sent, code, sent.payload)
    <2>1. received = [sent EXCEPT !.source_endpoint = received.source_endpoint]
      BY <1>2, ReceivedIsSent
    <2>2. /\ received.message_id = sent.message_id /\ received.request_id = sent.request_id
          /\ received.payload = sent.payload
      BY <1>2, <2>1 DEF WellFormed, M!Message
    <2> QED BY <2>2 DEF M!Response
  <1> QED BY <1>1, <1>2, <1>3 DEF PathInv

LEMMA PathInductive == Spec => []PathInv
  <1>1. Init => PathInv
    BY DEF Init, PathInv
  <1>2. PathInv /\ [Next]_vars => PathInv'
    <2> SUFFICES ASSUME PathInv, [Next]_vars PROVE PathInv'
      OBVIOUS
    <2>1. ASSUME NEW h \in Headers, Send(h) PROVE PathInv'
      BY <2>1, SendStep, PayloadAssumption
    <2>2. CASE Deliver
      BY <2>2, DeliverStep
    <2>3. ASSUME NEW code \in {"E_OK", "E_NOT_OK"}, NEW remote \in {"none", "peer"},
                 Respond(code, remote)
          PROVE  PathInv'
      BY <2>3, RespondStep
    <2>4. ASSUME NEW t, NEW v, Write(t, v) PROVE PathInv'
      BY <2>4 DEF Write, PathInv
    <2>5. CASE Reset
      BY <2>5 DEF Reset, PathInv
    <2>6. ASSUME NEW native \in BOOLEAN, NEW n \in 0..Len(buf), OpenWritten(native, n)
          PROVE  PathInv'
      BY <2>6 DEF OpenWritten, Open, PathInv
    <2>7. CASE OpenReceived
      BY <2>7 DEF OpenReceived, Open, PathInv
    <2>8. CASE Read
      BY <2>8 DEF Read, PathInv
    <2>9. CASE UNCHANGED vars
      BY <2>9 DEF vars, network, PathInv, Answers
    <2> QED BY <2>1, <2>2, <2>3, <2>4, <2>5, <2>6, <2>7, <2>8, <2>9 DEF Next
  <1> QED BY <1>1, <1>2, PTL DEF Spec

(***************************************************************************)
(* Through to_cpp_message and from_cpp_message (transport.py:53) a message *)
(* arrives equal to the one sent, and what a ResponseSender makes of it    *)
(* (rpc.py:31) arrives as a response with its ids, which the combined      *)
(* value of types.py:70 stands for.                                        *)
(***************************************************************************)
THEOREM MessageCarried == Spec => []Carried
  <1>1. PathInv => Carried
    <2> SUFFICES ASSUME PathInv PROVE Carried
      OBVIOUS
    <2>1. CASE stage = "arrived"
      BY <2>1, ReceivedIsSent DEF PathInv, Carried
    <2>2. CASE stage = "answered"
      <3>1. Answers(received) /\ sent.message_id \in M!Id /\ sent.request_id \in M!Id
        BY <2>2 DEF PathInv, WellFormed
      <3>2. /\ M!from_value(M!value(sent.message_id)) = sent.message_id
            /\ M!from_value(M!value(sent.request_id)) = sent.request_id
        BY <3>1, IdFromValue, PayloadAssumption
      <3> QED BY <2>2, <3>1, <3>2 DEF Answers, Carried
    <2> QED BY <2>1, <2>2 DEF Carried
  <1> QED BY <1>1, PathInductive, PTL
-----------------------------------------------------------------------------
(* A set of naturals that holds 0 and every successor holds them all: what the *)
(* induction theorems say of an operator, said of a set.                       *)
LEMMA SetInduction ==
    ASSUME NEW T, T \subseteq Nat, 0 \in T, \A n \in T : n + 1 \in T
    PROVE  Nat \subseteq T
  <1> DEFINE Below(k) == {i \in Nat : i < k}
             Family == {Below(k) : k \in Nat \ T}
  <1> SUFFICES ASSUME Family # {} PROVE FALSE
    OBVIOUS
  <1>1. \A k \in Nat : IsFiniteSet(Below(k)) /\ Below(k) \subseteq Nat
    <2> TAKE k \in Nat
    <2>1. IsFiniteSet(0..k)
      BY FS_Interval
    <2>2. Below(k) \subseteq 0..k
      OBVIOUS
    <2> QED BY <2>1, <2>2, FS_Subset
  <1>2. Family \subseteq FiniteSubsetsOf(Nat)
    BY <1>1 DEF FiniteSubsetsOf
  <1>3. PICK k \in Nat \ T :
             \A y \in Family : <<y, Below(k)>> \notin StrictSubsetOrdering(Nat)
    <2>1. \E x \in Family : \A y \in Family : <<y, x>> \notin StrictSubsetOrdering(Nat)
      BY <1>2, FS_StrictSubsetOrderingWellFounded, WFMin
    <2> QED BY <2>1
  <1>4. k - 1 \in Nat \ T
    <2>1. k # 0
      OBVIOUS
    <2>2. k - 1 \in Nat /\ (k - 1) + 1 = k
      BY <2>1
    <2> QED BY <2>2
  <1>5. Below(k - 1) \subseteq Below(k) /\ k - 1 \in Below(k) /\ k - 1 \notin Below(k - 1)
    BY <1>4
  <1>6. <<Below(k - 1), Below(k)>> \in StrictSubsetOrdering(Nat)
    BY <1>1, <1>4, <1>5 DEF StrictSubsetOrdering
  <1> QED BY <1>3, <1>4, <1>6

(* The steps of a recursion over the naturals determine one function.          *)
Follows(f, n, z, step) == f[0] = z /\ \A k \in 0..(n - 1) : f[k + 1] = step[k][f[k]]

LEMMA OneResult ==
    ASSUME NEW z, NEW step, NEW f, NEW g, NEW n \in Nat,
           Follows(f, n, z, step), Follows(g, n, z, step)
    PROVE  \A k \in 0..n : f[k] = g[k]
  <1> DEFINE T == {k \in Nat : k <= n => f[k] = g[k]}
  <1>1. 0 \in T
    BY DEF Follows
  <1>2. ASSUME NEW k \in T PROVE k + 1 \in T
    <2> SUFFICES ASSUME k + 1 <= n PROVE f[k + 1] = g[k + 1]
      OBVIOUS
    <2>1. k \in 0..(n - 1) /\ f[k] = g[k]
      OBVIOUS
    <2> QED BY <2>1 DEF Follows
  <1>3. Nat \subseteq T
    <2> HIDE DEF T
    <2> QED BY <1>1, <1>2, SetInduction DEF T
  <1> QED BY <1>3

Iterates(f, A, z, step) ==
    /\ f \in [Nat -> A] /\ f[0] = z
    /\ \A k \in Nat : f[k + 1] = step[k][f[k]]

LEMMA Recursion ==
    ASSUME NEW A, NEW z \in A, NEW step \in [Nat -> [A -> A]]
    PROVE  \E f : Iterates(f, A, z, step)
  <1> DEFINE Starts(n) == {f \in [Nat -> A] : Follows(f, n, z, step)}
             T == {n \in Nat : Starts(n) # {}}
  <1>1. 0 \in T
    <2>1. [k \in Nat |-> z] \in Starts(0)
      BY DEF Follows
    <2> QED BY <2>1
  <1>2. ASSUME NEW n \in T PROVE n + 1 \in T
    <2>1. PICK f \in [Nat -> A] : Follows(f, n, z, step)
      OBVIOUS
    <2> DEFINE g == [f EXCEPT ![n + 1] = step[n][f[n]]]
    <2>2. g \in [Nat -> A] /\ g[n + 1] = step[n][f[n]] /\ \A k \in 0..n : g[k] = f[k]
      OBVIOUS
    <2>3. Follows(g, n + 1, z, step)
      <3> HIDE DEF g
      <3>1. g[0] = z
        BY <2>1, <2>2 DEF Follows
      <3>2. ASSUME NEW k \in 0..n PROVE g[k + 1] = step[k][g[k]]
        <4>1. CASE k = n
          BY <4>1, <2>2
        <4>2. CASE k # n
          <5>1. k \in 0..(n - 1) /\ k + 1 \in 0..n
            BY <4>2
          <5> QED BY <5>1, <2>1, <2>2 DEF Follows
        <4> QED BY <4>1, <4>2
      <3> QED BY <3>1, <3>2 DEF Follows
    <2>4. g \in Starts(n + 1)
      <3> HIDE DEF g
      <3> QED BY <2>2, <2>3
    <2> HIDE DEF g, Starts
    <2> QED BY <2>4
  <1>3. \A n \in Nat : Starts(n) # {}
    <2>1. Nat \subseteq T
      <3>1. T \subseteq Nat
        OBVIOUS
      <3> HIDE DEF T
      <3> QED BY <1>1, <1>2, <3>1, SetInduction
    <2> QED BY <2>1
  <1> DEFINE upto == [n \in Nat |-> CHOOSE f \in Starts(n) : TRUE]
             whole == [n \in Nat |-> upto[n][n]]
  <1>4. \A n \in Nat : upto[n] \in Starts(n)
    BY <1>3
  <1>5. whole \in [Nat -> A]
    BY <1>4
  <1>6. whole[0] = z
    BY <1>4 DEF Follows
  <1>7. ASSUME NEW k \in Nat PROVE whole[k + 1] = step[k][whole[k]]
    <2>1. upto[k] \in Starts(k) /\ upto[k + 1] \in Starts(k + 1)
      BY <1>4
    <2> HIDE DEF upto
    <2>2. Follows(upto[k], k, z, step) /\ Follows(upto[k + 1], k, z, step)
      BY <2>1 DEF Follows
    <2>3. upto[k + 1][k] = upto[k][k]
      BY <2>2, OneResult
    <2>4. upto[k + 1][k + 1] = step[k][upto[k + 1][k]]
      BY <2>1 DEF Follows
    <2> QED BY <2>3, <2>4
  <1> HIDE DEF whole
  <1>8. Iterates(whole, A, z, step)
    BY <1>5, <1>6, <1>7 DEF Iterates
  <1> QED BY <1>8

(***************************************************************************)
(* The digits of an integer.                                               *)
(***************************************************************************)
LEMMA Division ==
    ASSUME NEW b \in Nat \ {0}, NEW v \in Int
    PROVE  /\ v \div b \in Int /\ v % b \in 0..(b - 1)
           /\ v = b * (v \div b) + (v % b)
  BY SMT

LEMMA Divided ==
    ASSUME NEW b \in Nat \ {0}, NEW q \in Int, NEW r \in 0..(b - 1)
    PROVE  (b * q + r) \div b = q /\ (b * q + r) % b = r
  BY SMT

LEMMA DivideTwice ==
    ASSUME NEW b \in Nat \ {0}, NEW p \in Nat \ {0}, NEW v \in Int
    PROVE  v \div (b * p) = (v \div p) \div b
  <1> DEFINE x == v \div p
             r == v % p
             q == x \div b
             s == x % b
  <1>1. x \in Int /\ r \in 0..(p - 1) /\ v = p * x + r
    BY Division
  <1>2. q \in Int /\ s \in 0..(b - 1) /\ x = b * q + s
    BY <1>1, Division
  <1> HIDE DEF x, r, q, s
  <1>3. b * p \in Nat \ {0}
    BY SMT
  <1>4. p * s + r \in 0..(b * p - 1)
    <2>1. p * s >= 0 /\ p * s <= p * (b - 1)
      BY <1>2, SMT
    <2>2. p * (b - 1) = b * p - p
      BY SMT
    <2> QED BY <1>1, <1>2, <2>1, <2>2, SMT
  <1>5. v = (b * p) * q + (p * s + r)
    <2>1. p * (b * q + s) = (b * p) * q + p * s
      BY <1>2, SMT
    <2> QED BY <1>1, <1>2, <2>1
  <1>6. v \div (b * p) = q
    BY <1>2, <1>3, <1>4, <1>5, Divided
  <1> QED BY <1>6 DEF q, x

LEMMA LastDigit ==
    ASSUME NEW b \in Nat \ {0}, NEW p \in Nat \ {0}, NEW v \in Int
    PROVE  v % (b * p) = ((v \div b) % p) * b + (v % b)
  <1> DEFINE x == v \div b
             r == v % b
             q == x \div p
             s == x % p
  <1>1. x \in Int /\ r \in 0..(b - 1) /\ v = b * x + r
    BY Division
  <1>2. q \in Int /\ s \in 0..(p - 1) /\ x = p * q + s
    BY <1>1, Division
  <1> HIDE DEF x, r, q, s
  <1>3. b * p \in Nat \ {0}
    BY SMT
  <1>4. b * s + r \in 0..(b * p - 1)
    <2>1. b * s >= 0 /\ b * s <= b * (p - 1)
      BY <1>2, SMT
    <2>2. b * (p - 1) = b * p - b
      BY SMT
    <2> QED BY <1>1, <1>2, <2>1, <2>2, SMT
  <1>5. v = (b * p) * q + (b * s + r)
    <2>1. b * (p * q + s) = (b * p) * q + b * s
      BY <1>2, SMT
    <2> QED BY <1>1, <1>2, <2>1
  <1>6. v % (b * p) = b * s + r
    BY <1>2, <1>3, <1>4, <1>5, Divided
  <1>7. b * s = s * b
    BY <1>2
  <1>8. v % (b * p) = s * b + r
    BY <1>6, <1>7
  <1>9. s = (v \div b) % p
    BY DEF s, x
  <1>10. r = v % b
    BY DEF r
  <1> QED BY <1>8, <1>9, <1>10, Zenon

LEMMA Product ==
    ASSUME NEW a \in Nat \ {0}, NEW b \in Nat \ {0}
    PROVE  a * b \in Nat \ {0}
  BY SMT

LEMMA Powers ==
    ASSUME PayloadAssumption
    PROVE  /\ S!Power \in [Nat -> Nat \ {0}]
           /\ S!Power[0] = 1
           /\ \A n \in Nat : S!Power[n + 1] = Base * S!Power[n]
  <1> DEFINE Pos == Nat \ {0}
             times == [x \in Pos |-> Base * x]
             step == [n \in Nat |-> times]
             IsPower(f) == f = [n \in Nat |-> IF n = 0 THEN 1 ELSE Base * f[n - 1]]
  <1>0. Base \in Pos /\ 1 \in Pos
    BY DEF PayloadAssumption
  <1>1. times \in [Pos -> Pos]
    BY <1>0, Product
  <1>2. PICK f \in [Nat -> Pos] : f[0] = 1 /\ \A k \in Nat : f[k + 1] = times[f[k]]
    <2> HIDE DEF Pos, times
    <2>1. step \in [Nat -> [Pos -> Pos]]
      BY <1>1
    <2>0. \A k \in Nat : step[k] = times
      OBVIOUS
    <2> HIDE DEF step
    <2>2. PICK f : Iterates(f, Pos, 1, step)
      BY <1>0, <2>1, Recursion
    <2> QED BY <2>0, <2>2 DEF Iterates
  <1>3. \A k \in Nat : f[k + 1] = Base * f[k]
    <2> TAKE k \in Nat
    <2>1. f[k] \in Pos /\ f[k + 1] = times[f[k]]
      BY <1>2
    <2> QED BY <2>1
  <1>4. IsPower(f)
    <2>1. \A k \in Nat : k # 0 => k - 1 \in Nat /\ (k - 1) + 1 = k
      OBVIOUS
    <2>2. \A k \in Nat : f[k] = IF k = 0 THEN 1 ELSE Base * f[k - 1]
      BY <1>2, <1>3, <2>1, Zenon
    <2> QED BY <2>2, <1>2
  <1>5. S!Power = CHOOSE g : IsPower(g)
    BY DEF S!Power
  <1>6. IsPower(S!Power)
    <2> HIDE DEF IsPower
    <2> QED BY <1>4, <1>5
  <1> DEFINE P == S!Power
  <1> HIDE DEF P
  <1>7. P = [n \in Nat |-> IF n = 0 THEN 1 ELSE Base * P[n - 1]]
    BY <1>6 DEF P
  <1>8. P[0] = 1
    BY <1>7
  <1>9. \A n \in Nat : P[n + 1] = Base * P[n]
    <2> TAKE n \in Nat
    <2>1. n + 1 \in Nat /\ n + 1 # 0 /\ (n + 1) - 1 = n
      OBVIOUS
    <2>2. P[n + 1] = IF n + 1 = 0 THEN 1 ELSE Base * P[(n + 1) - 1]
      BY <1>7, <2>1
    <2> QED BY <2>1, <2>2, Zenon
  <1> DEFINE T == {n \in Nat : P[n] \in Pos}
  <1>10. Nat \subseteq T
    <2>1. 0 \in T
      BY <1>8
    <2>2. ASSUME NEW n \in T PROVE n + 1 \in T
      <3>1. n \in Nat /\ P[n] \in Pos
        OBVIOUS
      <3>2. Base * P[n] \in Pos
        BY <3>1, <1>0, Product, Zenon
      <3>3. P[n + 1] = Base * P[n]
        BY <3>1, <1>9, Zenon
      <3>4. P[n + 1] \in Pos
        BY <3>2, <3>3, Zenon
      <3>5. n + 1 \in Nat
        BY <3>1
      <3> HIDE DEF Pos
      <3> QED BY <3>4, <3>5
    <2>3. T \subseteq Nat
      OBVIOUS
    <2> HIDE DEF T
    <2> QED BY <2>1, <2>2, <2>3, SetInduction
  <1>11. P \in [Nat -> Pos]
    <2> HIDE DEF Pos
    <2> QED BY <1>7, <1>10
  <1> QED BY <1>8, <1>9, <1>11 DEF P

(***************************************************************************)
(* Reading the bytes of an integer gives it back, reduced to their number. *)
(***************************************************************************)
Sums(sum, d) ==
    /\ sum \in [0..Len(d) -> Int] /\ sum[0] = 0
    /\ \A k \in 1..Len(d) : sum[k] = sum[k - 1] * Base + d[k]

LEMMA UnsignedSums ==
    ASSUME PayloadAssumption, NEW d \in Seq(Int)
    PROVE  \E sum : Sums(sum, d) /\ D!Unsigned(d) = sum[Len(d)]
  <1> DEFINE N == Len(d)
             Add(x, k) == x * Base + d[k]
             IsSum(f) == f = [k \in 0..N |-> IF k = 0 THEN 0 ELSE f[k - 1] * Base + d[k]]
             step == [k \in Nat |-> [x \in Int |-> IF k < N THEN Add(x, k + 1) ELSE x]]
             sum == CHOOSE f : IsSum(f)
  <1>1. N \in Nat /\ Base \in Nat /\ \A k \in 1..N : d[k] \in Int
    BY DEF PayloadAssumption
  <1> HIDE DEF N
  <1>2. \A x \in Int, k \in 1..N : Add(x, k) \in Int
    BY <1>1
  <1>3. step \in [Nat -> [Int -> Int]]
    <2> HIDE DEF Add
    <2>1. \A k \in Nat : k < N => k + 1 \in 1..N
      BY <1>1
    <2> QED BY <1>2, <2>1
  <1>4. PICK f : Iterates(f, Int, 0, step)
    <2>1. 0 \in Int
      OBVIOUS
    <2> HIDE DEF step
    <2> QED BY <1>3, <2>1, Recursion, Zenon
  <1>5. \A k \in 1..N : f[k - 1] \in Int /\ f[k] = Add(f[k - 1], k)
    <2> TAKE k \in 1..N
    <2>1. k - 1 \in Nat /\ k - 1 < N /\ (k - 1) + 1 = k
      BY <1>1
    <2>2. f[k - 1] \in Int /\ f[(k - 1) + 1] = step[k - 1][f[k - 1]]
      BY <1>4, <2>1, Zenon DEF Iterates
    <2> HIDE DEF Add
    <2>3. step[k - 1][f[k - 1]] = Add(f[k - 1], (k - 1) + 1)
      BY <2>1, <2>2
    <2> HIDE DEF step
    <2> QED BY <2>1, <2>2, <2>3, Zenon
  <1>6. IsSum([k \in 0..N |-> f[k]])
    <2> DEFINE g == [k \in 0..N |-> f[k]]
    <2>1. \A k \in 1..N : k \in 0..N /\ k - 1 \in 0..N /\ k # 0
      BY <1>1
    <2>2. \A k \in 0..N : k = 0 \/ k \in 1..N
      BY <1>1
    <2>3. f[0] = 0 /\ 0 \in 0..N
      BY <1>1, <1>4 DEF Iterates
    <2>4. ASSUME NEW k \in 0..N
          PROVE  g[k] = IF k = 0 THEN 0 ELSE g[k - 1] * Base + d[k]
      <3>1. CASE k = 0
        BY <2>3, <3>1, Zenon
      <3>2. CASE k # 0
        <4>1. k \in 1..N
          BY <2>2, <3>2
        <4>2. g[k] = f[k] /\ g[k - 1] = f[k - 1]
          BY <2>1, <4>1
        <4>3. f[k] = Add(f[k - 1], k)
          BY <1>5, <4>1
        <4> QED BY <3>2, <4>2, <4>3, Zenon
      <3> QED BY <3>1, <3>2
    <2> QED BY <2>4, Zenon
  <1>7. IsSum(sum)
    <2> HIDE DEF IsSum
    <2> QED BY <1>6
  <1>8. D!Unsigned(d) = sum[N]
    BY DEF D!Unsigned, N
  <1> HIDE DEF sum
  <1>9. sum[0] = 0 /\ \A k \in 1..N : sum[k] = Add(sum[k - 1], k)
    <2>1. \A k \in 0..N : sum[k] = IF k = 0 THEN 0 ELSE sum[k - 1] * Base + d[k]
      BY <1>7, Zenon
    <2>2. 0 \in 0..N /\ \A k \in 1..N : k \in 0..N /\ k # 0
      BY <1>1
    <2> QED BY <2>1, <2>2, Zenon
  <1> DEFINE T == {k \in Nat : k <= N => sum[k] \in Int}
  <1>10. Nat \subseteq T
    <2>1. 0 \in T
      BY <1>9
    <2>2. ASSUME NEW k \in T PROVE k + 1 \in T
      <3> SUFFICES ASSUME k + 1 <= N PROVE sum[k + 1] \in Int
        OBVIOUS
      <3>1. sum[k] \in Int /\ k + 1 \in 1..N /\ (k + 1) - 1 = k
        BY <1>1
      <3>2. Add(sum[k], k + 1) \in Int
        BY <3>1, <1>2, Zenon
      <3> HIDE DEF Add
      <3> QED BY <3>1, <3>2, <1>9
    <2>3. T \subseteq Nat
      OBVIOUS
    <2> HIDE DEF T
    <2> QED BY <2>1, <2>2, <2>3, SetInduction
  <1>11. sum \in [0..N -> Int]
    <2>1. \A k \in 0..N : sum[k] \in Int
      BY <1>1, <1>10
    <2> QED BY <2>1, <1>7
  <1>12. Sums(sum, d)
    BY <1>9, <1>11, Zenon DEF Sums, N
  <1> QED BY <1>8, <1>12 DEF N

LEMMA BytesAre ==
    ASSUME PayloadAssumption, NEW v \in Int, NEW n \in Nat
    PROVE  /\ S!Bytes(v, n) \in Seq(0..(Base - 1))
           /\ Len(S!Bytes(v, n)) = n
           /\ \A k \in 1..n : S!Bytes(v, n)[k] = (v \div S!Power[n - k]) % Base
  <1>1. \A k \in 1..n : (v \div S!Power[n - k]) % Base \in 0..(Base - 1)
    <2> TAKE k \in 1..n
    <2>1. n - k \in Nat
      OBVIOUS
    <2>2. S!Power[n - k] \in Nat \ {0} /\ Base \in Nat \ {0}
      BY <2>1, Powers DEF PayloadAssumption
    <2> QED BY <2>2, Division
  <1> QED BY <1>1 DEF S!Bytes

LEMMA UnsignedBytes ==
    ASSUME PayloadAssumption, NEW v \in Int, NEW n \in Nat
    PROVE  D!Unsigned(S!Bytes(v, n)) = v % S!Power[n]
  <1> DEFINE d == S!Bytes(v, n)
             P(k) == S!Power[k]
  <1>1. d \in Seq(Int) /\ Len(d) = n /\ \A k \in 1..n : d[k] = (v \div P(n - k)) % Base
    <2>1. d \in Seq(0..(Base - 1))
      BY BytesAre
    <2>2. 0..(Base - 1) \subseteq Int
      BY DEF PayloadAssumption
    <2>3. d \in Seq(Int)
      <3> HIDE DEF d
      <3> QED BY <2>1, <2>2
    <2> QED BY <2>3, BytesAre
  <1> HIDE DEF d
  <1>2. PICK sum : Sums(sum, d) /\ D!Unsigned(d) = sum[n]
    BY <1>1, UnsignedSums
  <1>3. /\ Base \in Nat \ {0} /\ P(0) = 1
        /\ \A k \in Nat : P(k) \in Nat \ {0} /\ P(k + 1) = Base * P(k)
    BY Powers DEF PayloadAssumption
  <1> HIDE DEF P
  <1> DEFINE T == {k \in Nat : k <= n => sum[k] = (v \div P(n - k)) % P(k)}
  <1>4. 0 \in T
    <2>1. P(n - 0) \in Nat \ {0} /\ sum[0] = 0
      BY <1>1, <1>2, <1>3 DEF Sums
    <2>2. v \div P(n - 0) \in Int
      BY <2>1, Division
    <2>3. (v \div P(n - 0)) % 1 \in 0..(1 - 1)
      <3>1. 1 \in Nat \ {0}
        OBVIOUS
      <3> QED BY <2>2, <3>1, Division
    <2>4. sum[0] = (v \div P(n - 0)) % P(0)
      BY <2>1, <2>3, <1>3
    <2> QED BY <2>4
  <1>5. ASSUME NEW k \in T PROVE k + 1 \in T
    <2> SUFFICES ASSUME k + 1 <= n
                 PROVE  sum[k + 1] = (v \div P(n - (k + 1))) % P(k + 1)
      OBVIOUS
    <2> DEFINE w == v \div P(n - (k + 1))
    <2>1. /\ k \in Nat /\ k + 1 \in 1..n /\ (k + 1) - 1 = k
          /\ n - (k + 1) \in Nat /\ n - k = (n - (k + 1)) + 1
      OBVIOUS
    <2>2. sum[k] = (v \div P(n - k)) % P(k)
      BY <2>1
    <2>3. sum[k + 1] = sum[k] * Base + d[k + 1]
      BY <1>1, <1>2, <2>1 DEF Sums
    <2>4. P(n - (k + 1)) \in Nat \ {0} /\ P(k) \in Nat \ {0}
      BY <1>3, <2>1
    <2>5. w \in Int
      BY <2>4, Division
    <2>6. v \div P(n - k) = w \div Base
      <3>1. P(n - k) = Base * P(n - (k + 1))
        BY <1>3, <2>1
      <3> QED BY <3>1, <2>4, <1>3, DivideTwice, Zenon
    <2>7. d[k + 1] = w % Base
      BY <1>1, <2>1
    <2>8. w % (Base * P(k)) = ((w \div Base) % P(k)) * Base + (w % Base)
      <3> HIDE DEF w
      <3> QED BY <2>4, <2>5, <1>3, LastDigit, Zenon
    <2>9. P(k + 1) = Base * P(k)
      BY <1>3, <2>1
    <2> HIDE DEF w
    <2>10. sum[k + 1] = w % P(k + 1)
      BY <2>2, <2>3, <2>6, <2>7, <2>8, <2>9, Zenon
    <2> QED BY <2>10 DEF w
  <1>6. n \in T
    <2>1. T \subseteq Nat
      OBVIOUS
    <2> HIDE DEF T
    <2> QED BY <1>4, <1>5, <2>1, SetInduction
  <1>7. sum[n] = (v \div P(0)) % P(n)
    <2>1. n - n = 0 /\ n <= n
      OBVIOUS
    <2>2. sum[n] = (v \div P(n - n)) % P(n)
      BY <1>6, <2>1
    <2> QED BY <2>1, <2>2
  <1>8. v \div 1 = v
    OBVIOUS
  <1> QED BY <1>2, <1>3, <1>7, <1>8 DEF d, P

(* What a write has accepted, whichever implementation was asked.              *)
Fits(t, v) == t \in {"bool", "uint8"} \/ S!InRange(t, v)

LEMMA Widths ==
    /\ \A t \in S!Scalars : S!Width[t] \in Nat \ {0}
    /\ S!Width["bool"] = 1 /\ S!Width["uint8"] = 1 /\ S!Width["uint32"] = 4
    /\ D!Prefix = 4 /\ "uint32" \in S!Scalars
    /\ "bool" \notin S!Signed /\ "uint8" \notin S!Signed /\ "uint32" \notin S!Signed
    /\ D!S!Width = S!Width /\ D!S!Signed = S!Signed
  BY DEF S!Scalars, S!Width, D!S!Width, S!Signed, D!S!Signed, D!Prefix

LEMMA SamePowers == D!S!Power = S!Power
  BY DEF D!S!Power, S!Power

LEMMA Remainders ==
    ASSUME NEW n \in Nat \ {0}, NEW v \in Int
    PROVE  /\ v >= 0 /\ v < n => v % n = v
           /\ v < 0 /\ v + n >= 0 => v % n = v + n
           /\ v % n \in 0..(n - 1)
  <1>1. ASSUME v >= 0, v < n PROVE v % n = v
    <2>1. v \in 0..(n - 1) /\ n * 0 + v = v
      BY <1>1
    <2> QED BY <2>1, Divided
  <1>2. ASSUME v < 0, v + n >= 0 PROVE v % n = v + n
    <2>1. v + n \in 0..(n - 1) /\ n * (-1) + (v + n) = v
      BY <1>2
    <2> QED BY <2>1, Divided
  <1> QED BY <1>1, <1>2, Division

LEMMA ScalarBack ==
    ASSUME PayloadAssumption, NEW t \in S!Scalars, NEW v \in Int, Fits(t, v)
    PROVE  /\ S!Scalar(t, v) \in Seq(Int) /\ Len(S!Scalar(t, v)) = S!Width[t]
           /\ D!Scalar(t, S!Scalar(t, v)) = S!Meant(t, v)
  <1> DEFINE n == S!Width[t]
             N == S!Power[n]
             d == S!Scalar(t, v)
             u == D!Unsigned(d)
  <1>1. n \in Nat \ {0} /\ N \in Nat \ {0} /\ Base \in Nat \ {0, 1}
    BY Widths, Powers DEF PayloadAssumption
  <1>2. CASE t = "bool"
    <2> DEFINE b == IF v = 0 THEN 0 ELSE 1
    <2>1. d = <<b>> /\ n = 1 /\ b \in Int
      BY <1>2, Widths DEF S!Scalar
    <2>2. d \in Seq(Int) /\ Len(d) = 1 /\ d[1] = b
      <3> HIDE DEF d, b
      <3> QED BY <2>1
    <2>3. u = b
      <3> HIDE DEF d, b
      <3>1. PICK sum : Sums(sum, d) /\ u = sum[1]
        BY <2>2, UnsignedSums
      <3>2. sum[1] = sum[1 - 1] * Base + d[1] /\ sum[0] = 0
        BY <2>2, <3>1 DEF Sums
      <3>3. 1 - 1 = 0 /\ 0 * Base + b = b
        BY <1>1, <2>1
      <3> QED BY <3>1, <3>2, <3>3, <2>2
    <2>4. D!Scalar(t, d) = IF u = 0 THEN 0 ELSE 1
      BY <1>2, Widths, Zenon DEF D!Scalar
    <2>5. S!Meant(t, v) = b
      BY <1>2 DEF S!Meant
    <2>6. b \in {0, 1}
      OBVIOUS
    <2> HIDE DEF d, b, u
    <2> QED BY <2>1, <2>2, <2>3, <2>4, <2>5, <2>6 DEF d
  <1>3. CASE t # "bool"
    <2>1. d = S!Bytes(v, n)
      BY <1>3 DEF S!Scalar
    <2>2. d \in Seq(Int) /\ Len(d) = n
      <3>1. d \in Seq(0..(Base - 1)) /\ Len(d) = n
        BY <1>1, <2>1, BytesAre
      <3>2. 0..(Base - 1) \subseteq Int
        BY <1>1
      <3> HIDE DEF d, n
      <3> QED BY <3>1, <3>2
    <2>3. u = v % N
      BY <1>1, <2>1, UnsignedBytes, Zenon
    <2>4. u \in 0..(N - 1)
      BY <1>1, <2>3, Division
    <2>5. CASE t \in S!Signed
      <3>1. t # "bool" /\ t # "uint8"
        BY <2>5, Widths
      <3>2. -N <= 2 * v /\ 2 * v < N
        BY <2>5, <3>1 DEF Fits, S!InRange
      <3>3. D!S!InRange(t, u) <=> -N <= 2 * u /\ 2 * u < N
        BY <2>5, Widths, SamePowers DEF D!S!InRange
      <3>4. D!Scalar(t, d) = IF D!S!InRange(t, u) THEN u ELSE u - N
        <4>1. D!S!Power[Len(d)] = N
          BY <2>2, SamePowers
        <4> QED BY <2>5, <3>1, <4>1, Widths, Zenon DEF D!Scalar
      <3>5. S!Meant(t, v) = v
        BY <3>1 DEF S!Meant
      <3> HIDE DEF u, N, n, d
      <3>6. IF v >= 0 THEN u = v ELSE u = v + N
        <4>1. v < N /\ v + N >= 0
          BY <1>1, <3>2
        <4>2. v >= 0 => v % N = v
          BY <1>1, <4>1, Remainders
        <4>3. v < 0 => v % N = v + N
          BY <1>1, <4>1, Remainders
        <4>4. v >= 0 \/ v < 0
          OBVIOUS
        <4> QED BY <2>3, <4>2, <4>3, <4>4, Zenon
      <3>7. D!Scalar(t, d) = v
        <4>1. CASE v >= 0
          BY <1>1, <3>2, <3>3, <3>4, <3>6, <4>1
        <4>2. CASE v < 0
          <5>1. ~(2 * u < N)
            BY <1>1, <3>2, <3>6, <4>2
          <5>2. D!Scalar(t, d) = (v + N) - N
            BY <3>3, <3>4, <3>6, <4>2, <5>1
          <5> QED BY <1>1, <5>2
        <4> QED BY <4>1, <4>2
      <3> QED BY <2>2, <3>5, <3>7 DEF d, n
    <2>6. CASE t \notin S!Signed
      <3>1. D!Scalar(t, d) = u
        BY <1>3, <2>6, Widths, Zenon DEF D!Scalar
      <3>2. CASE t = "uint8"
        <4>1. n = 1 /\ S!Power[1] = Base
          <5>1. S!Power[0 + 1] = Base * S!Power[0] /\ S!Power[0] = 1
            BY Powers
          <5> QED BY <1>1, <3>2, <5>1, Widths
        <4>2. S!Meant(t, v) = v % Base
          BY <3>2 DEF S!Meant
        <4> QED BY <2>2, <2>3, <3>1, <4>1, <4>2
      <3>3. CASE t # "uint8"
        <4>1. 0 <= v /\ v < N
          BY <1>3, <2>6, <3>3 DEF Fits, S!InRange
        <4>2. v % N = v
          <5> HIDE DEF N
          <5> QED BY <1>1, <4>1, Remainders
        <4>3. S!Meant(t, v) = v
          BY <1>3, <3>3 DEF S!Meant
        <4> QED BY <2>2, <2>3, <3>1, <4>2, <4>3
      <3> QED BY <3>2, <3>3
    <2> QED BY <2>5, <2>6
  <1> QED BY <1>2, <1>3

(* A length that was accepted is read back as it was.                          *)
LEMMA LengthBack ==
    ASSUME PayloadAssumption, NEW k \in Nat, S!InRange("uint32", k)
    PROVE  /\ S!Bytes(k, 4) \in Seq(Int) /\ Len(S!Bytes(k, 4)) = 4
           /\ D!Unsigned(S!Bytes(k, 4)) = k
  <1> DEFINE N == S!Power[4]
             d == S!Bytes(k, 4)
  <1>0. k \in Int /\ 4 \in Nat
    OBVIOUS
  <1>1. N \in Nat \ {0}
    BY Powers
  <1>2. k >= 0 /\ k < N
    BY Widths DEF S!InRange
  <1>3. k % N = k
    <2> HIDE DEF N
    <2> QED BY <1>0, <1>1, <1>2, Remainders, Zenon
  <1>4. d \in Seq(0..(Base - 1)) /\ Len(d) = 4
    BY <1>0, BytesAre, Zenon
  <1>5. 0..(Base - 1) \subseteq Int
    BY DEF PayloadAssumption
  <1>6. d \in Seq(Int)
    <2> HIDE DEF d
    <2> QED BY <1>4, <1>5
  <1>7. D!Unsigned(d) = k % N
    BY <1>0, UnsignedBytes, Zenon
  <1> QED BY <1>3, <1>4, <1>6, <1>7, Zenon

(***************************************************************************)
(* Where the values of a payload begin and end.                            *)
(***************************************************************************)
Offset(s, n) == LET size[k \in 0..n] == IF k = 0 THEN 0 ELSE size[k - 1] + Size(s[k])
                IN  size[n]

LEMMA OffsetOf == \A n : SizeUpTo(n) = Offset(items, n)
  BY DEF SizeUpTo, Offset

Sized(s, N) == \A k \in 1..N : Size(s[k]) \in Nat

Adds(f, s, N) ==
    /\ f[0] = 0
    /\ \A k \in 1..N : f[k - 1] \in Nat /\ f[k] = f[k - 1] + Size(s[k])

LEMMA OffsetsExist ==
    ASSUME NEW N \in Nat, NEW s, Sized(s, N)
    PROVE  \E f \in [Nat -> Nat] : Adds(f, s, N)
  <1> DEFINE step == [k \in Nat |-> [x \in Nat |-> IF k < N THEN x + Size(s[k + 1]) ELSE x]]
  <1>1. step \in [Nat -> [Nat -> Nat]]
    <2>1. \A k \in Nat : k < N => Size(s[k + 1]) \in Nat
      <3>1. \A k \in Nat : k < N => k + 1 \in 1..N
        OBVIOUS
      <3> QED BY <3>1 DEF Sized
    <2>2. \A k \in Nat, x \in Nat : (IF k < N THEN x + Size(s[k + 1]) ELSE x) \in Nat
      BY <2>1
    <2> QED BY <2>2
  <1>2. PICK f : Iterates(f, Nat, 0, step)
    <2>1. 0 \in Nat
      OBVIOUS
    <2> HIDE DEF step
    <2> QED BY <1>1, <2>1, Recursion, Zenon
  <1>3. f \in [Nat -> Nat] /\ f[0] = 0
    BY <1>2 DEF Iterates
  <1>4. ASSUME NEW k \in 1..N PROVE f[k - 1] \in Nat /\ f[k] = f[k - 1] + Size(s[k])
    <2>1. k - 1 \in Nat /\ k - 1 < N /\ (k - 1) + 1 = k
      OBVIOUS
    <2>2. f[k - 1] \in Nat
      BY <1>3, <2>1
    <2>3. f[(k - 1) + 1] = step[k - 1][f[k - 1]]
      BY <1>2, <2>1, Zenon DEF Iterates
    <2>4. step[k - 1][f[k - 1]] = f[k - 1] + Size(s[(k - 1) + 1])
      BY <2>1, <2>2
    <2> HIDE DEF step
    <2> QED BY <2>1, <2>2, <2>3, <2>4, Zenon
  <1> QED BY <1>3, <1>4 DEF Adds

LEMMA OffsetsAdd ==
    ASSUME NEW N \in Nat, NEW s, NEW f \in [Nat -> Nat], Adds(f, s, N), NEW n \in 0..N
    PROVE  Offset(s, n) = f[n]
  <1> DEFINE IsSize(g) == g = [k \in 0..n |-> IF k = 0 THEN 0 ELSE g[k - 1] + Size(s[k])]
             size == CHOOSE g : IsSize(g)
  <1>0. n \in Nat /\ \A k \in 1..n : k \in 1..N /\ k \in 0..n /\ k - 1 \in 0..n /\ k # 0
    OBVIOUS
  <1>1. IsSize([k \in 0..n |-> f[k]])
    <2> DEFINE g == [k \in 0..n |-> f[k]]
    <2>1. ASSUME NEW k \in 0..n PROVE g[k] = IF k = 0 THEN 0 ELSE g[k - 1] + Size(s[k])
      <3>1. CASE k = 0
        BY <3>1 DEF Adds
      <3>2. CASE k # 0
        <4>1. k \in 1..n
          BY <3>2
        <4>2. g[k] = f[k] /\ g[k - 1] = f[k - 1]
          BY <1>0, <4>1
        <4>3. f[k] = f[k - 1] + Size(s[k])
          BY <1>0, <4>1 DEF Adds
        <4> QED BY <3>2, <4>2, <4>3, Zenon
      <3> QED BY <3>1, <3>2
    <2> QED BY <2>1, Zenon
  <1>2. IsSize(size)
    <2> HIDE DEF IsSize
    <2> QED BY <1>1
  <1>3. Offset(s, n) = size[n]
    BY DEF Offset
  <1> HIDE DEF size
  <1>4. \A k \in 0..n : size[k] = IF k = 0 THEN 0 ELSE size[k - 1] + Size(s[k])
    BY <1>2, Zenon
  <1> DEFINE T == {k \in Nat : k <= n => size[k] = f[k]}
  <1>5. 0 \in T
    <2>1. 0 \in 0..n
      OBVIOUS
    <2> QED BY <1>4, <2>1 DEF Adds
  <1>6. ASSUME NEW k \in T PROVE k + 1 \in T
    <2> SUFFICES ASSUME k + 1 <= n PROVE size[k + 1] = f[k + 1]
      OBVIOUS
    <2>1. size[k] = f[k] /\ k + 1 \in 1..n /\ k + 1 # 0 /\ (k + 1) - 1 = k
      OBVIOUS
    <2>2. size[k + 1] = size[(k + 1) - 1] + Size(s[k + 1])
      BY <1>0, <1>4, <2>1, Zenon
    <2>3. f[k + 1] = f[(k + 1) - 1] + Size(s[k + 1])
      BY <1>0, <2>1, Zenon DEF Adds
    <2> QED BY <2>1, <2>2, <2>3, Zenon
  <1>7. n \in T
    <2>1. T \subseteq Nat
      OBVIOUS
    <2> HIDE DEF T
    <2> QED BY <1>0, <1>5, <1>6, <2>1, SetInduction
  <1> QED BY <1>3, <1>7

(* The offset of a value is a natural and the next begins where it ends.       *)
LEMMA Offsets ==
    ASSUME NEW N \in Nat, NEW s, Sized(s, N)
    PROVE  /\ Offset(s, 0) = 0
           /\ \A n \in 0..N : Offset(s, n) \in Nat
           /\ \A n \in 1..N : Offset(s, n) = Offset(s, n - 1) + Size(s[n])
  <1>1. PICK f \in [Nat -> Nat] : Adds(f, s, N)
    BY OffsetsExist
  <1>2. \A n \in 0..N : Offset(s, n) = f[n]
    BY <1>1, OffsetsAdd
  <1>3. 0 \in 0..N /\ \A n \in 1..N : n \in 0..N /\ n - 1 \in 0..N
    OBVIOUS
  <1>4. \A n \in 1..N : f[n] = f[n - 1] + Size(s[n])
    BY <1>1 DEF Adds
  <1> QED BY <1>1, <1>2, <1>3, <1>4 DEF Adds

(* What follows a value does not move it.                                      *)
LEMMA OffsetsStay ==
    ASSUME NEW N \in Nat, NEW s, NEW r, Sized(s, N), \A k \in 1..N : r[k] = s[k]
    PROVE  \A n \in 0..N : Offset(r, n) = Offset(s, n)
  <1>1. PICK f \in [Nat -> Nat] : Adds(f, s, N)
    BY OffsetsExist
  <1>2. Adds(f, r, N)
    BY <1>1 DEF Adds
  <1> QED BY <1>1, <1>2, OffsetsAdd

(***************************************************************************)
(* The bytes of a value that was accepted.                                 *)
(***************************************************************************)
Kinds == S!Scalars \cup {"bytes", "raw", "string"}

Things == [type : Kinds, value : Int \cup Seq(Int)]

Sound(item) ==
    /\ item \in Things
    /\ item.type \in S!Scalars => item.value \in Int /\ Fits(item.type, item.value)
    /\ item.type \notin S!Scalars => item.value \in Seq(Int)
    /\ item.type = "bytes" => S!InRange("uint32", Len(item.value))
    /\ item.type = "string" => S!InRange("uint32", Len(item.value) + 1)

Code(item) ==
    CASE item.type \in S!Scalars -> S!Scalar(item.type, item.value)
      [] item.type = "bytes" -> S!Blob(item.value)
      [] item.type = "raw" -> item.value
      [] item.type = "string" -> S!Text(item.value)

LEMMA Apart == "bytes" \notin S!Scalars /\ "raw" \notin S!Scalars /\ "string" \notin S!Scalars
  BY DEF S!Scalars, S!Width

LEMMA Joined ==
    ASSUME NEW s \in Seq(Int), NEW t \in Seq(Int)
    PROVE  /\ s \o t \in Seq(Int) /\ Len(s \o t) = Len(s) + Len(t)
           /\ \A i \in 1..Len(s) : (s \o t)[i] = s[i]
           /\ \A i \in 1..Len(t) : (s \o t)[Len(s) + i] = t[i]
  <1>1. /\ s \o t \in Seq(Int) /\ Len(s \o t) = Len(s) + Len(t)
        /\ \A i \in 1..(Len(s) + Len(t)) :
              (s \o t)[i] = IF i <= Len(s) THEN s[i] ELSE t[i - Len(s)]
    BY ConcatProperties
  <1>2. Len(s) \in Nat /\ Len(t) \in Nat
    OBVIOUS
  <1>3. \A i \in 1..Len(s) : i \in 1..(Len(s) + Len(t)) /\ i <= Len(s)
    BY <1>2
  <1>4. \A i \in 1..Len(t) : /\ Len(s) + i \in 1..(Len(s) + Len(t)) /\ ~(Len(s) + i <= Len(s))
                            /\ (Len(s) + i) - Len(s) = i
    BY <1>2
  <1> QED BY <1>1, <1>3, <1>4, Zenon

LEMMA BlobIs ==
    ASSUME PayloadAssumption, NEW d \in Seq(Int), S!InRange("uint32", Len(d))
    PROVE  /\ S!Blob(d) \in Seq(Int) /\ Len(S!Blob(d)) = 4 + Len(d)
           /\ \A j \in 1..4 : S!Blob(d)[j] = S!Bytes(Len(d), 4)[j]
           /\ \A j \in 1..Len(d) : S!Blob(d)[4 + j] = d[j]
  <1> DEFINE b == S!Bytes(Len(d), 4)
  <1>1. b \in Seq(Int) /\ Len(b) = 4 /\ Len(d) \in Nat
    <2>1. Len(d) \in Nat
      OBVIOUS
    <2> QED BY <2>1, LengthBack
  <1>2. S!Blob(d) = b \o d
    BY Widths DEF S!Blob
  <1> HIDE DEF b
  <1>3. /\ b \o d \in Seq(Int) /\ Len(b \o d) = 4 + Len(d)
        /\ \A j \in 1..4 : (b \o d)[j] = b[j]
        /\ \A j \in 1..Len(d) : (b \o d)[4 + j] = d[j]
    <2>1. /\ b \o d \in Seq(Int) /\ Len(b \o d) = Len(b) + Len(d)
          /\ \A j \in 1..Len(b) : (b \o d)[j] = b[j]
          /\ \A j \in 1..Len(d) : (b \o d)[Len(b) + j] = d[j]
      BY <1>1, Joined, Zenon
    <2> QED BY <1>1, <2>1, Zenon
  <1> QED BY <1>2, <1>3 DEF b

LEMMA CodeSized ==
    ASSUME PayloadAssumption, NEW item, Sound(item)
    PROVE  Code(item) \in Seq(Int) /\ Len(Code(item)) = Size(item) /\ Size(item) \in Nat
  <1>1. CASE item.type \in S!Scalars
    <2>1. Code(item) = S!Scalar(item.type, item.value) /\ Size(item) = S!Width[item.type]
      BY <1>1, Apart, Zenon DEF Code, Size
    <2> QED BY <1>1, <2>1, Widths, ScalarBack DEF Sound
  <1>2. CASE item.type = "bytes"
    <2>1. Code(item) = S!Blob(item.value) /\ Size(item) = 4 + Len(item.value)
      BY <1>2, Apart DEF Code, Size
    <2>2. item.value \in Seq(Int) /\ S!InRange("uint32", Len(item.value))
      BY <1>2, Apart DEF Sound
    <2> QED BY <2>1, <2>2, BlobIs
  <1>3. CASE item.type = "raw"
    <2>1. Code(item) = item.value /\ Size(item) = Len(item.value)
      BY <1>3, Apart DEF Code, Size
    <2> QED BY <1>3, <2>1, Apart DEF Sound
  <1>4. CASE item.type = "string"
    <2> DEFINE d == Append(item.value, 0)
    <2>1. Code(item) = S!Blob(d) /\ Size(item) = 4 + Len(item.value) + 1
      BY <1>4, Apart DEF Code, Size, S!Text
    <2>2. item.value \in Seq(Int) /\ S!InRange("uint32", Len(item.value) + 1)
      BY <1>4, Apart DEF Sound
    <2>3. d \in Seq(Int) /\ Len(d) = Len(item.value) + 1 /\ Len(item.value) \in Nat
      BY <2>2
    <2> HIDE DEF d
    <2> QED BY <2>1, <2>2, <2>3, BlobIs
  <1> QED BY <1>1, <1>2, <1>3, <1>4 DEF Sound, Things, Kinds

(***************************************************************************)
(* What was written lies in the buffer, value after value.                 *)
(***************************************************************************)
Laid(b, s) ==
    /\ s \in Seq(Things) /\ b \in Seq(Int)
    /\ \A k \in 1..Len(s) : Sound(s[k])
    /\ Len(b) = Offset(s, Len(s))
    /\ \A k \in 1..Len(s) :
          /\ Offset(s, k) <= Len(b)
          /\ \A j \in 1..Size(s[k]) : b[Offset(s, k - 1) + j] = Code(s[k])[j]

LEMMA SoundSized ==
    ASSUME PayloadAssumption, NEW s, NEW N \in Nat, \A k \in 1..N : Sound(s[k])
    PROVE  Sized(s, N)
  BY CodeSized DEF Sized

LEMMA LaidAppend ==
    ASSUME PayloadAssumption, NEW b, NEW s, Laid(b, s), NEW e, Sound(e)
    PROVE  Laid(b \o Code(e), Append(s, e))
  <1> DEFINE r == Append(s, e)
             c == Code(e)
             a == b \o c
             n == Len(s)
  <1>1. /\ s \in Seq(Things) /\ e \in Things /\ n \in Nat
        /\ r \in Seq(Things) /\ Len(r) = n + 1 /\ r[n + 1] = e
        /\ \A k \in 1..n : r[k] = s[k]
    <2>1. s \in Seq(Things) /\ e \in Things
      BY DEF Laid, Sound
    <2> QED BY <2>1, AppendProperties
  <1>2. c \in Seq(Int) /\ Len(c) = Size(e) /\ Size(e) \in Nat
    BY CodeSized
  <1>3. b \in Seq(Int) /\ Len(b) \in Nat /\ Len(b) = Offset(s, n)
    BY DEF Laid
  <1>4. /\ a \in Seq(Int) /\ Len(a) = Len(b) + Size(e)
        /\ \A i \in 1..Len(b) : a[i] = b[i]
        /\ \A i \in 1..Size(e) : a[Len(b) + i] = c[i]
    <2> HIDE DEF c
    <2>1. /\ a \in Seq(Int) /\ Len(a) = Len(b) + Len(c)
          /\ \A i \in 1..Len(b) : a[i] = b[i]
          /\ \A i \in 1..Len(c) : a[Len(b) + i] = c[i]
      BY <1>2, <1>3, Joined, Zenon
    <2> QED BY <1>2, <2>1, Zenon
  <1>5. \A k \in 1..(n + 1) : k \in 1..n \/ k = n + 1
    BY <1>1
  <1> HIDE DEF r, c, a, n
  <1>6. \A k \in 1..(n + 1) : Sound(r[k])
    BY <1>1, <1>5, Zenon DEF Laid, n
  <1>7. Sized(s, n) /\ Sized(r, n + 1)
    <2>1. Sized(s, n)
      BY <1>1, SoundSized DEF Laid, n
    <2>2. n + 1 \in Nat
      BY <1>1
    <2> QED BY <1>6, <2>1, <2>2, SoundSized
  <1>8. \A k \in 0..n : Offset(r, k) = Offset(s, k) /\ Offset(s, k) \in Nat
    <2>1. \A k \in 0..n : Offset(r, k) = Offset(s, k)
      <3>1. n \in Nat /\ Sized(s, n) /\ \A k \in 1..n : r[k] = s[k]
        BY <1>1, <1>7
      <3> QED BY <3>1, OffsetsStay
    <2>2. \A k \in 0..n : Offset(s, k) \in Nat
      <3>1. n \in Nat /\ Sized(s, n)
        BY <1>1, <1>7
      <3> QED BY <3>1, Offsets
    <2> QED BY <2>1, <2>2
  <1>9. Offset(r, n + 1) = Len(a)
    <2>1. n + 1 \in 1..(n + 1) /\ (n + 1) - 1 = n /\ n \in 0..n /\ n + 1 \in Nat
      BY <1>1
    <2>2. Offset(r, n + 1) = Offset(r, (n + 1) - 1) + Size(r[n + 1])
      BY <1>7, <2>1, Offsets, Zenon
    <2> QED BY <1>1, <1>3, <1>4, <1>8, <2>1, <2>2, Zenon
  <1>10. ASSUME NEW k \in 1..n
         PROVE  /\ Offset(r, k) <= Len(a)
                /\ \A j \in 1..Size(r[k]) : a[Offset(r, k - 1) + j] = Code(r[k])[j]
    <2>1. k \in 0..n /\ k - 1 \in 0..n /\ k \in Nat
      BY <1>1
    <2>2. /\ r[k] = s[k] /\ Offset(r, k) = Offset(s, k) /\ Offset(r, k - 1) = Offset(s, k - 1)
          /\ Offset(s, k) \in Nat /\ Offset(s, k - 1) \in Nat /\ Size(s[k]) \in Nat
      <3>1. r[k] = s[k] /\ Size(s[k]) \in Nat
        BY <1>1, <1>7, Zenon DEF Sized
      <3> QED BY <3>1, <1>8, <2>1, Zenon
    <2>3. /\ Offset(s, k) <= Len(b) /\ Offset(s, k) = Offset(s, k - 1) + Size(s[k])
          /\ \A j \in 1..Size(s[k]) : b[Offset(s, k - 1) + j] = Code(s[k])[j]
      <3>1. n \in Nat /\ Sized(s, n)
        BY <1>1, <1>7
      <3>2. Offset(s, k) = Offset(s, k - 1) + Size(s[k])
        BY <3>1, Offsets
      <3> QED BY <3>2, Zenon DEF Laid, n
    <2>4. \A j \in 1..Size(s[k]) : Offset(s, k - 1) + j \in 1..Len(b)
      BY <1>3, <2>2, <2>3
    <2>5. Offset(s, k) <= Len(a)
      BY <1>2, <1>3, <1>4, <2>2, <2>3
    <2>6. \A j \in 1..Size(s[k]) : a[Offset(s, k - 1) + j] = Code(s[k])[j]
      BY <1>4, <2>3, <2>4, Zenon
    <2> QED BY <2>2, <2>5, <2>6, Zenon
  <1>11. /\ Offset(r, n + 1) <= Len(a)
         /\ \A j \in 1..Size(r[n + 1]) : a[Offset(r, (n + 1) - 1) + j] = Code(r[n + 1])[j]
    <2>1. (n + 1) - 1 = n /\ n \in 0..n
      BY <1>1
    <2>2. Offset(r, n) = Len(b)
      BY <1>3, <1>8, <2>1, Zenon
    <2>3. Len(a) <= Len(a)
      BY <1>2, <1>3, <1>4
    <2> QED BY <1>1, <1>4, <1>9, <2>1, <2>2, <2>3, Zenon DEF c
  <1>12. \A k \in 1..Len(r) : /\ Offset(r, k) <= Len(a)
                              /\ \A j \in 1..Size(r[k]) : a[Offset(r, k - 1) + j] = Code(r[k])[j]
    BY <1>1, <1>5, <1>10, <1>11, Zenon
  <1>13. Len(a) = Offset(r, Len(r)) /\ \A k \in 1..Len(r) : Sound(r[k])
    BY <1>1, <1>6, <1>9, Zenon
  <1>14. Laid(a, r)
    BY <1>1, <1>4, <1>12, <1>13, Zenon DEF Laid
  <1> QED BY <1>14 DEF a, r, c

LEMMA LaidEmpty == Laid(<<>>, <<>>)
  <1>1. Sized(<<>>, 0)
    BY DEF Sized
  <1>2. Offset(<<>>, 0) = 0
    BY <1>1, Offsets
  <1> QED BY <1>2 DEF Laid

LEMMA WriteScalarLays ==
    ASSUME PayloadAssumption, Laid(buf, items), NEW t \in S!Scalars, NEW v \in Values[t],
           Write(t, v)
    PROVE  Laid(buf, items)'
  <1> DEFINE e == [type |-> t, value |-> v]
  <1>1. v \in Int
    BY DEF PayloadAssumption
  <1>2. S!Accepts(t, v) /\ buf' = buf \o S!Scalar(t, v) /\ items' = Append(items, e)
    BY Apart DEF Write, S!WriteScalar
  <1>3. Sound(e)
    <2>1. Fits(t, v)
      BY <1>2 DEF S!Accepts, Fits
    <2>2. e \in Things
      BY <1>1 DEF Things, Kinds
    <2> QED BY <1>1, <2>1, <2>2, Apart DEF Sound
  <1>4. Code(e) = S!Scalar(t, v)
    BY Apart DEF Code
  <1> HIDE DEF e
  <1> QED BY <1>2, <1>3, <1>4, LaidAppend

LEMMA WriteBlobLays ==
    ASSUME PayloadAssumption, Laid(buf, items), NEW t \in {"bytes", "raw", "string"},
           NEW d \in Blobs, Write(t, d)
    PROVE  Laid(buf, items)'
  <1> DEFINE e == [type |-> t, value |-> d]
  <1>1. d \in Seq(Int) /\ Len(d) \in Nat
    <2>1. d \in Seq(0..(Base - 1)) /\ 0..(Base - 1) \subseteq Int
      BY DEF PayloadAssumption
    <2> QED BY <2>1
  <1>2. items' = Append(items, e) /\ t \notin S!Scalars
    BY Apart DEF Write
  <1>3. /\ buf' = buf \o Code(e)
        /\ t = "bytes" => S!InRange("uint32", Len(d))
        /\ t = "string" => S!InRange("uint32", Len(d) + 1)
    <2>1. CASE t = "bytes"
      <3>1. S!WriteBytes(d)
        BY <2>1, Apart DEF Write
      <3> QED BY <2>1, <3>1, Apart DEF S!WriteBytes, S!Counts, Code
    <2>2. CASE t = "raw"
      <3>1. S!WriteBytesRaw(d)
        BY <2>2, Apart DEF Write
      <3> QED BY <2>2, <3>1, Apart DEF S!WriteBytesRaw, Code
    <2>3. CASE t = "string"
      <3>1. S!WriteString(d)
        BY <2>3, Apart DEF Write
      <3>2. Len(Append(d, 0)) = Len(d) + 1
        BY <1>1
      <3> QED BY <2>3, <3>1, <3>2, Apart DEF S!WriteString, S!Counts, Code
    <2> QED BY <2>1, <2>2, <2>3
  <1>4. Sound(e)
    <2>1. e \in Things
      BY <1>1 DEF Things, Kinds
    <2> QED BY <1>1, <1>2, <1>3, <2>1 DEF Sound
  <1> HIDE DEF e
  <1> QED BY <1>2, <1>3, <1>4, LaidAppend

(***************************************************************************)
(* What lies at the position is what a read returns.                       *)
(***************************************************************************)
LEMMA SliceIs ==
    ASSUME data \in Seq(Int), NEW from \in Nat, NEW c \in Seq(Int), from + Len(c) <= Len(data),
           \A j \in 1..Len(c) : data[from + j] = c[j]
    PROVE  D!Slice(from, Len(c)) = c
  <1> DEFINE n == Len(c)
             s == SubSeq(data, from + 1, from + n)
  <1>1. n \in Nat /\ Len(data) \in Nat
    OBVIOUS
  <1> HIDE DEF n
  <1>2. \A i \in (from + 1)..(from + n) : data[i] \in Int
    <2>1. \A i \in (from + 1)..(from + n) : i \in 1..Len(data)
      BY <1>1 DEF n
    <2> QED BY <2>1
  <1>3. /\ s \in Seq(Int)
        /\ Len(s) = IF from + 1 <= from + n THEN (from + n) - (from + 1) + 1 ELSE 0
        /\ \A i \in 1..((from + n) - (from + 1) + 1) : s[i] = data[(from + 1) + i - 1]
    <2>1. from + 1 \in Int /\ from + n \in Int
      BY <1>1
    <2> HIDE DEF s
    <2> QED BY <1>2, <2>1, SubSeqProperties DEF s
  <1> HIDE DEF s
  <1>4. /\ (from + n) - (from + 1) + 1 = n
        /\ \A i \in 1..n : (from + 1) + i - 1 = from + i
    BY <1>1
  <1>5. Len(s) = n
    BY <1>1, <1>3
  <1>6. \A i \in 1..n : s[i] = data[from + i]
    BY <1>3, <1>4, Zenon
  <1>7. \A i \in 1..n : s[i] = c[i]
    BY <1>6 DEF n
  <1>8. s = c
    BY <1>3, <1>5, <1>7, SeqEqual DEF n
  <1> QED BY <1>8 DEF D!Slice, s, n

Ahead(c) == \A j \in 1..Len(c) : pos + j <= Len(data) => data[pos + j] = c[j]

(* A read ends at the end of its value with what was meant, or the payload     *)
(* ends before the value does.                                                 *)
Ends(size, v) ==
    /\ data' = data
    /\ \/ failed' = FALSE /\ pos' = pos + size /\ pos + size <= Len(data) /\ value' = v
       \/ failed' = TRUE /\ Len(data) < pos + size

At == data \in Seq(Int) /\ pos \in 0..Len(data)

LEMMA Remaining ==
    ASSUME At, NEW n \in Nat
    PROVE  /\ n <= D!remaining <=> pos + n <= Len(data)
           /\ n > D!remaining <=> Len(data) < pos + n
  BY DEF At, D!remaining

LEMMA AheadSlice ==
    ASSUME At, NEW c \in Seq(Int), Ahead(c), pos + Len(c) <= Len(data)
    PROVE  D!Slice(pos, Len(c)) = c
  <1>1. pos \in Nat /\ Len(c) \in Nat /\ Len(data) \in Nat
    BY DEF At
  <1>2. \A j \in 1..Len(c) : data[pos + j] = c[j]
    <2> TAKE j \in 1..Len(c)
    <2>1. pos + j <= Len(data)
      BY <1>1
    <2> QED BY <2>1 DEF Ahead
  <1> QED BY <1>1, <1>2, SliceIs DEF At

LEMMA ScalarReads ==
    ASSUME PayloadAssumption, At, NEW item, Sound(item), item.type \in S!Scalars,
           Ahead(Code(item)), D!ReadScalar(item.type)
    PROVE  Ends(Size(item), Meant(item))
  <1> DEFINE c == Code(item)
             t == item.type
             n == S!Width[t]
  <1>1. c = S!Scalar(t, item.value) /\ Size(item) = n /\ Meant(item) = S!Meant(t, item.value)
    BY Apart, Zenon DEF Code, Size, Meant
  <1>2. /\ n \in Nat /\ c \in Seq(Int) /\ Len(c) = n
        /\ D!Scalar(t, c) = Meant(item)
    <2>1. item.value \in Int /\ Fits(t, item.value) /\ n \in Nat
      BY Widths DEF Sound
    <2>2. /\ S!Scalar(t, item.value) \in Seq(Int) /\ Len(S!Scalar(t, item.value)) = n
          /\ D!Scalar(t, S!Scalar(t, item.value)) = S!Meant(t, item.value)
      BY <2>1, ScalarBack
    <2> HIDE DEF c, n, t
    <2> QED BY <1>1, <2>1, <2>2
  <1>3. /\ data' = data
        /\ \/ n <= D!remaining /\ D!Returns(D!Scalar(t, D!Slice(pos, n)), n)
           \/ n > D!remaining /\ failed' = TRUE
    BY Widths DEF D!ReadScalar, D!unwrap, D!Raises
  <1> HIDE DEF c, n, t
  <1>4. CASE n <= D!remaining /\ D!Returns(D!Scalar(t, D!Slice(pos, n)), n)
    <2>1. pos + n <= Len(data)
      BY <1>2, <1>4, Remaining
    <2>2. D!Slice(pos, n) = c
      BY <1>2, <2>1, AheadSlice DEF c
    <2> QED BY <1>1, <1>2, <1>3, <1>4, <2>1, <2>2 DEF D!Returns, Ends
  <1>5. CASE n > D!remaining /\ failed' = TRUE
    <2>1. Len(data) < pos + n
      BY <1>2, <1>5, Remaining
    <2> QED BY <1>1, <1>3, <1>5, <2>1 DEF Ends
  <1> QED BY <1>3, <1>4, <1>5

LEMMA RawReads ==
    ASSUME At, NEW d \in Seq(Int), Ahead(d), D!ReadBytesRaw(Len(d))
    PROVE  Ends(Len(d), d)
  <1>1. Len(d) \in Nat
    OBVIOUS
  <1>2. /\ data' = data
        /\ \/ Len(d) <= D!remaining /\ D!Returns(D!Slice(pos, Len(d)), Len(d))
           \/ Len(d) > D!remaining /\ failed' = TRUE
    BY DEF D!ReadBytesRaw, D!Raises
  <1>3. CASE Len(d) <= D!remaining /\ D!Returns(D!Slice(pos, Len(d)), Len(d))
    <2>1. pos + Len(d) <= Len(data)
      BY <1>1, <1>3, Remaining
    <2>2. D!Slice(pos, Len(d)) = d
      BY <2>1, AheadSlice
    <2> QED BY <1>2, <1>3, <2>1, <2>2 DEF D!Returns, Ends
  <1>4. CASE Len(d) > D!remaining /\ failed' = TRUE
    <2>1. Len(data) < pos + Len(d)
      BY <1>1, <1>4, Remaining
    <2> QED BY <1>2, <1>4, <2>1 DEF Ends
  <1> QED BY <1>2, <1>3, <1>4

(* A length and as many bytes.                                                 *)
LEMMA BlobAhead ==
    ASSUME PayloadAssumption, At, NEW d \in Seq(Int), S!InRange("uint32", Len(d)),
           Ahead(S!Blob(d))
    PROVE  /\ pos + 4 <= Len(data) => D!Unsigned(D!Slice(pos, 4)) = Len(d)
           /\ pos + 4 + Len(d) <= Len(data) => D!Slice(pos + 4, Len(d)) = d
  <1> DEFINE b == S!Bytes(Len(d), 4)
  <1>1. /\ Len(d) \in Nat /\ pos \in Nat /\ Len(data) \in Nat
        /\ Len(S!Blob(d)) = 4 + Len(d)
        /\ \A j \in 1..4 : S!Blob(d)[j] = b[j]
        /\ \A j \in 1..Len(d) : S!Blob(d)[4 + j] = d[j]
    BY BlobIs DEF At
  <1>2. b \in Seq(Int) /\ Len(b) = 4 /\ D!Unsigned(b) = Len(d)
    BY <1>1, LengthBack
  <1> HIDE DEF b
  <1>3. \A j \in 1..4 : pos + j <= Len(data) => data[pos + j] = b[j]
    <2> TAKE j \in 1..4
    <2>1. j \in 1..Len(S!Blob(d))
      BY <1>1
    <2> QED BY <1>1, <2>1 DEF Ahead
  <1>4. ASSUME pos + 4 <= Len(data) PROVE D!Unsigned(D!Slice(pos, 4)) = Len(d)
    <2>1. Ahead(b)
      BY <1>2, <1>3 DEF Ahead
    <2>2. D!Slice(pos, Len(b)) = b
      BY <1>2, <1>4, <2>1, AheadSlice
    <2> QED BY <1>2, <2>2
  <1>5. ASSUME pos + 4 + Len(d) <= Len(data) PROVE D!Slice(pos + 4, Len(d)) = d
    <2>1. \A j \in 1..Len(d) : data[(pos + 4) + j] = d[j]
      <3> TAKE j \in 1..Len(d)
      <3>0. j \in Nat /\ j >= 1 /\ j <= Len(d)
        BY <1>1
      <3>1. 4 + j \in 1..Len(S!Blob(d)) /\ pos + (4 + j) <= Len(data)
            /\ pos + (4 + j) = (pos + 4) + j
        BY <1>1, <1>5, <3>0
      <3>2. data[pos + (4 + j)] = S!Blob(d)[4 + j]
        BY <3>1 DEF Ahead
      <3> QED BY <1>1, <3>1, <3>2
    <2>2. pos + 4 \in Nat /\ (pos + 4) + Len(d) <= Len(data)
      BY <1>1, <1>5
    <2> QED BY <2>1, <2>2, SliceIs DEF At
  <1> QED BY <1>4, <1>5

LEMMA BytesReads ==
    ASSUME PayloadAssumption, At, NEW d \in Seq(Int), S!InRange("uint32", Len(d)),
           Ahead(S!Blob(d)), D!ReadBytes
    PROVE  Ends(4 + Len(d), d)
  <1> DEFINE n == D!Unsigned(D!Slice(pos, 4))
  <1>1. /\ data' = data
        /\ \/ 4 > D!remaining /\ failed' = TRUE
           \/ 4 <= D!remaining /\ 4 + n > D!remaining /\ failed' = TRUE
           \/ 4 <= D!remaining /\ 4 + n <= D!remaining /\ D!Returns(D!Slice(pos + 4, n), 4 + n)
    BY Widths DEF D!ReadBytes, D!Counted, D!unwrap, D!Raises
  <1>2. Len(d) \in Nat /\ 4 \in Nat /\ 4 + Len(d) \in Nat /\ pos \in Nat /\ Len(data) \in Nat
    BY DEF At
  <1> HIDE DEF n
  <1>3. 4 <= D!remaining => n = Len(d)
    BY <1>2, Remaining, BlobAhead DEF n
  <1>4. CASE 4 > D!remaining /\ failed' = TRUE
    <2>1. Len(data) < pos + 4
      BY <1>2, <1>4, Remaining
    <2>2. Len(data) < pos + (4 + Len(d))
      BY <1>2, <2>1
    <2> QED BY <1>1, <1>4, <2>2 DEF Ends
  <1>5. CASE 4 <= D!remaining /\ 4 + n > D!remaining /\ failed' = TRUE
    <2>1. Len(data) < pos + (4 + Len(d))
      BY <1>2, <1>3, <1>5, Remaining
    <2> QED BY <1>1, <1>5, <2>1 DEF Ends
  <1>6. CASE 4 <= D!remaining /\ 4 + n <= D!remaining /\ D!Returns(D!Slice(pos + 4, n), 4 + n)
    <2>1. pos + (4 + Len(d)) <= Len(data)
      BY <1>2, <1>3, <1>6, Remaining
    <2>2. D!Slice(pos + 4, Len(d)) = d
      BY <1>2, <2>1, BlobAhead
    <2> QED BY <1>1, <1>3, <1>6, <2>1, <2>2 DEF Ends, D!Returns
  <1> QED BY <1>1, <1>4, <1>5, <1>6

LEMMA UnterminatedIs ==
    ASSUME NEW d \in Seq(Int)
    PROVE  D!Unterminated(Append(d, 0)) = d
  <1> DEFINE a == Append(d, 0)
  <1>1. a \in Seq(Int) /\ Len(a) = Len(d) + 1 /\ a[Len(a)] = 0 /\ a # <<>>
    OBVIOUS
  <1>2. SubSeq(a, 1, Len(a) - 1) = d
    OBVIOUS
  <1> QED BY <1>1, <1>2 DEF D!Unterminated

LEMMA StringReads ==
    ASSUME PayloadAssumption, At, NEW d \in Seq(Int), S!InRange("uint32", Len(d) + 1),
           Ahead(S!Text(d)), D!ReadString
    PROVE  Ends(4 + Len(d) + 1, d)
  <1> DEFINE a == Append(d, 0)
             n == D!Unsigned(D!Slice(pos, 4))
  <1>1. /\ data' = data
        /\ \/ 4 > D!remaining /\ failed' = TRUE
           \/ 4 <= D!remaining /\ 4 + n > D!remaining /\ failed' = TRUE
           \/ /\ 4 <= D!remaining /\ 4 + n <= D!remaining
              /\ D!Returns(D!Unterminated(D!Slice(pos + 4, n)), 4 + n)
    BY Widths DEF D!ReadString, D!Counted, D!unwrap, D!Raises
  <1>2. /\ Len(d) \in Nat /\ 4 \in Nat /\ 4 + Len(d) + 1 \in Nat /\ pos \in Nat
        /\ Len(data) \in Nat
        /\ a \in Seq(Int) /\ Len(a) = Len(d) + 1 /\ D!Unterminated(a) = d
    BY UnterminatedIs DEF At
  <1>3. Ahead(S!Blob(a)) /\ S!InRange("uint32", Len(a))
    BY <1>2 DEF S!Text
  <1> HIDE DEF a, n
  <1>4. 4 <= D!remaining => n = Len(d) + 1
    BY <1>2, <1>3, Remaining, BlobAhead DEF n
  <1>5. CASE 4 > D!remaining /\ failed' = TRUE
    <2>1. Len(data) < pos + 4
      BY <1>2, <1>5, Remaining
    <2>2. Len(data) < pos + (4 + Len(d) + 1)
      BY <1>2, <2>1
    <2> QED BY <1>1, <1>5, <2>2 DEF Ends
  <1>6. CASE 4 <= D!remaining /\ 4 + n > D!remaining /\ failed' = TRUE
    <2>1. 4 + n = 4 + Len(d) + 1
      BY <1>2, <1>4, <1>6
    <2>2. Len(data) < pos + (4 + Len(d) + 1)
      BY <1>2, <1>6, <2>1, Remaining
    <2> QED BY <1>1, <1>6, <2>2 DEF Ends
  <1>7. CASE /\ 4 <= D!remaining /\ 4 + n <= D!remaining
             /\ D!Returns(D!Unterminated(D!Slice(pos + 4, n)), 4 + n)
    <2>1. 4 + n = 4 + Len(d) + 1 /\ n = Len(a)
      BY <1>2, <1>4, <1>7
    <2>2. pos + (4 + Len(d) + 1) <= Len(data)
      BY <1>2, <1>7, <2>1, Remaining
    <2>3. D!Slice(pos + 4, Len(a)) = a
      BY <1>2, <1>3, <2>2, BlobAhead
    <2> QED BY <1>1, <1>2, <1>7, <2>1, <2>2, <2>3 DEF Ends, D!Returns
  <1> QED BY <1>1, <1>5, <1>6, <1>7

LEMMA ItemReads ==
    ASSUME PayloadAssumption, At, NEW item, Sound(item), Ahead(Code(item)),
           \/ item.type \in S!Scalars /\ D!ReadScalar(item.type)
           \/ item.type = "bytes" /\ D!ReadBytes
           \/ item.type = "raw" /\ D!ReadBytesRaw(Len(item.value))
           \/ item.type = "string" /\ D!ReadString
    PROVE  Ends(Size(item), Meant(item))
  <1>1. CASE item.type \in S!Scalars /\ D!ReadScalar(item.type)
    BY <1>1, ScalarReads
  <1>2. item.type \notin S!Scalars => Meant(item) = item.value /\ item.value \in Seq(Int)
    BY DEF Meant, Sound
  <1>3. CASE item.type = "bytes" /\ D!ReadBytes
    <2>1. Code(item) = S!Blob(item.value) /\ Size(item) = 4 + Len(item.value)
      BY <1>3, Apart DEF Code, Size
    <2>2. S!InRange("uint32", Len(item.value))
      BY <1>3 DEF Sound
    <2> QED BY <1>2, <1>3, <2>1, <2>2, Apart, BytesReads
  <1>4. CASE item.type = "raw" /\ D!ReadBytesRaw(Len(item.value))
    <2>1. Code(item) = item.value /\ Size(item) = Len(item.value)
      BY <1>4, Apart DEF Code, Size
    <2> QED BY <1>2, <1>4, <2>1, Apart, RawReads
  <1>5. CASE item.type = "string" /\ D!ReadString
    <2>1. Code(item) = S!Text(item.value) /\ Size(item) = 4 + Len(item.value) + 1
      BY <1>5, Apart DEF Code, Size
    <2>2. S!InRange("uint32", Len(item.value) + 1)
      BY <1>5 DEF Sound
    <2> QED BY <1>2, <1>5, <2>1, <2>2, Apart, StringReads
  <1> QED BY <1>1, <1>3, <1>4, <1>5

(***************************************************************************)
(* What is read is a beginning of what was written, and was read so far as *)
(* its first values.                                                       *)
(***************************************************************************)
Begins ==
    /\ data \in Seq(Int) /\ Len(data) <= Len(buf)
    /\ \A i \in 1..Len(data) : data[i] = buf[i]

Progress ==
    /\ got \in Seq(Int \cup Seq(Int)) /\ Len(got) <= Len(items)
    /\ \A k \in 1..Len(got) : got[k] = Meant(items[k])
    /\ failed \in BOOLEAN
    /\ ~failed => pos = Offset(items, Len(got)) /\ pos <= Len(data)
    /\ failed => Len(got) < Len(items) /\ Len(data) < Offset(items, Len(got) + 1)

Unread == pos = 0 /\ got = <<>> /\ failed = FALSE

KeptInv ==
    /\ Laid(buf, items)
    /\ stage \in {"request", "arrived"} => sent.payload = buf
    /\ stage # "read" => Unread
    /\ stage = "read" => Begins /\ Progress

LEMMA ItemsLaid ==
    ASSUME PayloadAssumption, Laid(buf, items)
    PROVE  /\ Len(items) \in Nat /\ Len(buf) \in Nat /\ Sized(items, Len(items))
           /\ Offset(items, 0) = 0
           /\ \A k \in 0..Len(items) : Offset(items, k) \in Nat
           /\ \A k \in 1..Len(items) :
                 Offset(items, k) = Offset(items, k - 1) + Size(items[k])
  <1>1. Len(items) \in Nat /\ Len(buf) \in Nat
    BY DEF Laid
  <1>2. Sized(items, Len(items))
    BY <1>1, SoundSized DEF Laid
  <1> QED BY <1>1, <1>2, Offsets

LEMMA MeantTyped ==
    ASSUME PayloadAssumption, NEW item, Sound(item)
    PROVE  Meant(item) \in Int \cup Seq(Int)
  <1>1. CASE item.type \in S!Scalars
    <2>1. item.value \in Int
      BY <1>1 DEF Sound
    <2>2. item.value % Base \in Int
      <3>1. Base \in Nat \ {0}
        BY DEF PayloadAssumption
      <3>2. item.value % Base \in 0..(Base - 1)
        BY <2>1, <3>1, Division, Zenon
      <3> QED BY <3>1, <3>2
    <2> QED BY <1>1, <2>1, <2>2 DEF Meant, S!Meant
  <1>2. CASE item.type \notin S!Scalars
    BY <1>2 DEF Meant, Sound
  <1> QED BY <1>1, <1>2

LEMMA ReadKeeps ==
    ASSUME PayloadAssumption, KeptInv, Read
    PROVE  Begins' /\ Progress'
  <1> DEFINE g == Len(got)
             item == items[g + 1]
  <1>1. /\ stage = "read" /\ failed = FALSE /\ g < Len(items)
        /\ UNCHANGED <<buf, items>>
        /\ got' = IF failed' THEN got ELSE Append(got, value')
    BY DEF Read, writer
  <1>2. /\ Laid(buf, items) /\ Begins /\ got \in Seq(Int \cup Seq(Int))
        /\ pos = Offset(items, g) /\ pos <= Len(data)
        /\ \A k \in 1..g : got[k] = Meant(items[k])
    BY <1>1 DEF KeptInv, Progress
  <1>3. g \in Nat /\ g + 1 \in 1..Len(items) /\ g \in 0..Len(items) /\ (g + 1) - 1 = g
    BY <1>1, <1>2, ItemsLaid
  <1>4. Sound(item) /\ pos \in Nat /\ Len(data) \in Nat
    BY <1>2, <1>3, ItemsLaid DEF Laid, Begins
  <1>5. At
    BY <1>2, <1>4 DEF At, Begins
  <1>6. Code(item) \in Seq(Int) /\ Len(Code(item)) = Size(item) /\ Size(item) \in Nat
    BY <1>4, CodeSized
  <1>7. Offset(items, g + 1) = pos + Size(item)
    BY <1>2, <1>3, ItemsLaid
  <1>8. \A j \in 1..Size(item) : buf[pos + j] = Code(item)[j]
    BY <1>2, <1>3 DEF Laid
  <1>9. Ahead(Code(item))
    <2> SUFFICES ASSUME NEW j \in 1..Size(item), pos + j <= Len(data)
                 PROVE  data[pos + j] = Code(item)[j]
      BY <1>6 DEF Ahead
    <2>1. pos + j \in 1..Len(data)
      BY <1>4, <1>6
    <2> QED BY <1>2, <1>8, <2>1 DEF Begins
  <1>10. Ends(Size(item), Meant(item))
    <2>1. \/ item.type \in S!Scalars /\ D!ReadScalar(item.type)
          \/ item.type = "bytes" /\ D!ReadBytes
          \/ item.type = "raw" /\ D!ReadBytesRaw(Len(item.value))
          \/ item.type = "string" /\ D!ReadString
      BY DEF Read
    <2> HIDE DEF item
    <2> QED BY <1>4, <1>5, <1>9, <2>1, ItemReads
  <1>11. Begins'
    BY <1>1, <1>2, <1>10 DEF Begins, Ends
  <1> HIDE DEF item, g
  <1>12. CASE failed' = TRUE /\ Len(data) < pos + Size(item)
    <2>1. got' = got /\ data' = data
      BY <1>1, <1>10, <1>12 DEF Ends
    <2>2. \A k \in 1..Len(got') : got'[k] = Meant(items[k])'
      BY <1>1, <1>2, <2>1 DEF Meant, g
    <2>3. Len(got') < Len(items') /\ Len(data') < Offset(items', Len(got') + 1)
      BY <1>1, <1>7, <1>12, <2>1 DEF g
    <2>4. got' \in Seq(Int \cup Seq(Int)) /\ Len(got') <= Len(items')
      <3>1. Len(items) \in Nat
        BY <1>2, ItemsLaid
      <3>2. Len(got) <= Len(items)
        BY <1>1, <1>3, <3>1 DEF g
      <3> QED BY <1>1, <1>2, <2>1, <3>2, Zenon
    <2> QED BY <1>11, <1>12, <2>2, <2>3, <2>4, Zenon DEF Progress
  <1>13. CASE /\ failed' = FALSE /\ pos' = pos + Size(item)
              /\ pos + Size(item) <= Len(data) /\ value' = Meant(item)
    <2>1. got' = Append(got, Meant(item)) /\ data' = data
      BY <1>1, <1>10, <1>13 DEF Ends
    <2>2. Meant(item) \in Int \cup Seq(Int)
      BY <1>4, MeantTyped
    <2>3. /\ got' \in Seq(Int \cup Seq(Int)) /\ Len(got') = g + 1
          /\ got'[g + 1] = Meant(item)
          /\ \A k \in 1..g : got'[k] = got[k]
      BY <1>2, <2>1, <2>2, AppendProperties DEF g
    <2>4. \A k \in 1..(g + 1) : k \in 1..g \/ k = g + 1
      BY <1>3
    <2>5. \A k \in 1..(g + 1) : got'[k] = Meant(items[k])
      BY <1>2, <2>3, <2>4 DEF item
    <2>6. g + 1 <= Len(items)
      BY <1>3
    <2>7. /\ items' = items
          /\ \A k \in 1..Len(got') : got'[k] = Meant(items[k])'
      BY <1>1, <2>3, <2>5 DEF Meant
    <2>8. pos' = Offset(items', Len(got')) /\ pos' <= Len(data')
      BY <1>7, <1>13, <2>1, <2>3, <2>7
    <2>9. Len(got') <= Len(items')
      BY <2>3, <2>6, <2>7
    <2> QED BY <1>11, <1>13, <2>3, <2>7, <2>8, <2>9, Zenon DEF Progress
  <1> QED BY <1>10, <1>11, <1>12, <1>13 DEF Ends

LEMMA OpenKeeps ==
    ASSUME PayloadAssumption, KeptInv, stage # "read", NEW native, NEW n \in 0..Len(buf),
           Open(buf, native, n)
    PROVE  KeptInv'
  <1>1. /\ stage' = "read" /\ data' = SubSeq(buf, 1, n) /\ UNCHANGED <<buf, items>>
        /\ UNCHANGED <<pos, failed, got>>
    BY DEF Open, writer
  <1>2. Laid(buf, items) /\ pos = 0 /\ got = <<>> /\ failed = FALSE
    BY DEF KeptInv, Unread
  <1>3. buf \in Seq(Int) /\ Len(buf) \in Nat /\ n \in Nat /\ n <= Len(buf)
    BY <1>2 DEF Laid
  <1>4. /\ data' \in Seq(Int) /\ Len(data') = n
        /\ \A i \in 1..n : data'[i] = buf[i]
    BY <1>1, <1>3
  <1>5. Begins'
    BY <1>1, <1>3, <1>4 DEF Begins
  <1>6. Progress'
    <2>1. Len(got') = 0 /\ got' \in Seq(Int \cup Seq(Int)) /\ Len(got') <= Len(items')
      BY <1>1, <1>2, ItemsLaid
    <2>2. pos' = Offset(items', Len(got')) /\ pos' <= Len(data')
      BY <1>1, <1>2, <1>3, <1>4, <2>1, ItemsLaid
    <2>3. \A k \in 1..Len(got') : FALSE
      BY <2>1
    <2> QED BY <1>1, <1>2, <2>1, <2>2, <2>3 DEF Progress
  <1>7. Laid(buf, items)'
    BY <1>1, <1>2
  <1> QED BY <1>1, <1>5, <1>6, <1>7 DEF KeptInv

LEMMA Whole == ASSUME Laid(buf, items) PROVE Len(buf) \in 0..Len(buf)
  BY DEF Laid

LEMMA KeptInductive == Spec => []KeptInv
  <1>1. Init => KeptInv
    BY LaidEmpty DEF Init, S!Init, KeptInv, Unread
  <1>2. PathInv /\ KeptInv /\ [Next]_vars => KeptInv'
    <2> SUFFICES ASSUME PathInv, KeptInv, [Next]_vars PROVE KeptInv'
      OBVIOUS
    <2> USE PayloadAssumption
    <2>0. Laid(buf, items)
      BY DEF KeptInv
    <2>1. ASSUME NEW t \in S!Scalars, NEW v \in Values[t], Write(t, v) PROVE KeptInv'
      <3>1. Laid(buf, items)'
        BY <2>0, <2>1, WriteScalarLays
      <3> QED BY <2>1, <3>1 DEF KeptInv, Unread, Write, network, reader
    <2>2. ASSUME NEW t \in {"bytes", "raw", "string"}, NEW d \in Blobs, Write(t, d)
          PROVE  KeptInv'
      <3>1. Laid(buf, items)'
        BY <2>0, <2>2, WriteBlobLays
      <3> QED BY <2>2, <3>1 DEF KeptInv, Unread, Write, network, reader
    <2>3. CASE Reset
      <3>1. Laid(buf, items)'
        BY <2>3, LaidEmpty DEF Reset, S!Reset
      <3> QED BY <2>3, <3>1 DEF KeptInv, Unread, Reset, network, reader
    <2>4. ASSUME NEW h \in Headers, Send(h) PROVE KeptInv'
      <3>1. sent'.payload = buf
        BY <2>4 DEF Send, M!Message
      <3> QED BY <2>4, <3>1 DEF KeptInv, Unread, Send, writer, reader
    <2>5. CASE Deliver
      BY <2>5 DEF KeptInv, Unread, Deliver, writer, reader
    <2>6. ASSUME NEW code, NEW remote, Respond(code, remote) PROVE KeptInv'
      BY <2>6 DEF KeptInv, Unread, Respond, writer, reader
    <2>7. ASSUME NEW native, NEW n \in 0..Len(buf), OpenWritten(native, n) PROVE KeptInv'
      BY <2>7, OpenKeeps DEF OpenWritten
    <2>8. CASE OpenReceived
      <3>1. stage = "arrived" /\ sent.payload = buf /\ WellFormed(sent)
        BY <2>8 DEF OpenReceived, KeptInv, PathInv
      <3>2. received = [sent EXCEPT !.source_endpoint = received.source_endpoint]
        BY <3>1, ReceivedIsSent DEF PathInv
      <3>3. received.payload = buf
        BY <3>1, <3>2 DEF WellFormed, M!Message
      <3>4. Open(buf, TRUE, Len(buf))
        BY <2>8, <3>3 DEF OpenReceived
      <3> QED BY <2>0, <3>1, <3>4, Whole, OpenKeeps
    <2>9. CASE Read
      <3>1. Begins' /\ Progress'
        BY <2>9, ReadKeeps
      <3>2. UNCHANGED <<buf, items, stage>> /\ stage = "read"
        BY <2>9 DEF Read, writer
      <3> QED BY <2>0, <3>1, <3>2 DEF KeptInv
    <2>10. CASE UNCHANGED vars
      BY <2>10 DEF vars, writer, network, reader, KeptInv, Unread, Begins, Progress
    <2> QED BY <2>1, <2>2, <2>3, <2>4, <2>5, <2>6, <2>7, <2>8, <2>9, <2>10 DEF Next
  <1> QED BY <1>1, <1>2, PathInductive, PTL DEF Spec

(***************************************************************************)
(* Whatever a write accepts is read back, by the Python code or the native *)
(* one whichever of them wrote it, locally or after its message arrived;   *)
(* and no value is made of a payload that ends too early                   *)
(* (serialization.py, the writes and the reads).                           *)
(***************************************************************************)
THEOREM ReadAsWritten == Spec => []RoundTrip
  <1>1. KeptInv => RoundTrip
    <2> SUFFICES ASSUME KeptInv, stage = "read"
                 PROVE  /\ \A k \in DOMAIN got : got[k] = Meant(items[k])
                        /\ IF failed THEN Len(data) < SizeUpTo(Len(got) + 1)
                           ELSE pos = SizeUpTo(Len(got)) /\ pos <= Len(data)
      BY DEF RoundTrip
    <2>1. Progress
      BY DEF KeptInv
    <2>2. DOMAIN got = 1..Len(got)
      BY <2>1, LenProperties DEF Progress
    <2> QED BY <2>1, <2>2, OffsetOf, Zenon DEF Progress
  <1> QED BY <1>1, KeptInductive, PTL

-----------------------------------------------------------------------------
(***************************************************************************)
(* The checksums.  Integers are sets of bit positions, polynomials sets of *)
(* exponents, and equal when they have the same terms.                     *)
(***************************************************************************)
LEMMA XorIs == \A a, b, e : e \in C!Xor(a, b) <=> ~(e \in a <=> e \in b)
  BY DEF C!Xor

(* Induction up to n, said of a set.                                           *)
LEMMA UpTo ==
    ASSUME NEW n \in Nat, NEW T, 0 \in T, \A k \in 1..n : k - 1 \in T => k \in T
    PROVE  \A k \in 0..n : k \in T
  <1> DEFINE U == {k \in Nat : k <= n => k \in T}
  <1>1. ASSUME NEW k \in U PROVE k + 1 \in U
    <2> SUFFICES ASSUME k + 1 <= n PROVE k + 1 \in T
      OBVIOUS
    <2>1. k + 1 \in 1..n /\ (k + 1) - 1 = k /\ k \in T
      OBVIOUS
    <2> QED BY <2>1
  <1>2. U \subseteq Nat /\ 0 \in U
    OBVIOUS
  <1>3. Nat \subseteq U
    <2> HIDE DEF U
    <2> QED BY <1>1, <1>2, SetInduction, Zenon
  <1> QED BY <1>3

(* A recursion of n steps has a result at every step.                          *)
Runs(f, A, n, z, step) ==
    /\ f \in [0..n -> A] /\ f[0] = z
    /\ \A k \in 1..n : f[k] = step[k][f[k - 1]]

LEMMA RunExists ==
    ASSUME NEW A, NEW z \in A, NEW n \in Nat, NEW step \in [1..n -> [A -> A]]
    PROVE  \E f : Runs(f, A, n, z, step)
  <1> DEFINE stay == [x \in A |-> x]
             next == [k \in Nat |-> IF k < n THEN step[k + 1] ELSE stay]
  <1>1. next \in [Nat -> [A -> A]]
    <2>1. \A k \in Nat : k < n => k + 1 \in 1..n
      OBVIOUS
    <2>2. stay \in [A -> A]
      OBVIOUS
    <2> HIDE DEF stay
    <2>3. \A k \in Nat : (IF k < n THEN step[k + 1] ELSE stay) \in [A -> A]
      BY <2>1, <2>2
    <2> QED BY <2>3
  <1>2. PICK g : Iterates(g, A, z, next)
    <2> HIDE DEF next
    <2> QED BY <1>1, Recursion, Zenon
  <1> DEFINE f == [k \in 0..n |-> g[k]]
  <1>3. f \in [0..n -> A] /\ f[0] = z
    BY <1>2 DEF Iterates
  <1>4. ASSUME NEW k \in 1..n PROVE f[k] = step[k][f[k - 1]]
    <2>1. k - 1 \in Nat /\ k - 1 < n /\ (k - 1) + 1 = k /\ k \in 0..n /\ k - 1 \in 0..n
      OBVIOUS
    <2>2. f[k] = g[k] /\ f[k - 1] = g[k - 1]
      BY <2>1
    <2>3. next[k - 1] = step[(k - 1) + 1]
      BY <2>1
    <2> HIDE DEF f, next
    <2>4. g[(k - 1) + 1] = next[k - 1][g[k - 1]]
      BY <1>2, <2>1, Zenon DEF Iterates
    <2> QED BY <2>1, <2>2, <2>3, <2>4, Zenon
  <1> HIDE DEF f
  <1>5. Runs(f, A, n, z, step)
    BY <1>3, <1>4 DEF Runs
  <1> QED BY <1>5

Divides(r, N, p, w) ==
    /\ r \in [0..N -> SUBSET Int]
    /\ \A i \in 1..N : r[i] = C!Subtract(r[i - 1], N + w - i, p, w)

Remains(rest, m, N, p, w) == \E r : Divides(r, N, p, w) /\ r[0] = m /\ r[N] = rest

LEMMA RemainderRuns ==
    ASSUME NEW m \in SUBSET Int, NEW n \in Nat, NEW w \in 0..n, NEW p \in SUBSET Int,
           NEW N, N = n - w
    PROVE  Remains(C!Remainder(m, n, p, w), m, N, p, w)
  <1> DEFINE IsRun(r) == r = [i \in 0..(n - w) |->
                                IF i = 0 THEN m ELSE C!Subtract(r[i - 1], n - i, p, w)]
             run == CHOOSE r : IsRun(r)
             step == [i \in 1..N |-> [s \in SUBSET Int |-> C!Subtract(s, n - i, p, w)]]
  <1>0. N \in Nat /\ n - w = N /\ \A i \in 1..N : N + w - i = n - i
    OBVIOUS
  <1>1. C!Remainder(m, n, p, w) = run[N]
    BY <1>0 DEF C!Remainder
  <1>2. step \in [1..N -> [SUBSET Int -> SUBSET Int]]
    <2>1. ASSUME NEW i \in 1..N, NEW s \in SUBSET Int
          PROVE  C!Subtract(s, n - i, p, w) \in SUBSET Int
      <3>1. {e + (n - i) - w : e \in p} \subseteq Int
        BY <1>0
      <3> QED BY <3>1 DEF C!Subtract, C!Xor
    <2>2. \A i \in 1..N : [s \in SUBSET Int |-> C!Subtract(s, n - i, p, w)]
                             \in [SUBSET Int -> SUBSET Int]
      BY <2>1, Zenon
    <2> QED BY <2>2, Zenon
  <1>3. PICK f : Runs(f, SUBSET Int, N, m, step)
    <2> HIDE DEF step
    <2> QED BY <1>0, <1>2, RunExists, Zenon
  <1>4. ASSUME NEW i \in 1..N PROVE f[i] = C!Subtract(f[i - 1], n - i, p, w)
    <2>1. f[i - 1] \in SUBSET Int
      BY <1>3 DEF Runs
    <2>2. step[i][f[i - 1]] = C!Subtract(f[i - 1], n - i, p, w)
      BY <2>1
    <2> HIDE DEF step
    <2> QED BY <1>3, <2>2 DEF Runs
  <1>5. IsRun(f)
    <2>1. f = [i \in 0..N |-> f[i]] /\ f[0] = m
      BY <1>3 DEF Runs
    <2>2. \A i \in 0..N : f[i] = IF i = 0 THEN m ELSE C!Subtract(f[i - 1], n - i, p, w)
      <3>1. \A i \in 0..N : i = 0 \/ i \in 1..N
        OBVIOUS
      <3> QED BY <1>4, <2>1, <3>1
    <2> QED BY <1>0, <2>1, <2>2, Zenon
  <1>6. IsRun(run)
    <2> HIDE DEF IsRun
    <2> QED BY <1>5
  <1> HIDE DEF run
  <1>7. \A i \in 0..N : run[i] = IF i = 0 THEN m ELSE C!Subtract(run[i - 1], n - i, p, w)
    BY <1>0, <1>6, Zenon
  <1>8. run[0] = m /\ \A i \in 1..N : run[i] = C!Subtract(run[i - 1], n - i, p, w)
    <2>1. 0 \in 0..N /\ \A i \in 1..N : i \in 0..N /\ i # 0
      OBVIOUS
    <2> QED BY <1>7, <2>1, Zenon
  <1>9. run \in [0..N -> SUBSET Int]
    <2> DEFINE T == {k \in 0..N : run[k] = f[k]}
    <2>1. \A k \in 0..N : run[k] = f[k]
      <3>1. 0 \in T
        BY <1>3, <1>8 DEF Runs
      <3>2. ASSUME NEW k \in 1..N, k - 1 \in T PROVE k \in T
        BY <1>4, <1>8, <3>2
      <3>3. \A k \in 0..N : k \in T
        <4> HIDE DEF T
        <4> QED BY <3>1, <3>2, <1>0, UpTo, Zenon
      <3> QED BY <3>3
    <2>2. run = [i \in 0..N |-> IF i = 0 THEN m ELSE C!Subtract(run[i - 1], n - i, p, w)]
      BY <1>0, <1>6, Zenon
    <2> QED BY <1>3, <2>1, <2>2 DEF Runs
  <1>10. Divides(run, N, p, w)
    BY <1>0, <1>8, <1>9 DEF Divides
  <1> QED BY <1>1, <1>8, <1>10 DEF Remains

(***************************************************************************)
(* A register of w bits that takes in a message is a division: after every *)
(* byte it holds the leading terms of what is left of the dividend.        *)
(***************************************************************************)
Shift(a, m) == {e + m : e \in a}

Turn(a, p, w) == IF w - 1 \in a THEN C!Xor(Shift(a, 1), p) ELSE Shift(a, 1)

Takes(x, b, y, p, w) ==
    \E a \in [0..8 -> SUBSET (0..(w - 1))] :
        a[0] = C!Xor(x, b) /\ a[8] = y /\ \A j \in 1..8 : a[j] = Turn(a[j - 1], p, w)

Registers(c, d, L, p, w) ==
    /\ c \in [0..L -> SUBSET (0..(w - 1))] /\ c[0] = 0..(w - 1)
    /\ \A k \in 1..L : Takes(c[k - 1], d[k], c[k], p, w)

(* The bytes that come after the first k, as terms of the dividend.            *)
Rest(d, L, k) == {e \in Int : \E q \in (k + 1)..L : e - 8 * (L - q + 1) \in d[q]}

LEMMA Shifted ==
    ASSUME NEW a \in SUBSET Int, NEW m \in Int
    PROVE  Shift(a, m) \in SUBSET Int /\ \A e \in Int : e \in Shift(a, m) <=> e - m \in a
  <1>1. ASSUME NEW e \in Int PROVE e \in Shift(a, m) <=> e - m \in a
    <2>1. (e - m) + m = e /\ e - m \in Int /\ \A i \in a : i \in Int /\ (i + m) - m = i
      OBVIOUS
    <2> QED BY <2>1 DEF Shift
  <1> QED BY <1>1 DEF Shift

LEMMA SameTerms ==
    ASSUME NEW a \in SUBSET Int, NEW b \in SUBSET Int, \A e \in Int : e \in a <=> e \in b
    PROVE  a = b
  OBVIOUS

LEMMA XorTyped == ASSUME NEW A, NEW a \in SUBSET A, NEW b \in SUBSET A PROVE C!Xor(a, b) \in SUBSET A
  BY DEF C!Xor

LEMMA TurnIs ==
    ASSUME NEW w \in Nat, NEW a \in SUBSET Int, NEW p \in SUBSET Int
    PROVE  /\ Turn(a, p, w) \in SUBSET Int
           /\ \A e \in Int : e \in Turn(a, p, w) <=> ~(e - 1 \in a <=> w - 1 \in a /\ e \in p)
  <1>1. Shift(a, 1) \in SUBSET Int /\ \A e \in Int : e \in Shift(a, 1) <=> e - 1 \in a
    BY Shifted
  <1>2. C!Xor(Shift(a, 1), p) \in SUBSET Int
    BY <1>1, XorTyped
  <1> QED BY <1>1, <1>2, XorIs DEF Turn

LEMMA OneTurn ==
    ASSUME NEW w \in Nat, NEW p \in SUBSET Int, NEW m \in Int,
           NEW a \in SUBSET Int, NEW R \in SUBSET Int, NEW top \in Int,
           top = m + w - 1, top \notin R
    PROVE  C!Subtract(C!Xor(Shift(a, m), R), top, p, w) = C!Xor(Shift(Turn(a, p, w), m - 1), R)
  <1> DEFINE before == C!Xor(Shift(a, m), R)
             b == Turn(a, p, w)
             moved == {e + top - w : e \in p}
  <1>1. \A e \in Int : e \in before <=> ~(e - m \in a <=> e \in R)
    BY Shifted, XorIs
  <1>2. top \in before <=> w - 1 \in a
    <2>1. top - m = w - 1
      OBVIOUS
    <2> HIDE DEF before
    <2> QED BY <1>1, <2>1
  <1>3. moved \in SUBSET Int /\ \A e \in Int : e \in moved <=> e - m + 1 \in p
    <2>1. \A i \in p : i + top - w \in Int /\ (i + top - w) - m + 1 = i
      OBVIOUS
    <2>2. \A e \in Int : e - m + 1 \in Int /\ (e - m + 1) + top - w = e
      OBVIOUS
    <2> QED BY <2>1, <2>2
  <1>4. before \in SUBSET Int
    BY Shifted, XorTyped
  <1>5. b \in SUBSET Int /\ \A e \in Int : e - m + 1 \in b <=> ~(e - m \in a <=> w - 1 \in a /\ e - m + 1 \in p)
    <2>1. \A e \in Int : e - m + 1 \in Int /\ (e - m + 1) - 1 = e - m
      OBVIOUS
    <2> QED BY <2>1, TurnIs
  <1> HIDE DEF b
  <1>6. /\ Shift(b, m - 1) \in SUBSET Int
        /\ \A e \in Int : e \in Shift(b, m - 1) <=> e - m + 1 \in b
    <2>1. m - 1 \in Int /\ \A e \in Int : e - (m - 1) = e - m + 1
      OBVIOUS
    <2> QED BY <1>5, <2>1, Shifted
  <1> HIDE DEF before, moved
  <1>7. /\ C!Subtract(before, top, p, w) \in SUBSET Int
        /\ \A e \in Int : e \in C!Subtract(before, top, p, w)
                            <=> ~(e \in before <=> w - 1 \in a /\ e - m + 1 \in p)
    <2>1. C!Subtract(before, top, p, w) = IF top \in before THEN C!Xor(before, moved) ELSE before
      BY DEF C!Subtract, moved
    <2>2. C!Xor(before, moved) \in SUBSET Int
      BY <1>3, <1>4, XorTyped
    <2>3. \A e \in Int : e \in C!Xor(before, moved) <=> ~(e \in before <=> e - m + 1 \in p)
      BY <1>3, XorIs
    <2> QED BY <1>2, <1>4, <2>1, <2>2, <2>3
  <1>8. C!Xor(Shift(b, m - 1), R) \in SUBSET Int
    BY <1>6, XorTyped
  <1>9. \A e \in Int : e \in C!Subtract(before, top, p, w) <=> e \in C!Xor(Shift(b, m - 1), R)
    BY <1>1, <1>5, <1>6, <1>7, XorIs
  <1>10. C!Subtract(before, top, p, w) = C!Xor(Shift(b, m - 1), R)
    BY <1>7, <1>8, <1>9, SameTerms
  <1> QED BY <1>10 DEF before, b

LEMMA OneByte ==
    ASSUME NEW w \in Nat, NEW p \in SUBSET Int, NEW N \in Nat, NEW r, Divides(r, N, p, w),
           NEW i \in Nat, i + 8 <= N, NEW R \in SUBSET Int, \A e \in R : e < N - i - 8 + w,
           NEW x, NEW b, NEW y, Takes(x, b, y, p, w),
           r[i] = C!Xor(Shift(C!Xor(x, b), N - i), R)
    PROVE  r[i + 8] = C!Xor(Shift(y, N - i - 8), R)
  <1>1. PICK a \in [0..8 -> SUBSET (0..(w - 1))] :
             a[0] = C!Xor(x, b) /\ a[8] = y /\ \A j \in 1..8 : a[j] = Turn(a[j - 1], p, w)
    BY Zenon DEF Takes
  <1> DEFINE T == {j \in 0..8 : r[i + j] = C!Xor(Shift(a[j], N - i - j), R)}
  <1>2. 0 \in T
    <2>1. i + 0 = i /\ N - i - 0 = N - i /\ 0 \in 0..8
      OBVIOUS
    <2> QED BY <1>1, <2>1
  <1>3. ASSUME NEW j \in 1..8, j - 1 \in T PROVE j \in T
    <2> DEFINE s == r[i + (j - 1)]
               m == N - i - (j - 1)
               top == N + w - (i + j)
    <2>1. s = C!Xor(Shift(a[j - 1], m), R)
      BY <1>3
    <2>2. /\ i + j \in 1..N /\ (i + j) - 1 = i + (j - 1) /\ m \in Int /\ top \in Int
          /\ top = m + w - 1 /\ m - 1 = N - i - j
      OBVIOUS
    <2>3. r[i + j] = C!Subtract(r[(i + j) - 1], N + w - (i + j), p, w)
      BY <2>2, Zenon DEF Divides
    <2>4. top \notin R
      <3>1. ~(top < N - i - 8 + w)
        OBVIOUS
      <3> HIDE DEF top
      <3> QED BY <3>1
    <2>5. a[j - 1] \in SUBSET Int
      <3>1. j - 1 \in 0..8
        OBVIOUS
      <3> QED BY <1>1, <3>1
    <2>6. a[j] = Turn(a[j - 1], p, w)
      BY <1>1
    <2> HIDE DEF m, top
    <2>7. C!Subtract(C!Xor(Shift(a[j - 1], m), R), top, p, w)
            = C!Xor(Shift(Turn(a[j - 1], p, w), m - 1), R)
      BY <2>2, <2>4, <2>5, OneTurn
    <2>8. r[i + j] = C!Xor(Shift(a[j], N - i - j), R)
      BY <2>1, <2>2, <2>3, <2>6, <2>7, Zenon DEF top
    <2> QED BY <2>8
  <1>4. 8 \in T
    <2> HIDE DEF T
    <2>1. \A j \in 0..8 : j \in T
      BY <1>2, <1>3, UpTo
    <2> QED BY <2>1
  <1> QED BY <1>1, <1>4

(* A byte is taken in at the register's leading end.                           *)
Aligned(d, L, w) == \A q \in 1..L : d[q] \in SUBSET ((w - 8)..(w - 1))

LEMMA RestIs ==
    ASSUME NEW w \in Nat, NEW L \in Nat, NEW d, Aligned(d, L, w)
    PROVE  /\ Rest(d, L, L) = {}
           /\ \A k \in 0..L : /\ Rest(d, L, k) \in SUBSET Int
                              /\ \A e \in Rest(d, L, k) : e < 8 * (L - k) + w
           /\ \A k \in 1..L :
                 /\ d[k] \in SUBSET Int
                 /\ Rest(d, L, k - 1) = C!Xor(Shift(d[k], 8 * (L - k + 1)), Rest(d, L, k))
  <1>1. Rest(d, L, L) = {}
    BY DEF Rest
  <1>2. ASSUME NEW k \in 0..L, NEW e \in Rest(d, L, k)
        PROVE  e < 8 * (L - k) + w
    <2>1. PICK q \in (k + 1)..L : e - 8 * (L - q + 1) \in d[q]
      BY DEF Rest
    <2>2. e - 8 * (L - q + 1) \in (w - 8)..(w - 1)
      BY <2>1 DEF Aligned
    <2>3. e \in Int
      BY DEF Rest
    <2> QED BY <2>2, <2>3
  <1>3. ASSUME NEW k \in 1..L
        PROVE  /\ d[k] \in SUBSET Int
               /\ Rest(d, L, k - 1) = C!Xor(Shift(d[k], 8 * (L - k + 1)), Rest(d, L, k))
    <2> DEFINE m == 8 * (L - k + 1)
    <2>1. d[k] \in SUBSET Int /\ m \in Int /\ \A e \in d[k] : e \in (w - 8)..(w - 1)
      BY DEF Aligned
    <2>2. \A e \in Int : e \in Shift(d[k], m) <=> e - m \in d[k]
      <3> HIDE DEF m
      <3> QED BY <2>1, Shifted
    <2>3. ASSUME NEW e \in Int, e - m \in d[k] PROVE e \notin Rest(d, L, k)
      <3>1. ~(e < 8 * (L - k) + w)
        BY <2>1, <2>3
      <3>2. k \in 0..L
        OBVIOUS
      <3> QED BY <1>2, <3>1, <3>2
    <2>4. ASSUME NEW e \in Int
          PROVE  e \in Rest(d, L, k - 1) <=> e - m \in d[k] \/ e \in Rest(d, L, k)
      <3>1. \A q : q \in ((k - 1) + 1)..L <=> q = k \/ q \in (k + 1)..L
        OBVIOUS
      <3> QED BY <3>1 DEF Rest
    <2>5. Rest(d, L, k - 1) \in SUBSET Int /\ C!Xor(Shift(d[k], m), Rest(d, L, k)) \in SUBSET Int
      <3>1. Rest(d, L, k - 1) \in SUBSET Int /\ Rest(d, L, k) \in SUBSET Int
        BY DEF Rest
      <3> HIDE DEF m
      <3> QED BY <2>1, <3>1, Shifted, XorTyped
    <2> HIDE DEF m
    <2>6. \A e \in Int : e \in Rest(d, L, k - 1) <=> e \in C!Xor(Shift(d[k], m), Rest(d, L, k))
      BY <2>2, <2>3, <2>4, XorIs
    <2>7. Rest(d, L, k - 1) = C!Xor(Shift(d[k], m), Rest(d, L, k))
      BY <2>5, <2>6, SameTerms
    <2> QED BY <2>1, <2>7 DEF m
  <1>4. \A k \in 0..L : Rest(d, L, k) \in SUBSET Int
    BY DEF Rest
  <1> QED BY <1>1, <1>2, <1>3, <1>4

LEMMA XorShift ==
    ASSUME NEW a \in SUBSET Int, NEW b \in SUBSET Int, NEW m \in Int, NEW R \in SUBSET Int
    PROVE  C!Xor(Shift(a, m), C!Xor(Shift(b, m), R)) = C!Xor(Shift(C!Xor(a, b), m), R)
  <1> DEFINE left == C!Xor(Shift(a, m), C!Xor(Shift(b, m), R))
             right == C!Xor(Shift(C!Xor(a, b), m), R)
  <1>1. /\ Shift(a, m) \in SUBSET Int /\ \A e \in Int : e \in Shift(a, m) <=> e - m \in a
        /\ Shift(b, m) \in SUBSET Int /\ \A e \in Int : e \in Shift(b, m) <=> e - m \in b
    BY Shifted
  <1>2. C!Xor(a, b) \in SUBSET Int
    BY XorTyped
  <1>3. /\ Shift(C!Xor(a, b), m) \in SUBSET Int
        /\ \A e \in Int : e \in Shift(C!Xor(a, b), m) <=> e - m \in C!Xor(a, b)
    BY <1>2, Shifted
  <1>4. left \in SUBSET Int /\ right \in SUBSET Int
    <2>1. C!Xor(Shift(b, m), R) \in SUBSET Int
      BY <1>1, XorTyped
    <2>2. left \in SUBSET Int
      BY <1>1, <2>1, XorTyped
    <2>3. right \in SUBSET Int
      BY <1>3, XorTyped
    <2> QED BY <2>2, <2>3
  <1>5. \A e \in Int : e \in left <=> e \in right
    BY <1>1, <1>3, XorIs
  <1> HIDE DEF left, right
  <1>6. left = right
    BY <1>4, <1>5, SameTerms
  <1> QED BY <1>6 DEF left, right

LEMMA RegistersDivide ==
    ASSUME NEW w \in Nat, NEW p \in SUBSET Int, NEW L \in Nat, NEW d, Aligned(d, L, w),
           NEW c, Registers(c, d, L, p, w), NEW r, Divides(r, 8 * L, p, w),
           r[0] = C!Xor(Shift(0..(w - 1), 8 * L), Rest(d, L, 0))
    PROVE  r[8 * L] = c[L]
  <1> DEFINE T == {k \in 0..L : r[8 * k] = C!Xor(Shift(c[k], 8 * (L - k)), Rest(d, L, k))}
  <1>1. 0 \in T
    <2>1. 8 * 0 = 0 /\ L - 0 = L /\ 0 \in 0..L
      OBVIOUS
    <2>2. c[0] = 0..(w - 1)
      BY DEF Registers
    <2> QED BY <2>1, <2>2
  <1>2. ASSUME NEW k \in 1..L, k - 1 \in T PROVE k \in T
    <2> DEFINE i == 8 * (k - 1)
               m == 8 * (L - k + 1)
               R == Rest(d, L, k)
    <2>1. /\ i \in Nat /\ m \in Int /\ 8 * L \in Nat /\ i + 8 = 8 * k /\ i + 8 <= 8 * L
          /\ L - (k - 1) = L - k + 1 /\ 8 * L - i = m /\ 8 * L - i - 8 = 8 * (L - k)
          /\ k \in 0..L /\ k - 1 \in 0..L
      OBVIOUS
    <2>2. r[i] = C!Xor(Shift(c[k - 1], m), Rest(d, L, k - 1))
      <3>1. r[8 * (k - 1)] = C!Xor(Shift(c[k - 1], 8 * (L - (k - 1))), Rest(d, L, k - 1))
        BY <1>2
      <3> QED BY <2>1, <3>1
    <2>3. /\ d[k] \in SUBSET Int /\ R \in SUBSET Int
          /\ Rest(d, L, k - 1) = C!Xor(Shift(d[k], m), R)
          /\ \A e \in R : e < 8 * L - i - 8 + w
      <3>1. d[k] \in SUBSET Int /\ Rest(d, L, k - 1) = C!Xor(Shift(d[k], m), R)
        BY RestIs
      <3>2. R \in SUBSET Int /\ \A e \in R : e < 8 * (L - k) + w
        BY <2>1, RestIs
      <3> HIDE DEF R
      <3> QED BY <2>1, <3>1, <3>2
    <2>4. c[k - 1] \in SUBSET Int
      <3>1. c[k - 1] \in SUBSET (0..(w - 1))
        BY <2>1 DEF Registers
      <3> QED BY <3>1
    <2>5. Takes(c[k - 1], d[k], c[k], p, w)
      BY DEF Registers
    <2> HIDE DEF i, m, R
    <2>6. r[i] = C!Xor(Shift(C!Xor(c[k - 1], d[k]), 8 * L - i), R)
      BY <2>1, <2>2, <2>3, <2>4, XorShift
    <2>7. r[i + 8] = C!Xor(Shift(c[k], 8 * L - i - 8), R)
      <3> DEFINE N == 8 * L
      <3>1. N \in Nat /\ i \in Nat /\ i + 8 <= N /\ R \in SUBSET Int
        BY <2>1, <2>3
      <3>2. \A e \in R : e < N - i - 8 + w
        BY <2>3
      <3>3. Divides(r, N, p, w) /\ r[i] = C!Xor(Shift(C!Xor(c[k - 1], d[k]), N - i), R)
        BY <2>6
      <3> HIDE DEF N
      <3>4. r[i + 8] = C!Xor(Shift(c[k], N - i - 8), R)
        BY <2>5, <3>1, <3>2, <3>3, OneByte
      <3> QED BY <3>4 DEF N
    <2>8. r[8 * k] = C!Xor(Shift(c[k], 8 * (L - k)), Rest(d, L, k))
      BY <2>1, <2>7, Zenon DEF R
    <2> QED BY <2>1, <2>8
  <1>3. L \in T
    <2>1. L \in 0..L
      OBVIOUS
    <2> HIDE DEF T
    <2> QED BY <1>1, <1>2, <2>1, UpTo, Zenon
  <1>4. c[L] \in SUBSET Int /\ L - L = 0 /\ 8 * 0 = 0
    <2>1. c[L] \in SUBSET (0..(w - 1))
      BY DEF Registers
    <2> QED BY <2>1
  <1>5. r[8 * L] = C!Xor(Shift(c[L], 0), {})
    BY <1>3, <1>4, RestIs
  <1>6. Shift(c[L], 0) = c[L]
    <2>1. Shift(c[L], 0) \in SUBSET Int /\ \A e \in Int : e \in Shift(c[L], 0) <=> e - 0 \in c[L]
      <3>1. 0 \in Int
        OBVIOUS
      <3> QED BY <1>4, <3>1, Shifted, Zenon
    <2>2. \A e \in Int : e - 0 = e
      OBVIOUS
    <2>3. \A e \in Int : e \in Shift(c[L], 0) <=> e \in c[L]
      BY <2>1, <2>2, Zenon
    <2> QED BY <1>4, <2>1, <2>3, SameTerms, Zenon
  <1> QED BY <1>5, <1>6 DEF C!Xor

-----------------------------------------------------------------------------
(* A register that differs goes on to differ.                                  *)
LEMMA TurnsApart ==
    ASSUME NEW w \in Nat, NEW p \in SUBSET Int, 0 \in p,
           NEW a \in SUBSET (0..(w - 1)), NEW b \in SUBSET (0..(w - 1)),
           Turn(a, p, w) = Turn(b, p, w)
    PROVE  a = b
  <1>0. a \in SUBSET Int /\ b \in SUBSET Int /\ 0 - 1 \notin a /\ 0 - 1 \notin b
    OBVIOUS
  <1>1. \A e \in Int : /\ e \in Turn(a, p, w) <=> ~(e - 1 \in a <=> w - 1 \in a /\ e \in p)
                       /\ e \in Turn(b, p, w) <=> ~(e - 1 \in b <=> w - 1 \in b /\ e \in p)
    BY <1>0, TurnIs
  <1>2. w - 1 \in a <=> w - 1 \in b
    BY <1>0, <1>1
  <1>3. \A e \in Int : e \in a <=> e \in b
    <2> TAKE e \in Int
    <2>1. e + 1 \in Int /\ (e + 1) - 1 = e
      OBVIOUS
    <2> QED BY <1>1, <1>2, <2>1
  <1> QED BY <1>0, <1>3, SameTerms

LEMMA TakesApart ==
    ASSUME NEW w \in Nat, NEW p \in SUBSET Int, 0 \in p, NEW x, NEW b, NEW y, NEW x1, NEW b1,
           Takes(x, b, y, p, w), Takes(x1, b1, y, p, w)
    PROVE  C!Xor(x, b) = C!Xor(x1, b1)
  <1>1. PICK a \in [0..8 -> SUBSET (0..(w - 1))] :
             a[0] = C!Xor(x, b) /\ a[8] = y /\ \A j \in 1..8 : a[j] = Turn(a[j - 1], p, w)
    BY Zenon DEF Takes
  <1>2. PICK a1 \in [0..8 -> SUBSET (0..(w - 1))] :
             a1[0] = C!Xor(x1, b1) /\ a1[8] = y /\ \A j \in 1..8 : a1[j] = Turn(a1[j - 1], p, w)
    BY Zenon DEF Takes
  <1> DEFINE T == {j \in 0..8 : a[8 - j] = a1[8 - j]}
  <1>3. 0 \in T
    BY <1>1, <1>2
  <1>4. ASSUME NEW j \in 1..8, j - 1 \in T PROVE j \in T
    <2> DEFINE i == 8 - (j - 1)
    <2>1. i \in 1..8 /\ i - 1 = 8 - j /\ 8 - j \in 0..8 /\ a[i] = a1[i]
      BY <1>4
    <2> HIDE DEF i
    <2>2. Turn(a[i - 1], p, w) = Turn(a1[i - 1], p, w)
      BY <1>1, <1>2, <2>1
    <2>3. a[i - 1] \in SUBSET (0..(w - 1)) /\ a1[i - 1] \in SUBSET (0..(w - 1))
      BY <2>1
    <2>4. a[i - 1] = a1[i - 1]
      BY <2>2, <2>3, TurnsApart
    <2> QED BY <2>1, <2>4
  <1>5. 8 \in T
    <2>1. 8 \in 0..8
      OBVIOUS
    <2> HIDE DEF T
    <2> QED BY <1>3, <1>4, <2>1, UpTo
  <1> QED BY <1>1, <1>2, <1>5

LEMMA TakesOne ==
    ASSUME NEW w \in Nat, NEW p, NEW x, NEW b, NEW y, NEW y1,
           Takes(x, b, y, p, w), Takes(x, b, y1, p, w)
    PROVE  y = y1
  <1>1. PICK a \in [0..8 -> SUBSET (0..(w - 1))] :
             a[0] = C!Xor(x, b) /\ a[8] = y /\ \A j \in 1..8 : a[j] = Turn(a[j - 1], p, w)
    BY Zenon DEF Takes
  <1>2. PICK a1 \in [0..8 -> SUBSET (0..(w - 1))] :
             a1[0] = C!Xor(x, b) /\ a1[8] = y1 /\ \A j \in 1..8 : a1[j] = Turn(a1[j - 1], p, w)
    BY Zenon DEF Takes
  <1> DEFINE T == {j \in 0..8 : a[j] = a1[j]}
  <1>3. 0 \in T
    BY <1>1, <1>2
  <1>4. ASSUME NEW j \in 1..8, j - 1 \in T PROVE j \in T
    <2>1. a[j - 1] = a1[j - 1] /\ j \in 0..8
      BY <1>4
    <2> QED BY <1>1, <1>2, <2>1
  <1>5. 8 \in T
    <2>1. 8 \in 0..8
      OBVIOUS
    <2> HIDE DEF T
    <2> QED BY <1>3, <1>4, <2>1, UpTo
  <1> QED BY <1>1, <1>2, <1>5

LEMMA XorCancels ==
    \A a, b, x, y : C!Xor(a, x) = C!Xor(b, y) => (a = b <=> x = y)
  BY DEF C!Xor

(* The k-th byte is the only one that differs.                                 *)
DifferAt(d, d1, L, k) ==
    k \in 1..L /\ d[k] # d1[k] /\ \A q \in 1..L : q # k => d[q] = d1[q]

LEMMA RegistersDiffer ==
    ASSUME NEW w \in Nat, NEW p \in SUBSET Int, 0 \in p, NEW L \in Nat, NEW d, NEW d1,
           NEW c, NEW c1, Registers(c, d, L, p, w), Registers(c1, d1, L, p, w),
           NEW k, DifferAt(d, d1, L, k)
    PROVE  c[L] # c1[L]
  <1>0. k \in 1..L /\ d[k] # d1[k] /\ \A q \in 1..L : q # k => d[q] = d1[q]
    BY DEF DifferAt
  <1> DEFINE T == {q \in 0..L : IF q < k THEN c[q] = c1[q] ELSE c[q] # c1[q]}
  <1>1. 0 \in T
    BY <1>0 DEF Registers
  <1>2. ASSUME NEW q \in 1..L, q - 1 \in T PROVE q \in T
    <2>1. Takes(c[q - 1], d[q], c[q], p, w) /\ Takes(c1[q - 1], d1[q], c1[q], p, w)
      BY DEF Registers
    <2>2. CASE q < k
      <3>1. c[q - 1] = c1[q - 1] /\ d[q] = d1[q]
        BY <1>0, <1>2, <2>2
      <3>2. c[q] = c1[q]
        BY <2>1, <3>1, TakesOne, Zenon
      <3> QED BY <2>2, <3>2
    <2>3. CASE ~(q < k)
      <3>1. SUFFICES ASSUME c[q] = c1[q] PROVE FALSE
        BY <2>3
      <3>2. C!Xor(c[q - 1], d[q]) = C!Xor(c1[q - 1], d1[q])
        <4>1. Takes(c1[q - 1], d1[q], c[q], p, w)
          BY <2>1, <3>1, Zenon
        <4> HIDE DEF T
        <4> QED BY <2>1, <4>1, TakesApart
      <3>3. c[q - 1] = c1[q - 1] <=> d[q] = d1[q]
        BY <3>2, XorCancels
      <3>4. q = k \/ d[q] = d1[q]
        BY <1>0
      <3>5. q - 1 < k <=> q = k
        BY <1>0, <2>3
      <3>6. q - 1 < k <=> c[q - 1] = c1[q - 1]
        BY <1>2
      <3> QED BY <1>0, <3>3, <3>4, <3>5, <3>6
    <2> QED BY <2>2, <2>3
  <1>3. L \in T
    <2>1. L \in 0..L
      OBVIOUS
    <2> HIDE DEF T
    <2> QED BY <1>1, <1>2, <2>1, UpTo, Zenon
  <1> QED BY <1>0, <1>3

-----------------------------------------------------------------------------
(* The registers of e2e.py take those turns: crc8 as it stands, crc16 with its *)
(* bits mirrored, which is what a shift to the right makes of it.              *)
Poly8 == {8, 4, 3, 2, 0}

Poly16 == {16, 12, 5, 0}

Bits(w) == SUBSET (0..(w - 1))

LEMMA Step8Turns ==
    ASSUME NEW a \in Bits(8)
    PROVE  C!Step8(a) \in Bits(8) /\ C!Step8(a) = Turn(a, Poly8, 8)
  <1>1. a \in SUBSET Int /\ Poly8 \in SUBSET Int /\ 8 \in Nat
    BY DEF Bits, Poly8
  <1>2. \A e \in Int : e \in Turn(a, Poly8, 8) <=> ~(e - 1 \in a <=> 7 \in a /\ e \in Poly8)
    BY <1>1, TurnIs
  <1>3. /\ C!Left(a, 8) \in Bits(8)
        /\ \A e \in Int : e \in C!Left(a, 8) <=> e - 1 \in a /\ e # 8
    BY DEF C!Left, Bits
  <1>4. {4, 3, 2, 0} \in Bits(8) /\ C!Xor(C!Left(a, 8), {4, 3, 2, 0}) \in Bits(8)
    <2>1. {4, 3, 2, 0} \in Bits(8)
      BY DEF Bits
    <2> QED BY <1>3, <2>1 DEF Bits, C!Xor
  <1>5. C!Step8(a) \in Bits(8)
    BY <1>3, <1>4 DEF C!Step8
  <1>6. \A e \in Int : e \in C!Step8(a)
                         <=> ~(e \in C!Left(a, 8) <=> 7 \in a /\ e \in {4, 3, 2, 0})
    BY <1>3, XorIs DEF C!Step8
  <1>7. \A e \in Int : e \in C!Step8(a) <=> e \in Turn(a, Poly8, 8)
    BY <1>2, <1>3, <1>6 DEF Poly8, Bits
  <1>8. C!Step8(a) \in SUBSET Int /\ Turn(a, Poly8, 8) \in SUBSET Int
    BY <1>1, <1>5, TurnIs DEF Bits
  <1> QED BY <1>5, <1>7, <1>8, SameTerms

Mirror(a) == {15 - e : e \in a}

LEMMA Mirrored ==
    ASSUME NEW a \in Bits(16)
    PROVE  /\ Mirror(a) \in Bits(16) /\ Mirror(a) \in SUBSET Int
           /\ \A e \in Int : e \in Mirror(a) <=> 15 - e \in a
           /\ Mirror(Mirror(a)) = a
  <1>1. \A b \in Bits(16) :
           /\ Mirror(b) \in Bits(16) /\ Mirror(b) \in SUBSET Int
           /\ \A e \in Int : e \in Mirror(b) <=> 15 - e \in b
    BY DEF Mirror, Bits
  <1>2. Mirror(Mirror(a)) = a
    <2>1. a \in SUBSET Int /\ Mirror(Mirror(a)) \in SUBSET Int
      BY <1>1 DEF Bits
    <2>2. \A e \in Int : e \in Mirror(Mirror(a)) <=> 15 - (15 - e) \in a
      BY <1>1
    <2>3. \A e \in Int : 15 - (15 - e) = e
      OBVIOUS
    <2>4. \A e \in Int : e \in Mirror(Mirror(a)) <=> e \in a
      BY <2>2, <2>3
    <2> QED BY <2>1, <2>4, SameTerms
  <1> QED BY <1>1, <1>2

LEMMA MirrorXor ==
    ASSUME NEW a \in Bits(16), NEW b \in Bits(16)
    PROVE  C!Xor(a, b) \in Bits(16) /\ Mirror(C!Xor(a, b)) = C!Xor(Mirror(a), Mirror(b))
  <1>1. C!Xor(a, b) \in Bits(16)
    BY XorTyped DEF Bits
  <1>2. Mirror(C!Xor(a, b)) \in SUBSET Int /\ C!Xor(Mirror(a), Mirror(b)) \in SUBSET Int
    BY <1>1, Mirrored, XorTyped
  <1>3. \A e \in Int : e \in Mirror(C!Xor(a, b)) <=> e \in C!Xor(Mirror(a), Mirror(b))
    BY <1>1, Mirrored, XorIs
  <1> QED BY <1>1, <1>2, <1>3, SameTerms

LEMMA Step16Turns ==
    ASSUME NEW a \in Bits(16)
    PROVE  C!Step16(a) \in Bits(16) /\ Mirror(C!Step16(a)) = Turn(Mirror(a), Poly16, 16)
  <1>1. Poly16 \in SUBSET Int /\ 16 \in Nat /\ {15, 10, 3} \in Bits(16)
    BY DEF Bits, Poly16
  <1>2. \A e \in Int : e \in Turn(Mirror(a), Poly16, 16)
                         <=> ~(15 - (e - 1) \in a <=> 0 \in a /\ e \in Poly16)
    <2>1. 15 \in Mirror(a) <=> 0 \in a
      BY Mirrored
    <2>2. \A e \in Int : e \in Turn(Mirror(a), Poly16, 16)
                           <=> ~(e - 1 \in Mirror(a) <=> 15 \in Mirror(a) /\ e \in Poly16)
      BY <1>1, Mirrored, TurnIs
    <2>3. \A e \in Int : e - 1 \in Mirror(a) <=> 15 - (e - 1) \in a
      BY Mirrored
    <2> QED BY <2>1, <2>2, <2>3
  <1>3. /\ C!Right(a) \in Bits(16)
        /\ \A e \in Int : e \in C!Right(a) <=> e + 1 \in a /\ e # 0 - 1
    <2>1. a \in SUBSET Int /\ \A i \in a : i \in 0..15
      BY DEF Bits
    <2>2. \A i \in Int : (i - 1) + 1 = i /\ (i + 1) - 1 = i /\ (i # 0 <=> i - 1 # 0 - 1)
      OBVIOUS
    <2>3. \A e \in Int : e \in C!Right(a) <=> e + 1 \in a /\ e # 0 - 1
      BY <2>1, <2>2 DEF C!Right
    <2>4. C!Right(a) \in Bits(16)
      BY <2>1 DEF C!Right, Bits
    <2> QED BY <2>3, <2>4
  <1>4. C!Xor(C!Right(a), {15, 10, 3}) \in Bits(16)
    BY <1>1, <1>3, Zenon DEF Bits, C!Xor
  <1>5. C!Step16(a) \in Bits(16)
    BY <1>3, <1>4 DEF C!Step16
  <1>6. \A e \in Int : e \in C!Step16(a)
                         <=> ~(e \in C!Right(a) <=> 0 \in a /\ e \in {15, 10, 3})
    BY <1>3, XorIs DEF C!Step16
  <1>7. \A e \in Int : e \in Mirror(C!Step16(a)) <=> 15 - e \in C!Step16(a)
    BY <1>5, Mirrored
  <1>8. \A e \in Int : e \in Mirror(C!Step16(a)) <=> e \in Turn(Mirror(a), Poly16, 16)
    <2> TAKE e \in Int
    <2>1. e \in Mirror(C!Step16(a))
            <=> ~(((15 - e) + 1 \in a /\ 15 - e # 0 - 1) <=> 0 \in a /\ 15 - e \in {15, 10, 3})
      <3>1. 15 - e \in Int
        OBVIOUS
      <3> QED BY <1>3, <1>6, <1>7, <3>1
    <2>2. (15 - e) + 1 = 15 - (e - 1)
      OBVIOUS
    <2>3. 15 - (e - 1) \in a /\ 15 - e # 0 - 1 <=> 15 - (e - 1) \in a /\ e # 16
      OBVIOUS
    <2>4. e = 16 => (15 - (e - 1) \in a <=> 0 \in a)
      OBVIOUS
    <2>5. 15 - e \in {15, 10, 3} <=> e \in Poly16 /\ e # 16
      BY DEF Poly16
    <2>6. 16 \in Poly16
      BY DEF Poly16
    <2> QED BY <1>2, <2>1, <2>2, <2>3, <2>4, <2>5, <2>6
  <1>9. Mirror(C!Step16(a)) \in SUBSET Int /\ Turn(Mirror(a), Poly16, 16) \in SUBSET Int
    BY <1>1, <1>5, Mirrored, TurnIs
  <1> QED BY <1>5, <1>8, <1>9, SameTerms

LEMMA Byte8Runs ==
    ASSUME NEW crc \in Bits(8), NEW byte \in Bits(8)
    PROVE  \E c \in [0..8 -> Bits(8)] :
              /\ c[0] = C!Xor(crc, byte) /\ C!Byte8(crc, byte) = c[8]
              /\ \A i \in 1..8 : c[i] = C!Step8(c[i - 1])
  <1> DEFINE IsRun(c) == c = [i \in 0..8 |-> IF i = 0 THEN C!Xor(crc, byte) ELSE C!Step8(c[i - 1])]
             run == CHOOSE c : IsRun(c)
             step == [i \in 1..8 |-> [x \in Bits(8) |-> C!Step8(x)]]
  <1>1. C!Byte8(crc, byte) = run[8]
    BY DEF C!Byte8
  <1>2. 8 \in Nat /\ C!Xor(crc, byte) \in Bits(8)
    BY Zenon DEF Bits, C!Xor
  <1>3. \A i \in 1..8, x \in Bits(8) : C!Step8(x) \in Bits(8)
    BY Step8Turns, Zenon
  <1>4. PICK f : Runs(f, Bits(8), 8, C!Xor(crc, byte), step)
    <2>1. step \in [1..8 -> [Bits(8) -> Bits(8)]]
      <3>1. \A i \in 1..8 : [x \in Bits(8) |-> C!Step8(x)] \in [Bits(8) -> Bits(8)]
        BY <1>3, Zenon
      <3> QED BY <3>1, Zenon
    <2> HIDE DEF step
    <2> QED BY <1>2, <2>1, RunExists, Zenon
  <1>5. ASSUME NEW k \in 1..8 PROVE f[k - 1] \in Bits(8) /\ f[k] = C!Step8(f[k - 1])
    <2>1. f[k - 1] \in Bits(8)
      <3>1. k - 1 \in 0..8
        BY <1>2
      <3> QED BY <1>4, <3>1, Zenon DEF Runs
    <2>2. step[k][f[k - 1]] = C!Step8(f[k - 1])
      BY <2>1, Zenon
    <2> HIDE DEF step
    <2> QED BY <1>4, <2>1, <2>2, Zenon DEF Runs
  <1>6. IsRun(f)
    <2>1. f = [k \in 0..8 |-> f[k]] /\ f[0] = C!Xor(crc, byte)
      BY <1>4, Zenon DEF Runs
    <2>2. \A k \in 0..8 : k = 0 \/ k \in 1..8
      BY <1>2
    <2>3. \A k \in 0..8 : f[k] = IF k = 0 THEN C!Xor(crc, byte) ELSE C!Step8(f[k - 1])
      BY <1>5, <2>1, <2>2, Zenon
    <2> QED BY <2>1, <2>3, Zenon
  <1>7. IsRun(run)
    <2> HIDE DEF IsRun
    <2> QED BY <1>6, Zenon
  <1> HIDE DEF run
  <1>8. run[0] = C!Xor(crc, byte) /\ \A k \in 1..8 : run[k] = C!Step8(run[k - 1])
    <2>1. 0 \in 0..8 /\ \A k \in 1..8 : k \in 0..8 /\ k # 0
      BY <1>2
    <2>2. \A k \in 0..8 : run[k] = IF k = 0 THEN C!Xor(crc, byte) ELSE C!Step8(run[k - 1])
      BY <1>7, Zenon
    <2> QED BY <2>1, <2>2, Zenon
  <1>9. run \in [0..8 -> Bits(8)]
    <2> DEFINE T == {k \in 0..8 : run[k] \in Bits(8)}
    <2>1. 0 \in T
      <3>1. 0 \in 0..8 /\ run[0] \in Bits(8)
        BY <1>2, <1>8
      <3> QED BY <3>1
    <2>2. ASSUME NEW k \in 1..8, k - 1 \in T PROVE k \in T
      <3>1. k \in 0..8 /\ run[k - 1] \in Bits(8)
        BY <1>2, <2>2
      <3>2. run[k] \in Bits(8)
        BY <1>3, <1>8, <3>1, Zenon
      <3> QED BY <3>1, <3>2
    <2>3. \A k \in 0..8 : run[k] \in Bits(8)
      <3>1. \A k \in 0..8 : k \in T
        <4> HIDE DEF T
        <4> QED BY <1>2, <2>1, <2>2, UpTo, Zenon
      <3> QED BY <3>1
    <2>4. run = [i \in 0..8 |-> IF i = 0 THEN C!Xor(crc, byte) ELSE C!Step8(run[i - 1])]
      BY <1>7, Zenon
    <2>5. run = [k \in 0..8 |-> run[k]]
      BY <2>4, Zenon
    <2> QED BY <2>3, <2>5, Zenon
  <1> QED BY <1>1, <1>8, <1>9, Zenon

LEMMA Byte16Runs ==
    ASSUME NEW crc \in Bits(16), NEW byte \in Bits(8)
    PROVE  \E c \in [0..8 -> Bits(16)] :
              /\ c[0] = C!Xor(crc, byte) /\ C!Byte16(crc, byte) = c[8]
              /\ \A i \in 1..8 : c[i] = C!Step16(c[i - 1])
  <1> DEFINE IsRun(c) == c = [i \in 0..8 |-> IF i = 0 THEN C!Xor(crc, byte) ELSE C!Step16(c[i - 1])]
             run == CHOOSE c : IsRun(c)
             step == [i \in 1..8 |-> [x \in Bits(16) |-> C!Step16(x)]]
  <1>1. C!Byte16(crc, byte) = run[8]
    BY DEF C!Byte16
  <1>2. 8 \in Nat /\ C!Xor(crc, byte) \in Bits(16)
    BY DEF Bits, C!Xor
  <1>3. \A i \in 1..8, x \in Bits(16) : C!Step16(x) \in Bits(16)
    BY Step16Turns, Zenon
  <1>4. PICK f : Runs(f, Bits(16), 8, C!Xor(crc, byte), step)
    <2>1. step \in [1..8 -> [Bits(16) -> Bits(16)]]
      <3>1. \A i \in 1..8 : [x \in Bits(16) |-> C!Step16(x)] \in [Bits(16) -> Bits(16)]
        BY <1>3, Zenon
      <3> QED BY <3>1, Zenon
    <2> HIDE DEF step
    <2> QED BY <1>2, <2>1, RunExists, Zenon
  <1>5. ASSUME NEW k \in 1..8 PROVE f[k - 1] \in Bits(16) /\ f[k] = C!Step16(f[k - 1])
    <2>1. f[k - 1] \in Bits(16)
      <3>1. k - 1 \in 0..8
        BY <1>2
      <3> QED BY <1>4, <3>1, Zenon DEF Runs
    <2>2. step[k][f[k - 1]] = C!Step16(f[k - 1])
      BY <2>1, Zenon
    <2> HIDE DEF step
    <2> QED BY <1>4, <2>1, <2>2, Zenon DEF Runs
  <1>6. IsRun(f)
    <2>1. f = [k \in 0..8 |-> f[k]] /\ f[0] = C!Xor(crc, byte)
      BY <1>4, Zenon DEF Runs
    <2>2. \A k \in 0..8 : k = 0 \/ k \in 1..8
      BY <1>2
    <2>3. \A k \in 0..8 : f[k] = IF k = 0 THEN C!Xor(crc, byte) ELSE C!Step16(f[k - 1])
      BY <1>5, <2>1, <2>2, Zenon
    <2> QED BY <2>1, <2>3, Zenon
  <1>7. IsRun(run)
    <2> HIDE DEF IsRun
    <2> QED BY <1>6, Zenon
  <1> HIDE DEF run
  <1>8. run[0] = C!Xor(crc, byte) /\ \A k \in 1..8 : run[k] = C!Step16(run[k - 1])
    <2>1. 0 \in 0..8 /\ \A k \in 1..8 : k \in 0..8 /\ k # 0
      BY <1>2
    <2>2. \A k \in 0..8 : run[k] = IF k = 0 THEN C!Xor(crc, byte) ELSE C!Step16(run[k - 1])
      BY <1>7, Zenon
    <2> QED BY <2>1, <2>2, Zenon
  <1>9. run \in [0..8 -> Bits(16)]
    <2> DEFINE T == {k \in 0..8 : run[k] \in Bits(16)}
    <2>1. 0 \in T
      <3>1. 0 \in 0..8 /\ run[0] \in Bits(16)
        BY <1>2, <1>8
      <3> QED BY <3>1
    <2>2. ASSUME NEW k \in 1..8, k - 1 \in T PROVE k \in T
      <3>1. k \in 0..8 /\ run[k - 1] \in Bits(16)
        BY <1>2, <2>2
      <3>2. run[k] \in Bits(16)
        BY <1>3, <1>8, <3>1, Zenon
      <3> QED BY <3>1, <3>2
    <2>3. \A k \in 0..8 : run[k] \in Bits(16)
      <3>1. \A k \in 0..8 : k \in T
        <4> HIDE DEF T
        <4> QED BY <1>2, <2>1, <2>2, UpTo, Zenon
      <3> QED BY <3>1
    <2>4. run = [i \in 0..8 |-> IF i = 0 THEN C!Xor(crc, byte) ELSE C!Step16(run[i - 1])]
      BY <1>7, Zenon
    <2>5. run = [k \in 0..8 |-> run[k]]
      BY <2>4, Zenon
    <2> QED BY <2>3, <2>5, Zenon
  <1> QED BY <1>1, <1>8, <1>9, Zenon

LEMMA Byte8Typed ==
    ASSUME NEW crc \in Bits(8), NEW byte \in Bits(8) PROVE C!Byte8(crc, byte) \in Bits(8)
  <1>1. PICK c \in [0..8 -> Bits(8)] : C!Byte8(crc, byte) = c[8]
    BY Byte8Runs, Zenon
  <1>2. 8 \in 0..8
    OBVIOUS
  <1> QED BY <1>1, <1>2

LEMMA Byte16Typed ==
    ASSUME NEW crc \in Bits(16), NEW byte \in Bits(8) PROVE C!Byte16(crc, byte) \in Bits(16)
  <1>1. PICK c \in [0..8 -> Bits(16)] : C!Byte16(crc, byte) = c[8]
    BY Byte16Runs, Zenon
  <1>2. 8 \in 0..8
    OBVIOUS
  <1> QED BY <1>1, <1>2

LEMMA Crc8Runs ==
    ASSUME NEW bytes \in Seq(Bits(8))
    PROVE  \E c \in [0..Len(bytes) -> Bits(8)] :
              /\ c[0] = 0..7 /\ C!crc8(bytes) = C!Xor(c[Len(bytes)], 0..7)
              /\ \A k \in 1..Len(bytes) : c[k] = C!Byte8(c[k - 1], bytes[k])
  <1> DEFINE IsRun(c) == c = [k \in 0..Len(bytes) |-> IF k = 0 THEN 0..7 ELSE C!Byte8(c[k - 1], bytes[k])]
             run == CHOOSE c : IsRun(c)
             step == [k \in 1..Len(bytes) |-> [x \in Bits(8) |-> C!Byte8(x, bytes[k])]]
  <1>1. C!crc8(bytes) = C!Xor(run[Len(bytes)], 0..7)
    BY DEF C!crc8
  <1>2. Len(bytes) \in Nat /\ 0..7 \in Bits(8)
    BY DEF Bits
  <1>3. \A k \in 1..Len(bytes), x \in Bits(8) : C!Byte8(x, bytes[k]) \in Bits(8)
    <2>1. \A k \in 1..Len(bytes) : bytes[k] \in Bits(8)
      OBVIOUS
    <2> QED BY <2>1, Byte8Typed, Zenon
  <1>4. PICK f : Runs(f, Bits(8), Len(bytes), 0..7, step)
    <2>1. step \in [1..Len(bytes) -> [Bits(8) -> Bits(8)]]
      <3>1. \A k \in 1..Len(bytes) : [x \in Bits(8) |-> C!Byte8(x, bytes[k])] \in [Bits(8) -> Bits(8)]
        BY <1>3, Zenon
      <3> QED BY <3>1, Zenon
    <2> HIDE DEF step
    <2> QED BY <1>2, <2>1, RunExists, Zenon
  <1>5. ASSUME NEW k \in 1..Len(bytes) PROVE f[k - 1] \in Bits(8) /\ f[k] = C!Byte8(f[k - 1], bytes[k])
    <2>1. f[k - 1] \in Bits(8)
      <3>1. k - 1 \in 0..Len(bytes)
        BY <1>2
      <3> QED BY <1>4, <3>1, Zenon DEF Runs
    <2>2. step[k][f[k - 1]] = C!Byte8(f[k - 1], bytes[k])
      BY <2>1, Zenon
    <2> HIDE DEF step
    <2> QED BY <1>4, <2>1, <2>2, Zenon DEF Runs
  <1>6. IsRun(f)
    <2>1. f = [k \in 0..Len(bytes) |-> f[k]] /\ f[0] = 0..7
      BY <1>4, Zenon DEF Runs
    <2>2. \A k \in 0..Len(bytes) : k = 0 \/ k \in 1..Len(bytes)
      BY <1>2
    <2>3. \A k \in 0..Len(bytes) : f[k] = IF k = 0 THEN 0..7 ELSE C!Byte8(f[k - 1], bytes[k])
      BY <1>5, <2>1, <2>2, Zenon
    <2> QED BY <2>1, <2>3, Zenon
  <1>7. IsRun(run)
    <2> HIDE DEF IsRun
    <2> QED BY <1>6, Zenon
  <1> HIDE DEF run
  <1>8. run[0] = 0..7 /\ \A k \in 1..Len(bytes) : run[k] = C!Byte8(run[k - 1], bytes[k])
    <2>1. 0 \in 0..Len(bytes) /\ \A k \in 1..Len(bytes) : k \in 0..Len(bytes) /\ k # 0
      BY <1>2
    <2>2. \A k \in 0..Len(bytes) : run[k] = IF k = 0 THEN 0..7 ELSE C!Byte8(run[k - 1], bytes[k])
      BY <1>7, Zenon
    <2> QED BY <2>1, <2>2, Zenon
  <1>9. run \in [0..Len(bytes) -> Bits(8)]
    <2> DEFINE T == {k \in 0..Len(bytes) : run[k] \in Bits(8)}
    <2>1. 0 \in T
      <3>1. 0 \in 0..Len(bytes) /\ run[0] \in Bits(8)
        BY <1>2, <1>8
      <3> QED BY <3>1
    <2>2. ASSUME NEW k \in 1..Len(bytes), k - 1 \in T PROVE k \in T
      <3>1. k \in 0..Len(bytes) /\ run[k - 1] \in Bits(8)
        BY <1>2, <2>2
      <3>2. run[k] \in Bits(8)
        BY <1>3, <1>8, <3>1, Zenon
      <3> QED BY <3>1, <3>2
    <2>3. \A k \in 0..Len(bytes) : run[k] \in Bits(8)
      <3>1. \A k \in 0..Len(bytes) : k \in T
        <4> HIDE DEF T
        <4> QED BY <1>2, <2>1, <2>2, UpTo, Zenon
      <3> QED BY <3>1
    <2>4. run = [k \in 0..Len(bytes) |-> IF k = 0 THEN 0..7 ELSE C!Byte8(run[k - 1], bytes[k])]
      BY <1>7, Zenon
    <2>5. run = [k \in 0..Len(bytes) |-> run[k]]
      BY <2>4, Zenon
    <2> QED BY <2>3, <2>5, Zenon
  <1> QED BY <1>1, <1>8, <1>9, Zenon

LEMMA Crc16Runs ==
    ASSUME NEW bytes \in Seq(Bits(8))
    PROVE  \E c \in [0..Len(bytes) -> Bits(16)] :
              /\ c[0] = 0..15 /\ C!crc16(bytes) = C!Xor(c[Len(bytes)], 0..15)
              /\ \A k \in 1..Len(bytes) : c[k] = C!Byte16(c[k - 1], bytes[k])
  <1> DEFINE IsRun(c) == c = [k \in 0..Len(bytes) |-> IF k = 0 THEN 0..15 ELSE C!Byte16(c[k - 1], bytes[k])]
             run == CHOOSE c : IsRun(c)
             step == [k \in 1..Len(bytes) |-> [x \in Bits(16) |-> C!Byte16(x, bytes[k])]]
  <1>1. C!crc16(bytes) = C!Xor(run[Len(bytes)], 0..15)
    BY DEF C!crc16
  <1>2. Len(bytes) \in Nat /\ 0..15 \in Bits(16)
    BY DEF Bits
  <1>3. \A k \in 1..Len(bytes), x \in Bits(16) : C!Byte16(x, bytes[k]) \in Bits(16)
    <2>1. \A k \in 1..Len(bytes) : bytes[k] \in Bits(8)
      OBVIOUS
    <2> QED BY <2>1, Byte16Typed, Zenon
  <1>4. PICK f : Runs(f, Bits(16), Len(bytes), 0..15, step)
    <2>1. step \in [1..Len(bytes) -> [Bits(16) -> Bits(16)]]
      <3>1. \A k \in 1..Len(bytes) : [x \in Bits(16) |-> C!Byte16(x, bytes[k])] \in [Bits(16) -> Bits(16)]
        BY <1>3, Zenon
      <3> QED BY <3>1, Zenon
    <2> HIDE DEF step
    <2> QED BY <1>2, <2>1, RunExists, Zenon
  <1>5. ASSUME NEW k \in 1..Len(bytes) PROVE f[k - 1] \in Bits(16) /\ f[k] = C!Byte16(f[k - 1], bytes[k])
    <2>1. f[k - 1] \in Bits(16)
      <3>1. k - 1 \in 0..Len(bytes)
        BY <1>2
      <3> QED BY <1>4, <3>1, Zenon DEF Runs
    <2>2. step[k][f[k - 1]] = C!Byte16(f[k - 1], bytes[k])
      BY <2>1, Zenon
    <2> HIDE DEF step
    <2> QED BY <1>4, <2>1, <2>2, Zenon DEF Runs
  <1>6. IsRun(f)
    <2>1. f = [k \in 0..Len(bytes) |-> f[k]] /\ f[0] = 0..15
      BY <1>4, Zenon DEF Runs
    <2>2. \A k \in 0..Len(bytes) : k = 0 \/ k \in 1..Len(bytes)
      BY <1>2
    <2>3. \A k \in 0..Len(bytes) : f[k] = IF k = 0 THEN 0..15 ELSE C!Byte16(f[k - 1], bytes[k])
      BY <1>5, <2>1, <2>2, Zenon
    <2> QED BY <2>1, <2>3, Zenon
  <1>7. IsRun(run)
    <2> HIDE DEF IsRun
    <2> QED BY <1>6, Zenon
  <1> HIDE DEF run
  <1>8. run[0] = 0..15 /\ \A k \in 1..Len(bytes) : run[k] = C!Byte16(run[k - 1], bytes[k])
    <2>1. 0 \in 0..Len(bytes) /\ \A k \in 1..Len(bytes) : k \in 0..Len(bytes) /\ k # 0
      BY <1>2
    <2>2. \A k \in 0..Len(bytes) : run[k] = IF k = 0 THEN 0..15 ELSE C!Byte16(run[k - 1], bytes[k])
      BY <1>7, Zenon
    <2> QED BY <2>1, <2>2, Zenon
  <1>9. run \in [0..Len(bytes) -> Bits(16)]
    <2> DEFINE T == {k \in 0..Len(bytes) : run[k] \in Bits(16)}
    <2>1. 0 \in T
      <3>1. 0 \in 0..Len(bytes) /\ run[0] \in Bits(16)
        BY <1>2, <1>8
      <3> QED BY <3>1
    <2>2. ASSUME NEW k \in 1..Len(bytes), k - 1 \in T PROVE k \in T
      <3>1. k \in 0..Len(bytes) /\ run[k - 1] \in Bits(16)
        BY <1>2, <2>2
      <3>2. run[k] \in Bits(16)
        BY <1>3, <1>8, <3>1, Zenon
      <3> QED BY <3>1, <3>2
    <2>3. \A k \in 0..Len(bytes) : run[k] \in Bits(16)
      <3>1. \A k \in 0..Len(bytes) : k \in T
        <4> HIDE DEF T
        <4> QED BY <1>2, <2>1, <2>2, UpTo, Zenon
      <3> QED BY <3>1
    <2>4. run = [k \in 0..Len(bytes) |-> IF k = 0 THEN 0..15 ELSE C!Byte16(run[k - 1], bytes[k])]
      BY <1>7, Zenon
    <2>5. run = [k \in 0..Len(bytes) |-> run[k]]
      BY <2>4, Zenon
    <2> QED BY <2>3, <2>5, Zenon
  <1> QED BY <1>1, <1>8, <1>9, Zenon

LEMMA Byte8Takes ==
    ASSUME NEW crc \in Bits(8), NEW byte \in Bits(8)
    PROVE  Takes(crc, byte, C!Byte8(crc, byte), Poly8, 8)
  <1>1. PICK c \in [0..8 -> Bits(8)] :
             /\ c[0] = C!Xor(crc, byte) /\ C!Byte8(crc, byte) = c[8]
             /\ \A i \in 1..8 : c[i] = C!Step8(c[i - 1])
    BY Byte8Runs, Zenon
  <1>2. ASSUME NEW i \in 1..8 PROVE c[i] = Turn(c[i - 1], Poly8, 8)
    <2>1. c[i - 1] \in Bits(8)
      OBVIOUS
    <2> QED BY <1>1, <2>1, Step8Turns
  <1> QED BY <1>1, <1>2, Zenon DEF Takes, Bits

LEMMA Byte16Takes ==
    ASSUME NEW crc \in Bits(16), NEW byte \in Bits(8)
    PROVE  Takes(Mirror(crc), Mirror(byte), Mirror(C!Byte16(crc, byte)), Poly16, 16)
  <1>1. PICK c \in [0..8 -> Bits(16)] :
             /\ c[0] = C!Xor(crc, byte) /\ C!Byte16(crc, byte) = c[8]
             /\ \A i \in 1..8 : c[i] = C!Step16(c[i - 1])
    BY Byte16Runs, Zenon
  <1> DEFINE a == [i \in 0..8 |-> Mirror(c[i])]
  <1>2. a \in [0..8 -> Bits(16)]
    <2>1. \A i \in 0..8 : Mirror(c[i]) \in Bits(16)
      BY Mirrored
    <2> QED BY <2>1
  <1>3. a[0] = C!Xor(Mirror(crc), Mirror(byte)) /\ a[8] = Mirror(C!Byte16(crc, byte))
    <2>1. byte \in Bits(16)
      BY DEF Bits
    <2> QED BY <1>1, <2>1, MirrorXor
  <1>4. ASSUME NEW i \in 1..8 PROVE a[i] = Turn(a[i - 1], Poly16, 16)
    <2>1. i - 1 \in 0..8 /\ i \in 0..8
      OBVIOUS
    <2>2. c[i - 1] \in Bits(16)
      BY <2>1
    <2>3. Mirror(c[i]) = Turn(Mirror(c[i - 1]), Poly16, 16)
      BY <1>1, <2>2, Step16Turns
    <2> QED BY <2>1, <2>3
  <1> HIDE DEF a
  <1> QED BY <1>2, <1>3, <1>4, Zenon DEF Takes, Bits

(* The bytes as the register's leading bits.                                   *)
Reflected(bytes) == [k \in 1..Len(bytes) |-> Mirror(bytes[k])]

LEMMA Crc8Registers ==
    ASSUME NEW bytes \in Seq(Bits(8))
    PROVE  /\ Aligned(bytes, Len(bytes), 8)
           /\ \E c : /\ Registers(c, bytes, Len(bytes), Poly8, 8)
                     /\ C!crc8(bytes) = C!Xor(c[Len(bytes)], 0..7)
  <1>0. Len(bytes) \in Nat /\ \A k \in 1..Len(bytes) : bytes[k] \in Bits(8)
    OBVIOUS
  <1>1. PICK c \in [0..Len(bytes) -> Bits(8)] :
             /\ c[0] = 0..7 /\ C!crc8(bytes) = C!Xor(c[Len(bytes)], 0..7)
             /\ \A k \in 1..Len(bytes) : c[k] = C!Byte8(c[k - 1], bytes[k])
    BY Crc8Runs, Zenon
  <1>2. ASSUME NEW k \in 1..Len(bytes) PROVE Takes(c[k - 1], bytes[k], c[k], Poly8, 8)
    <2>1. c[k - 1] \in Bits(8)
      <3>1. k - 1 \in 0..Len(bytes)
        BY <1>0
      <3> QED BY <3>1
    <2> QED BY <1>0, <1>1, <2>1, Byte8Takes, Zenon
  <1>3. Registers(c, bytes, Len(bytes), Poly8, 8)
    <2>1. Bits(8) = SUBSET (0..(8 - 1)) /\ c[0] = 0..(8 - 1)
      BY <1>1 DEF Bits
    <2> QED BY <1>2, <2>1, Zenon DEF Registers
  <1>4. Aligned(bytes, Len(bytes), 8)
    <2>1. SUBSET ((8 - 8)..(8 - 1)) = Bits(8)
      BY DEF Bits
    <2> QED BY <1>0, <2>1, Zenon DEF Aligned
  <1> QED BY <1>1, <1>3, <1>4

LEMMA Crc16Registers ==
    ASSUME NEW bytes \in Seq(Bits(8))
    PROVE  /\ Aligned(Reflected(bytes), Len(bytes), 16)
           /\ \E c : /\ Registers(c, Reflected(bytes), Len(bytes), Poly16, 16)
                     /\ c[Len(bytes)] \in Bits(16)
                     /\ C!crc16(bytes) = C!Xor(Mirror(c[Len(bytes)]), 0..15)
  <1>0. /\ Len(bytes) \in Nat
        /\ \A k \in 1..Len(bytes) : bytes[k] \in Bits(8) /\ bytes[k] \in Bits(16)
    <2>1. Bits(8) \subseteq Bits(16)
      BY DEF Bits
    <2> QED BY <2>1
  <1>1. PICK c \in [0..Len(bytes) -> Bits(16)] :
             /\ c[0] = 0..15 /\ C!crc16(bytes) = C!Xor(c[Len(bytes)], 0..15)
             /\ \A k \in 1..Len(bytes) : c[k] = C!Byte16(c[k - 1], bytes[k])
    BY Crc16Runs, Zenon
  <1> DEFINE m == [k \in 0..Len(bytes) |-> Mirror(c[k])]
  <1>2. ASSUME NEW k \in 1..Len(bytes)
        PROVE  Takes(m[k - 1], Reflected(bytes)[k], m[k], Poly16, 16)
    <2>1. k - 1 \in 0..Len(bytes) /\ k \in 0..Len(bytes)
      BY <1>0
    <2>2. c[k - 1] \in Bits(16)
      BY <2>1
    <2>3. Takes(Mirror(c[k - 1]), Mirror(bytes[k]), Mirror(c[k]), Poly16, 16)
      BY <1>0, <1>1, <2>2, Byte16Takes
    <2> QED BY <2>1, <2>3 DEF Reflected
  <1>3. m \in [0..Len(bytes) -> Bits(16)]
    <2>1. \A k \in 0..Len(bytes) : Mirror(c[k]) \in Bits(16)
      BY Mirrored
    <2> QED BY <2>1
  <1>4. m[0] = 0..(16 - 1)
    <2>1. 0..15 \in Bits(16) /\ 0 \in 0..Len(bytes)
      BY <1>0 DEF Bits
    <2>2. Mirror(0..15) \in SUBSET Int /\ \A e \in Int : e \in Mirror(0..15) <=> 15 - e \in 0..15
      BY <2>1, Mirrored
    <2>3. \A e \in Int : 15 - e \in 0..15 <=> e \in 0..15
      OBVIOUS
    <2>4. 0..15 \in SUBSET Int /\ \A e \in Int : e \in Mirror(0..15) <=> e \in 0..15
      BY <2>2, <2>3
    <2>5. Mirror(0..15) = 0..15
      BY <2>2, <2>4, SameTerms, Zenon
    <2>6. m[0] = Mirror(c[0])
      BY <2>1, Zenon
    <2>7. 16 - 1 = 15
      OBVIOUS
    <2> HIDE DEF m
    <2> QED BY <1>1, <2>5, <2>6, <2>7, Zenon
  <1>5. Registers(m, Reflected(bytes), Len(bytes), Poly16, 16)
    <2> HIDE DEF m
    <2>1. Bits(16) = SUBSET (0..(16 - 1))
      BY DEF Bits
    <2> QED BY <1>2, <1>3, <1>4, <2>1, Zenon DEF Registers
  <1>6. /\ m[Len(bytes)] \in Bits(16)
        /\ C!crc16(bytes) = C!Xor(Mirror(m[Len(bytes)]), 0..15)
    <2>1. Len(bytes) \in 0..Len(bytes)
      BY <1>0
    <2>2. c[Len(bytes)] \in Bits(16) /\ m[Len(bytes)] = Mirror(c[Len(bytes)])
      BY <2>1
    <2>3. Mirror(Mirror(c[Len(bytes)])) = c[Len(bytes)]
      BY <2>2, Mirrored
    <2> QED BY <1>1, <1>3, <2>1, <2>2, <2>3, Zenon
  <1>7. Aligned(Reflected(bytes), Len(bytes), 16)
    <2>1. ASSUME NEW k \in 1..Len(bytes)
          PROVE  Reflected(bytes)[k] \in SUBSET ((16 - 8)..(16 - 1))
      <3>1. Mirror(bytes[k]) \in SUBSET (8..15)
        <4>1. \A e \in bytes[k] : e \in 0..7
          BY <1>0 DEF Bits
        <4> QED BY <4>1 DEF Mirror
      <3>2. Reflected(bytes)[k] = Mirror(bytes[k]) /\ 16 - 8 = 8 /\ 16 - 1 = 15
        BY DEF Reflected
      <3> QED BY <3>1, <3>2, Zenon
    <2> QED BY <2>1 DEF Aligned
  <1> HIDE DEF m
  <1> QED BY <1>5, <1>6, <1>7

(* The message and the initial ones, as the division starts with them.         *)
LEMMA Dividends ==
    ASSUME NEW bytes \in Seq(Bits(8)), NEW L, L = Len(bytes)
    PROVE  /\ C!Dividend(bytes, 8, LAMBDA e : e) = C!Xor(Shift(0..7, 8 * L), Rest(bytes, L, 0))
           /\ C!Dividend(bytes, 16, LAMBDA e : 7 - e)
                = C!Xor(Shift(0..15, 8 * L), Rest(Reflected(bytes), L, 0))
  <1>1. L \in Nat /\ DOMAIN bytes = 1..L /\ \A k \in 1..L : bytes[k] \in Bits(8)
    OBVIOUS
  <1>2. \A k \in 1..L : bytes[k] \in SUBSET Int
    BY <1>1 DEF Bits
  <1> DEFINE terms8 == UNION {{8 * L - 8 * k + e + 8 : e \in bytes[k]} : k \in DOMAIN bytes}
             terms16 == UNION {{8 * L - 8 * k + (7 - e) + 16 : e \in bytes[k]} : k \in DOMAIN bytes}
             ones(w) == {8 * L + e : e \in 0..(w - 1)}
  <1>3. /\ C!Dividend(bytes, 8, LAMBDA e : e) = C!Xor(terms8, ones(8))
        /\ C!Dividend(bytes, 16, LAMBDA e : 7 - e) = C!Xor(terms16, ones(16))
    BY DEF C!Dividend
  <1>4. ones(8) = Shift(0..7, 8 * L) /\ ones(16) = Shift(0..15, 8 * L)
    BY <1>1 DEF Shift
  <1>5. terms8 = Rest(bytes, L, 0)
    <2>1. terms8 \in SUBSET Int /\ Rest(bytes, L, 0) \in SUBSET Int
      BY <1>1, <1>2 DEF Rest
    <2>2. ASSUME NEW e \in Int PROVE e \in terms8 <=> e \in Rest(bytes, L, 0)
      <3>1. ASSUME NEW k \in 1..L
            PROVE  e \in {8 * L - 8 * k + i + 8 : i \in bytes[k]}
                     <=> e - 8 * (L - k + 1) \in bytes[k]
        <4> DEFINE m == 8 * (L - k + 1)
        <4>1. m \in Int /\ \A i \in Int : 8 * L - 8 * k + i + 8 = i + m
          BY <1>1
        <4>2. e \in Shift(bytes[k], m) <=> e - m \in bytes[k]
          BY <1>2, <4>1, Shifted
        <4>3. Shift(bytes[k], m) = {8 * L - 8 * k + i + 8 : i \in bytes[k]}
          <5> HIDE DEF m
          <5> QED BY <1>2, <4>1 DEF Shift
        <4> QED BY <4>2, <4>3
      <3>2. e \in terms8 <=> \E k \in 1..L : e \in {8 * L - 8 * k + i + 8 : i \in bytes[k]}
        BY <1>1
      <3>3. e \in Rest(bytes, L, 0) <=> \E k \in 1..L : e - 8 * (L - k + 1) \in bytes[k]
        BY DEF Rest
      <3> HIDE DEF terms8
      <3> QED BY <3>1, <3>2, <3>3, Zenon
    <2> HIDE DEF terms8
    <2> QED BY <2>1, <2>2, SameTerms
  <1>6. terms16 = Rest(Reflected(bytes), L, 0)
    <2>1. terms16 \in SUBSET Int /\ Rest(Reflected(bytes), L, 0) \in SUBSET Int
      BY <1>1, <1>2 DEF Rest
    <2>2. ASSUME NEW e \in Int PROVE e \in terms16 <=> e \in Rest(Reflected(bytes), L, 0)
      <3>1. ASSUME NEW k \in 1..L
            PROVE  e \in {8 * L - 8 * k + (7 - i) + 16 : i \in bytes[k]}
                     <=> e - 8 * (L - k + 1) \in Mirror(bytes[k])
        <4> DEFINE m == 8 * (L - k + 1)
        <4>1. m \in Int /\ \A i \in Int : (e = 8 * L - 8 * k + (7 - i) + 16 <=> e - m = 15 - i)
          BY <1>1
        <4> HIDE DEF m
        <4>2. e - m \in Mirror(bytes[k]) <=> \E i \in bytes[k] : e - m = 15 - i
          BY DEF Mirror
        <4>3. e - m \in Mirror(bytes[k]) <=> \E i \in bytes[k] : e = 8 * L - 8 * k + (7 - i) + 16
          BY <1>2, <4>1, <4>2
        <4> QED BY <4>3 DEF m
      <3>2. e \in terms16 <=> \E k \in 1..L : e \in {8 * L - 8 * k + (7 - i) + 16 : i \in bytes[k]}
        BY <1>1
      <3>3. e \in Rest(Reflected(bytes), L, 0)
              <=> \E k \in 1..L : e - 8 * (L - k + 1) \in Mirror(bytes[k])
        BY <1>1 DEF Rest, Reflected
      <3> HIDE DEF terms16
      <3> QED BY <3>1, <3>2, <3>3, Zenon
    <2> HIDE DEF terms16
    <2> QED BY <2>1, <2>2, SameTerms
  <1>7. \A a, b : C!Xor(a, b) = C!Xor(b, a)
    BY DEF C!Xor
  <1> HIDE DEF terms8, terms16, ones
  <1> QED BY <1>3, <1>4, <1>5, <1>6, <1>7, Zenon

StartsFrom(m, d, L, w) == m = C!Xor(Shift(0..(w - 1), 8 * L), Rest(d, L, 0))

LEMMA RegistersRemain ==
    ASSUME NEW w \in Nat, NEW p \in SUBSET Int, NEW L \in Nat, NEW d, Aligned(d, L, w),
           NEW c, Registers(c, d, L, p, w),
           NEW m, StartsFrom(m, d, L, w)
    PROVE  C!Remainder(m, 8 * L + w, p, w) = c[L]
  <1> DEFINE n == 8 * L + w
             N == 8 * L
  <1>1. n \in Nat /\ N \in Nat /\ w \in 0..n /\ N = n - w
    OBVIOUS
  <1>2. m \in SUBSET Int
    <2>1. Shift(0..(w - 1), 8 * L) \in SUBSET Int /\ Rest(d, L, 0) \in SUBSET Int
      BY DEF Shift, Rest
    <2> QED BY <2>1, XorTyped DEF StartsFrom
  <1> HIDE DEF n, N
  <1>3. PICK r : Divides(r, N, p, w) /\ r[0] = m /\ r[N] = C!Remainder(m, n, p, w)
    <2>1. Remains(C!Remainder(m, n, p, w), m, N, p, w)
      BY <1>1, <1>2, RemainderRuns
    <2> QED BY <2>1, Zenon DEF Remains
  <1>4. r[N] = c[L]
    BY <1>3, RegistersDivide DEF N, StartsFrom
  <1> QED BY <1>3, <1>4 DEF n

(***************************************************************************)
(* For bytes of any number, crc8 and crc16 are the remainders of the       *)
(* divisions they are named after (e2e.py:104, e2e.py:122).                *)
(***************************************************************************)
THEOREM ChecksumsAreRemainders ==
    ASSUME NEW bytes \in Seq(Bits(8))
    PROVE  C!crc8(bytes) = C!Reference8(bytes) /\ C!crc16(bytes) = C!Reference16(bytes)
  <1> DEFINE L == Len(bytes)
             m8 == C!Dividend(bytes, 8, LAMBDA e : e)
             m16 == C!Dividend(bytes, 16, LAMBDA e : 7 - e)
  <1>0. L \in Nat
    OBVIOUS
  <1> HIDE DEF L
  <1>1. StartsFrom(m8, bytes, L, 8) /\ StartsFrom(m16, Reflected(bytes), L, 16)
    <2>1. 8 - 1 = 7 /\ 16 - 1 = 15
      OBVIOUS
    <2> QED BY <2>1, Dividends, Zenon DEF L, StartsFrom
  <1> HIDE DEF m8, m16
  <1>2. C!crc8(bytes) = C!Reference8(bytes)
    <2>1. PICK c : /\ Registers(c, bytes, L, Poly8, 8)
                   /\ C!crc8(bytes) = C!Xor(c[L], 0..7)
      BY Crc8Registers, Zenon DEF L
    <2>2. Poly8 \in SUBSET Int /\ 8 \in Nat
      BY DEF Poly8
    <2>3. Aligned(bytes, L, 8)
      BY Crc8Registers, Zenon DEF L
    <2>4. C!Remainder(m8, 8 * L + 8, Poly8, 8) = c[L]
      BY <1>0, <1>1, <2>1, <2>2, <2>3, RegistersRemain
    <2>5. C!Reference8(bytes)
            = C!Xor(C!Remainder(m8, 8 * L + 8, Poly8, 8), 0..7)
      BY DEF C!Reference8, m8, L, Poly8
    <2> QED BY <2>1, <2>4, <2>5, Zenon
  <1>3. C!crc16(bytes) = C!Reference16(bytes)
    <2>1. PICK c : /\ Registers(c, Reflected(bytes), L, Poly16, 16)
                   /\ C!crc16(bytes) = C!Xor(Mirror(c[L]), 0..15)
      BY Crc16Registers, Zenon DEF L
    <2>2. Poly16 \in SUBSET Int /\ 16 \in Nat
      BY DEF Poly16
    <2>3. Aligned(Reflected(bytes), L, 16)
      BY Crc16Registers, Zenon DEF L
    <2>4. C!Remainder(m16, 8 * L + 16, Poly16, 16) = c[L]
      BY <1>0, <1>1, <2>1, <2>2, <2>3, RegistersRemain
    <2>5. C!Reference16(bytes)
            = C!Xor(Mirror(C!Remainder(m16, 8 * L + 16, Poly16, 16)), 0..15)
      BY DEF C!Reference16, m16, L, Poly16, Mirror
    <2> QED BY <2>1, <2>4, <2>5, Zenon
  <1> QED BY <1>2, <1>3

(***************************************************************************)
(* Whatever a single byte is changed to, wherever it stands, both          *)
(* checksums change (e2e.py:104, e2e.py:122).                              *)
(***************************************************************************)
THEOREM EveryByteCounts ==
    ASSUME NEW a \in Seq(Bits(8)), NEW b \in Seq(Bits(8)), Len(a) = Len(b),
           NEW k, DifferAt(a, b, Len(a), k)
    PROVE  C!crc8(a) # C!crc8(b) /\ C!crc16(a) # C!crc16(b)
  <1> DEFINE L == Len(a)
  <1>0. L \in Nat /\ L = Len(b)
    OBVIOUS
  <1>1. DifferAt(a, b, L, k)
    OBVIOUS
  <1> HIDE DEF L
  <1>2. C!crc8(a) # C!crc8(b)
    <2>1. PICK c : /\ Registers(c, a, L, Poly8, 8)
                   /\ C!crc8(a) = C!Xor(c[L], 0..7)
      BY Crc8Registers, Zenon DEF L
    <2>2. PICK d : /\ Registers(d, b, L, Poly8, 8)
                   /\ C!crc8(b) = C!Xor(d[L], 0..7)
      BY <1>0, Crc8Registers, Zenon
    <2>3. Poly8 \in SUBSET Int /\ 8 \in Nat /\ 0 \in Poly8
      BY DEF Poly8
    <2>4. c[L] # d[L]
      BY <1>0, <1>1, <2>1, <2>2, <2>3, RegistersDiffer
    <2> QED BY <2>1, <2>2, <2>4, XorCancels
  <1>3. C!crc16(a) # C!crc16(b)
    <2>1. PICK c : /\ Registers(c, Reflected(a), L, Poly16, 16) /\ c[L] \in Bits(16)
                   /\ C!crc16(a) = C!Xor(Mirror(c[L]), 0..15)
      BY Crc16Registers, Zenon DEF L
    <2>2. PICK d : /\ Registers(d, Reflected(b), L, Poly16, 16) /\ d[L] \in Bits(16)
                   /\ C!crc16(b) = C!Xor(Mirror(d[L]), 0..15)
      BY <1>0, Crc16Registers, Zenon
    <2>3. Poly16 \in SUBSET Int /\ 16 \in Nat /\ 0 \in Poly16
      BY DEF Poly16
    <2>4. \A q \in 1..L : Reflected(a)[q] = Mirror(a[q]) /\ Reflected(b)[q] = Mirror(b[q])
      BY <1>0 DEF Reflected, L
    <2>5. DifferAt(Reflected(a), Reflected(b), L, k)
      <3>1. k \in 1..L /\ a[k] # b[k] /\ \A q \in 1..L : q # k => a[q] = b[q]
        BY <1>1 DEF DifferAt
      <3>2. a[k] \in Bits(8) /\ b[k] \in Bits(8) /\ Bits(8) \subseteq Bits(16)
        BY <1>0, <3>1 DEF Bits, L
      <3>3. Mirror(Mirror(a[k])) = a[k] /\ Mirror(Mirror(b[k])) = b[k]
        BY <3>2, Mirrored
      <3> QED BY <2>4, <3>1, <3>3 DEF DifferAt
    <2>6. c[L] # d[L]
      BY <1>0, <2>1, <2>2, <2>3, <2>5, RegistersDiffer
    <2>7. Mirror(c[L]) # Mirror(d[L])
      <3>1. Mirror(Mirror(c[L])) = c[L] /\ Mirror(Mirror(d[L])) = d[L]
        BY <2>1, <2>2, Mirrored
      <3> QED BY <2>6, <3>1
    <2> QED BY <2>1, <2>2, <2>7, XorCancels
  <1> QED BY <1>2, <1>3

(***************************************************************************)
(* Of every payload that is ever written, crc8 and crc16 are those         *)
(* remainders, and change with each byte of it (e2e.py:104, e2e.py:122).   *)
(***************************************************************************)
THEOREM ChecksumsSound == Spec => []CrcSound
  <1>1. KeptInv => CrcSound
    <2> SUFFICES ASSUME KeptInv
                 PROVE  LET bytes == [k \in DOMAIN buf |-> Octet(buf[k])]
                        IN  /\ C!crc8(bytes) = C!Reference8(bytes)
                            /\ C!crc16(bytes) = C!Reference16(bytes)
                            /\ \A k \in DOMAIN bytes :
                               \A other \in {{}, {0}, {7}, 0..7} \ {bytes[k]} :
                                  LET changed == [bytes EXCEPT ![k] = other]
                                  IN  /\ C!crc8(changed) # C!crc8(bytes)
                                      /\ C!crc16(changed) # C!crc16(bytes)
      BY DEF CrcSound
    <2> DEFINE bytes == [k \in DOMAIN buf |-> Octet(buf[k])]
    <2>1. buf \in Seq(Int)
      BY DEF KeptInv, Laid
    <2>2. \A digit : Octet(digit) \in Bits(8)
      BY DEF Octet, Bits
    <2>3. bytes \in Seq(Bits(8)) /\ DOMAIN bytes = 1..Len(bytes)
      <3>1. DOMAIN buf = 1..Len(buf) /\ Len(buf) \in Nat
        BY <2>1
      <3>2. bytes \in [1..Len(buf) -> Bits(8)]
        BY <2>2, <3>1
      <3> HIDE DEF bytes
      <3> QED BY <3>1, <3>2
    <2> HIDE DEF bytes
    <2>4. ASSUME NEW k \in DOMAIN bytes, NEW other \in {{}, {0}, {7}, 0..7} \ {bytes[k]}
          PROVE  LET changed == [bytes EXCEPT ![k] = other]
                 IN  C!crc8(changed) # C!crc8(bytes) /\ C!crc16(changed) # C!crc16(bytes)
      <3> DEFINE changed == [bytes EXCEPT ![k] = other]
      <3>1. other \in Bits(8) /\ k \in 1..Len(bytes)
        BY <2>3 DEF Bits
      <3>2. /\ changed \in Seq(Bits(8)) /\ Len(changed) = Len(bytes)
            /\ changed[k] = other /\ \A q \in 1..Len(bytes) : q # k => changed[q] = bytes[q]
        BY <2>3, <3>1
      <3> HIDE DEF changed
      <3>3. DifferAt(changed, bytes, Len(changed), k)
        BY <3>1, <3>2 DEF DifferAt
      <3>4. C!crc8(changed) # C!crc8(bytes) /\ C!crc16(changed) # C!crc16(bytes)
        BY <2>3, <3>1, <3>2, <3>3, EveryByteCounts
      <3> QED BY <3>4 DEF changed
    <2> QED BY <2>3, <2>4, ChecksumsAreRemainders DEF bytes
  <1> QED BY <1>1, KeptInductive, PTL
==============================================================================
