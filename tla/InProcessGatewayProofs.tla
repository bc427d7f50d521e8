----------------------- MODULE InProcessGatewayProofs -----------------------
(***************************************************************************)
(* The gateway over the in-process bus, for any number of threads, slaves, *)
(* registers, requests and calls, with or without the fault injector: its  *)
(* types, its two mutexes, the routing invariant, the conservation of its  *)
(* counters, the books of the fault injector, and that it implements the   *)
(* atomic register service.                                                *)
(***************************************************************************)
EXTENDS InProcessGateway, GatewayProofs

\* The facts about constants that the proofs use.
LEMMA Constants ==
  /\ RegCount \in Nat /\ Len(UnitIds) \in Nat
  /\ \A j \in Bus : UnitIds[j] \in Byte
  BY BusAssumption DEF Bus

\* Flipping the low bit stays below an odd bound.
LEMMA FlipBelow ==
  ASSUME NEW k \in Nat, k % 2 = 1, NEW b \in 0 .. k
  PROVE  Flip(b) \in 0 .. k
<1>1. CASE b % 2 = 0
  BY <1>1 DEF Flip
<1>2. CASE b % 2 # 0
  <2>1. b # 0
    BY <1>2
  <2> QED BY <1>2, <2>1 DEF Flip
<1> QED BY <1>1, <1>2

\* The same for the high byte, where a byte has an even number k of values.
LEMMA FlipHighBelow ==
  ASSUME NEW k \in Nat, k > 0, k % 2 = 0, NEW w \in 0 .. (k * k - 1)
  PROVE  (IF (w \div k) % 2 = 0 THEN w + k ELSE w - k) \in 0 .. (k * k - 1)
<1> DEFINE q == w \div k
           r == w % k
<1>1. w = q * k + r /\ r \in 0 .. (k - 1) /\ q \in Nat
  OBVIOUS
<1>2. q <= k - 1
  BY <1>1
<1> HIDE DEF q, r
<1>3. CASE q % 2 = 0
  <2>1. q # k - 1
    BY <1>1, <1>3
  <2>2. q + 1 <= k - 1 /\ q + 1 \in Nat /\ k - 1 \in Nat
    BY <1>1, <1>2, <2>1
  <2>3. (q + 1) * k <= (k - 1) * k
    BY <2>2
  <2>4. (q + 1) * k = q * k + k /\ (k - 1) * k = k * k - k
    BY <1>1
  <2>5. w + k \in 0 .. (k * k - 1)
    BY <1>1, <2>3, <2>4
  <2> QED BY <1>3, <2>5 DEF q
<1>4. CASE q % 2 # 0
  <2>1. q # 0
    BY <1>4
  <2>2. q * k >= k
    BY <1>1, <2>1
  <2>3. w - k \in 0 .. (k * k - 1)
    BY <1>1, <2>2
  <2> QED BY <1>4, <2>3 DEF q
<1> QED BY <1>3, <1>4

\* A flipped low bit keeps a byte a byte and, in either byte of it, a word a
\* word.
LEMMA FlipShape ==
  /\ \A b \in Byte : Flip(b) \in Byte
  /\ \A w \in U16 : Flip(w) \in U16 /\ FlipHigh(w) \in U16
<1>2. ASSUME NEW b \in Byte PROVE Flip(b) \in Byte
  <2> DEFINE k == 255
  <2>1. k \in Nat /\ k % 2 = 1 /\ Byte = 0 .. k
    BY DEF Byte
  <2> HIDE DEF k
  <2>2. b \in 0 .. k
    BY <2>1
  <2>3. Flip(b) \in 0 .. k
    BY <2>1, <2>2, FlipBelow, Zenon
  <2> QED BY <2>1, <2>3
<1>3. ASSUME NEW w \in U16 PROVE Flip(w) \in U16
  <2> DEFINE k == 65535
  <2>1. k \in Nat /\ k % 2 = 1 /\ U16 = 0 .. k
    BY DEF U16
  <2> HIDE DEF k
  <2>2. w \in 0 .. k
    BY <2>1
  <2>3. Flip(w) \in 0 .. k
    BY <2>1, <2>2, FlipBelow, Zenon
  <2> QED BY <2>1, <2>3
<1>4. ASSUME NEW w \in U16 PROVE FlipHigh(w) \in U16
  <2> DEFINE k == 256
             K == 65535
  <2>1. k \in Nat /\ k > 0 /\ K \in Nat /\ K = k * k - 1 /\ k % 2 = 0
    OBVIOUS
  <2>2. U16 = 0 .. K
    BY DEF U16
  <2>3. FlipHigh(w) = IF (w \div k) % 2 = 0 THEN w + k ELSE w - k
    BY Zenon DEF FlipHigh
  <2> HIDE DEF k, K
  <2> QED BY <2>1, <2>2, <2>3, FlipHighBelow
<1> QED BY <1>2, <1>3, <1>4

\* The words of a corrupted answer are words.
LEMMA FlippedWordsShape ==
  ASSUME NEW r \in Seq(U16), NEW x \in FlippedWords(r)
  PROVE  x \in Seq(U16)
<1>1. ASSUME NEW i \in DOMAIN r
      PROVE  /\ [r EXCEPT ![i] = Flip(r[i])] \in Seq(U16)
             /\ [r EXCEPT ![i] = FlipHigh(r[i])] \in Seq(U16)
  <2>1. i \in 1 .. Len(r)
    BY LenProperties
  <2>2. r[i] \in U16
    BY <2>1, ElementOfSeq
  <2>3. Flip(r[i]) \in U16 /\ FlipHigh(r[i]) \in U16
    BY <2>2, FlipShape
  <2> QED BY <2>1, <2>3, ExceptSeq
<1> QED BY <1>1 DEF FlippedWords

\* The PDU of a corrupted answer is a PDU.
LEMMA FlippedPduShape ==
  ASSUME NEW p \in ResponsePdu, NEW q \in FlippedPdu(p)
  PROVE  q \in ResponsePdu
<1>0. p.fc \in Byte /\ p.code \in Byte /\ p.regs \in Seq(U16)
  BY DEF ResponsePdu
<1>1. Flip(p.fc) \in Byte /\ Flip(p.code) \in Byte
  BY <1>0, FlipShape
<1>2. CASE q = [p EXCEPT !.fc = Flip(p.fc)]
  BY <1>1, <1>2 DEF ResponsePdu
<1>3. CASE q = [p EXCEPT !.code = Flip(p.code)]
  BY <1>1, <1>3 DEF ResponsePdu
<1>4. ASSUME NEW x \in FlippedWords(p.regs), q = [p EXCEPT !.regs = x]
      PROVE  q \in ResponsePdu
  <2>1. x \in Seq(U16)
    BY <1>0, FlippedWordsShape
  <2> QED BY <1>4, <2>1 DEF ResponsePdu
<1> QED BY <1>2, <1>3, <1>4 DEF FlippedPdu

\* A corrupted answer is an answer whose CRC is wrong.
LEMMA FlippedShape ==
  ASSUME NEW a \in ResponseAdu, NEW b \in Flipped(a)
  PROVE  b \in ResponseAdu /\ ~ b.crc_ok
<1>0. a.addr \in Byte /\ a.pdu \in ResponsePdu
  BY DEF ResponseAdu
<1>1. Flip(a.addr) \in Byte
  BY <1>0, FlipShape
<1>2. CASE b = [a EXCEPT !.crc_ok = FALSE]
  BY <1>2 DEF ResponseAdu
<1>3. CASE b = [a EXCEPT !.crc_ok = FALSE, !.addr = Flip(a.addr)]
  BY <1>1, <1>3 DEF ResponseAdu
<1>4. ASSUME NEW p \in FlippedPdu(a.pdu), b = [a EXCEPT !.crc_ok = FALSE, !.pdu = p]
      PROVE  b \in ResponseAdu /\ ~ b.crc_ok
  <2>1. p \in ResponsePdu
    BY <1>0, FlippedPduShape
  <2> QED BY <1>4, <2>1 DEF ResponseAdu
<1> QED BY <1>2, <1>3, <1>4 DEF Flipped

-----------------------------------------------------------------------------
(***************************************************************************)
(* The inductive invariant behind the routing invariant: a thread inside   *)
(* handle has a request, and an intact answer it holds is from the unit    *)
(* that request names.  Each slave's counters are in balance, without      *)
(* which HandleSound does not apply.                                       *)
(***************************************************************************)
AnswerIsFromUnit ==
  \A c \in Clients :
    rsp[c] # <<>> =>
      /\ pc[c] \in {"faulty_ret", "return"}
      /\ rsp[c][1].crc_ok => rsp[c][1].addr = Req(c).unit_id

SlavesBalanced == \A j \in Bus : Balanced(slaves[j])

RouteInv ==
  /\ TypeOK /\ SlavesBalanced
  /\ HasRequest /\ AnswerIsFromUnit /\ RoutingInvariant

\* A slave as InProcessRtu's constructor leaves it.
LEMMA SeededShape ==
  ASSUME NEW id \in Byte
  PROVE  seeded(id) \in Slave(RegCount) /\ Balanced(seeded(id))
<1> DEFINE k == 256
           K == 65535
           h == [i \in 0 .. (RegCount - 1) |-> id * k + i]
           s == mb_slave_init(id, RegCount)
<1>0. /\ k \in Nat /\ K = k * k - 1 /\ K \in Nat
      /\ id \in 0 .. (k - 1) /\ RegCount \in 1 .. k /\ U16 = 0 .. K
  BY BusAssumption DEF Byte, U16
<1> HIDE DEF k, K
<1>1. RegCount \in Nat
  BY <1>0
<1>2. h \in [0 .. (RegCount - 1) -> U16]
  <2>1. ASSUME NEW i \in 0 .. (RegCount - 1)
        PROVE  id * k + i \in U16
    <3>1. id \in Nat /\ id <= k - 1 /\ i \in 0 .. (k - 1)
      BY <1>0
    <3>2. id * k <= (k - 1) * k /\ (k - 1) * k = k * k - k
      BY <1>0, <3>1
    <3>3. id * k + i \in 0 .. K
      BY <1>0, <3>1, <3>2
    <3> QED BY <1>0, <3>3
  <2> QED BY <2>1, Zenon
<1>3. s \in Slave(RegCount)
  BY <1>1, InitIsSlave
<1>4. seeded(id) = [s EXCEPT !.holding = h]
  BY Zenon DEF seeded, k
<1>5. /\ seeded(id).cnt_responses = 0 /\ seeded(id).cnt_broadcast = 0
      /\ seeded(id).cnt_frames_ok = 0 /\ seeded(id).cnt_exceptions = 0
  BY DEF seeded, mb_slave_init
<1> HIDE DEF h, s
<1>6. [s EXCEPT !.holding = h] \in Slave(RegCount)
  BY <1>2, <1>3, SMT DEF Slave
<1>7. Balanced(seeded(id))
  BY <1>5 DEF Balanced
<1> QED BY <1>4, <1>6, <1>7, Zenon

\* The initial state is as the constructors leave it.
LEMMA RouteInit == Init => RouteInv
<1> SUFFICES ASSUME Init PROVE RouteInv
  OBVIOUS
<1> USE DEF Init, GatewayInit
<1>1. slaves \in [Bus -> Slave(RegCount)] /\ SlavesBalanced
  <2>1. ASSUME NEW j \in Bus
        PROVE  seeded(UnitIds[j]) \in Slave(RegCount) /\ Balanced(seeded(UnitIds[j]))
    BY Constants, SeededShape
  <2>2. slaves = [j \in Bus |-> seeded(UnitIds[j])]
    OBVIOUS
  <2>3. \A j \in Bus : slaves[j] = seeded(UnitIds[j])
    BY <2>2
  <2>4. slaves \in [Bus -> Slave(RegCount)]
    BY <2>1, <2>2
  <2> QED BY <2>1, <2>3, <2>4 DEF SlavesBalanced
<1>2. TypeOK
  <2>1. /\ <<>> \in Optional(Requests) /\ <<>> \in Optional(ResponseAdu)
    BY Absent
  <2>2. 1 \in 1 .. (Len(UnitIds) + 1)
    BY Constants
  <2>3. <<>> \in Seq([req : Requests, rsp : ResponseFrame])
    OBVIOUS
  <2>4. stats \in [Counters -> Nat]
    OBVIOUS
  <2> QED BY <1>1, <2>1, <2>2, <2>3, <2>4 DEF TypeOK
<1>3. HasRequest /\ AnswerIsFromUnit /\ RoutingInvariant
  BY DEF HasRequest, AnswerIsFromUnit, RoutingInvariant
<1> QED BY <1>1, <1>2, <1>3 DEF RouteInv

\* A thread inside handle has a request, and its RTU form is a request ADU
\* for the unit it names.
LEMMA InsideHandle ==
  ASSUME RouteInv, NEW c \in Clients, pc[c] \notin {"idle", "closed"}
  PROVE  /\ Req(c) \in Requests
         /\ RtuReq(c) \in RequestAdu /\ RtuReq(c).addr = Req(c).unit_id
<1>1. req[c] # <<>> /\ req[c] \in Optional(Requests)
  BY DEF RouteInv, HasRequest, TypeOK
<1>2. Req(c) \in Requests
  BY <1>1, OptionalValue DEF Req
<1> QED BY <1>2, RequestFields DEF RtuReq

(***************************************************************************)
(* The steps that move one thread from a place inside handle to another,   *)
(* before it has an answer.                                                *)
(***************************************************************************)
LEMMA MoveStep ==
  ASSUME RouteInv, NEW c \in Clients,
         pc[c] \in {"transact", "faulty", "bus"},
         NEW l \in {"faulty", "bus", "loop"}, Goto(c, l),
         bus' \subseteq Clients, m' \subseteq Clients,
         idx' \in [Clients -> 1 .. (Len(UnitIds) + 1)],
         UNCHANGED <<req, rsp, stats, log, slaves, dropped, corrupted>>
  PROVE  RouteInv'
<1>1. /\ TypeOK /\ SlavesBalanced /\ HasRequest /\ AnswerIsFromUnit
      /\ RoutingInvariant
  BY DEF RouteInv
<1>2. TypeOK'
  BY <1>1 DEF TypeOK, Goto
<1>3. pc' = [pc EXCEPT ![c] = l] /\ pc \in [Clients -> {"idle", "transact", "faulty",
                                       "bus", "loop", "faulty_ret", "return", "closed"}]
  BY <1>1 DEF Goto, TypeOK
<1>4. HasRequest'
  BY <1>1, <1>3 DEF HasRequest
<1>5. rsp[c] = <<>>
  BY <1>1 DEF AnswerIsFromUnit
<1>6. AnswerIsFromUnit'
  <2> SUFFICES ASSUME NEW d \in Clients, rsp[d] # <<>>
               PROVE  /\ pc'[d] \in {"faulty_ret", "return"}
                      /\ rsp[d][1].crc_ok => rsp[d][1].addr = Req(d).unit_id
    BY DEF AnswerIsFromUnit, Req
  <2>1. d # c
    BY <1>5
  <2>2. pc'[d] = pc[d]
    BY <1>3, <2>1
  <2> QED BY <1>1, <2>2 DEF AnswerIsFromUnit
<1>7. SlavesBalanced' /\ RoutingInvariant'
  BY <1>1 DEF SlavesBalanced, RoutingInvariant
<1> QED BY <1>2, <1>4, <1>6, <1>7 DEF RouteInv

(***************************************************************************)
(* The steps that end an exchange, with or without an answer x: it is from *)
(* the unit that was asked, or its CRC is wrong.                           *)
(***************************************************************************)
LEMMA AnswerStep ==
  ASSUME RouteInv, NEW c \in Clients, pc[c] \notin {"idle", "closed"},
         NEW l \in {"faulty_ret", "return"},
         NEW x \in Optional(ResponseAdu),
         x # <<>> /\ x[1].crc_ok => x[1].addr = Req(c).unit_id,
         pc' = [pc EXCEPT ![c] = l], rsp' = [rsp EXCEPT ![c] = x],
         slaves' \in [Bus -> Slave(RegCount)], SlavesBalanced',
         bus' \subseteq Clients, m' \subseteq Clients,
         dropped' \in Nat, corrupted' \in Nat,
         UNCHANGED <<req, stats, log, idx>>
  PROVE  RouteInv'
<1>1. TypeOK /\ HasRequest /\ AnswerIsFromUnit /\ RoutingInvariant
  BY DEF RouteInv
<1>2. TypeOK'
  BY <1>1 DEF TypeOK
<1>3. /\ pc \in [Clients -> {"idle", "transact", "faulty", "bus", "loop",
                             "faulty_ret", "return", "closed"}]
      /\ rsp \in [Clients -> Optional(ResponseAdu)]
  BY <1>1 DEF TypeOK
<1>4. HasRequest'
  BY <1>1, <1>3 DEF HasRequest
<1>5. AnswerIsFromUnit'
  <2> SUFFICES ASSUME NEW d \in Clients, rsp'[d] # <<>>
               PROVE  /\ pc'[d] \in {"faulty_ret", "return"}
                      /\ rsp'[d][1].crc_ok => rsp'[d][1].addr = Req(d).unit_id
    BY DEF AnswerIsFromUnit, Req
  <2>1. CASE d = c
    <3>1. rsp'[d] = x /\ pc'[d] = l
      BY <1>3, <2>1
    <3> QED BY <2>1, <3>1
  <2>2. CASE d # c
    <3>1. pc'[d] = pc[d] /\ rsp'[d] = rsp[d]
      BY <1>3, <2>2
    <3> QED BY <1>1, <3>1 DEF AnswerIsFromUnit
  <2> QED BY <2>1, <2>2
<1>6. RoutingInvariant'
  BY <1>1 DEF RoutingInvariant
<1> QED BY <1>2, <1>4, <1>5, <1>6 DEF RouteInv

\* A response with its request's transaction and unit may be logged.
LEMMA LogStep ==
  ASSUME RouteInv, NEW c \in Clients, NEW r \in Requests, NEW f \in ResponseFrame,
         f.transaction_id = r.transaction_id, f.unit_id = r.unit_id,
         Reply(c, r, f)
  PROVE  /\ log' \in [Clients -> Seq([req : Requests, rsp : ResponseFrame])]
         /\ RoutingInvariant'
<1> DEFINE E == [req : Requests, rsp : ResponseFrame]
           e == [req |-> r, rsp |-> f]
<1>1. log \in [Clients -> Seq(E)] /\ RoutingInvariant
  BY DEF RouteInv, TypeOK
<1>2. e \in E /\ e.req = r /\ e.rsp = f
  OBVIOUS
<1>3. log' = [log EXCEPT ![c] = Append(log[c], e)]
  BY DEF Reply
<1> HIDE DEF E, e
<1>4. log[c] \in Seq(E)
  BY <1>1
<1>5. /\ Append(log[c], e) \in Seq(E)
      /\ DOMAIN Append(log[c], e) = 1 .. (Len(log[c]) + 1)
      /\ \A i \in 1 .. (Len(log[c]) + 1) :
           Append(log[c], e)[i] = IF i = Len(log[c]) + 1 THEN e ELSE log[c][i]
  BY <1>2, <1>4
<1>6. log' \in [Clients -> Seq(E)]
  BY <1>1, <1>3, <1>5
<1>7. ASSUME NEW d \in Clients, NEW i \in DOMAIN log'[d]
      PROVE  /\ log'[d][i].rsp.transaction_id = log'[d][i].req.transaction_id
             /\ log'[d][i].rsp.unit_id = log'[d][i].req.unit_id
  <2>1. CASE d # c
    <3>1. log'[d] = log[d]
      BY <1>1, <1>3, <2>1
    <3> QED BY <1>1, <1>7, <3>1 DEF RoutingInvariant
  <2>2. CASE d = c
    <3>1. log'[d] = Append(log[c], e)
      BY <1>1, <1>3, <2>2
    <3>2. i \in 1 .. (Len(log[c]) + 1)
      BY <1>5, <1>7, <3>1
    <3>3. CASE i = Len(log[c]) + 1
      <4>1. log'[d][i] = e
        BY <1>5, <3>1, <3>2, <3>3
      <4> QED BY <1>2, <4>1
    <3>4. CASE i # Len(log[c]) + 1
      <4>1. log'[d][i] = log[c][i]
        BY <1>5, <3>1, <3>2, <3>4
      <4>2. i \in DOMAIN log[c]
        BY <1>4, <3>2, <3>4
      <4> QED BY <1>1, <4>1, <4>2 DEF RoutingInvariant
    <3> QED BY <3>3, <3>4
  <2> QED BY <2>1, <2>2
<1> QED BY <1>6, <1>7 DEF RoutingInvariant, E

\* The call of handle with a PDU.
LEMMA CallKeepsRoute ==
  ASSUME RouteInv, NEW c \in Clients, NEW r \in Requests, HandleCall(c, r),
         UNCHANGED <<slaves, bus, m, idx, dropped, corrupted>>
  PROVE  RouteInv'
<1> USE DEF HandleCall
<1>1. TypeOK /\ HasRequest /\ AnswerIsFromUnit /\ RoutingInvariant /\ SlavesBalanced
  BY DEF RouteInv
<1>2. /\ pc \in [Clients -> {"idle", "transact", "faulty", "bus", "loop",
                             "faulty_ret", "return", "closed"}]
      /\ rsp \in [Clients -> Optional(ResponseAdu)]
      /\ req \in [Clients -> Optional(Requests)]
      /\ stats \in [Counters -> Nat]
  BY <1>1 DEF TypeOK
<1>3. <<r>> \in Optional(Requests) /\ <<r>> # <<>> /\ <<>> \in Optional(ResponseAdu)
  BY Present, Absent
<1>4. stats' \in [Counters -> Nat]
  BY <1>2 DEF Counters
<1>5. TypeOK'
  BY <1>1, <1>2, <1>3, <1>4 DEF TypeOK
<1>6. HasRequest'
  BY <1>1, <1>2, <1>3 DEF HasRequest
<1>7. AnswerIsFromUnit'
  <2> SUFFICES ASSUME NEW d \in Clients, rsp'[d] # <<>>
               PROVE  /\ pc'[d] \in {"faulty_ret", "return"}
                      /\ rsp'[d][1].crc_ok => rsp'[d][1].addr = req'[d][1].unit_id
    BY DEF AnswerIsFromUnit, Req
  <2>1. d # c
    BY <1>2
  <2>2. pc'[d] = pc[d] /\ rsp'[d] = rsp[d] /\ req'[d] = req[d]
    BY <1>2, <2>1
  <2> QED BY <1>1, <2>2 DEF AnswerIsFromUnit, Req
<1>8. RoutingInvariant' /\ SlavesBalanced'
  BY <1>1 DEF RoutingInvariant, SlavesBalanced
<1> QED BY <1>5, <1>6, <1>7, <1>8 DEF RouteInv

\* The call without a PDU.
LEMMA EmptyKeepsRoute ==
  ASSUME RouteInv, NEW c \in Clients, NEW r \in Requests, HandleEmpty(c, r),
         UNCHANGED <<slaves, bus, m, idx, dropped, corrupted>>
  PROVE  RouteInv'
<1> DEFINE f == make_exception(r.transaction_id, r.unit_id, 0,
                               EX_GATEWAY_PATH_UNAVAILABLE)
<1>1. TypeOK /\ HasRequest /\ AnswerIsFromUnit /\ SlavesBalanced
  BY DEF RouteInv
<1>2. 0 \in Byte /\ EX_GATEWAY_PATH_UNAVAILABLE \in Byte
  BY DEF Byte, EX_GATEWAY_PATH_UNAVAILABLE
<1>3. f \in ResponseFrame /\ f.transaction_id = r.transaction_id /\ f.unit_id = r.unit_id
  BY <1>2, RequestFields, MakeExceptionFrame
<1>4. Reply(c, r, f) /\ UNCHANGED <<pc, req, rsp>>
  BY DEF HandleEmpty
<1> HIDE DEF f
<1>5. /\ log' \in [Clients -> Seq([req : Requests, rsp : ResponseFrame])]
      /\ RoutingInvariant'
  BY <1>3, <1>4, LogStep
<1>6. stats' \in [Counters -> Nat]
  <2>1. stats \in [Counters -> Nat] /\ "requests" \in Counters /\ "malformed" \in Counters
    BY <1>1 DEF TypeOK, Counters
  <2> DEFINE u == [stats EXCEPT !["requests"] = stats["requests"] + 1]
             v == [u EXCEPT !["malformed"] = u["malformed"] + 1]
  <2>2. u \in [Counters -> Nat]
    BY <2>1
  <2>3. v \in [Counters -> Nat]
    <3> HIDE DEF u
    <3> QED BY <2>1, <2>2
  <2>4. stats' = v
    BY DEF HandleEmpty
  <2> QED BY <2>3, <2>4
<1>7. TypeOK'
  BY <1>1, <1>4, <1>5, <1>6 DEF TypeOK
<1>8. HasRequest' /\ AnswerIsFromUnit' /\ SlavesBalanced'
  BY <1>1, <1>4 DEF HasRequest, AnswerIsFromUnit, SlavesBalanced, Req
<1> QED BY <1>5, <1>7, <1>8 DEF RouteInv

\* serve_client closes its connection on a framing error.
LEMMA CloseKeepsRoute ==
  ASSUME RouteInv, NEW c \in Clients, CloseStep(c)
  PROVE  RouteInv'
<1> USE DEF CloseStep, FramingError
<1>1. TypeOK /\ HasRequest /\ AnswerIsFromUnit /\ RoutingInvariant /\ SlavesBalanced
  BY DEF RouteInv
<1>2. /\ pc \in [Clients -> {"idle", "transact", "faulty", "bus", "loop",
                             "faulty_ret", "return", "closed"}]
      /\ stats \in [Counters -> Nat]
  BY <1>1 DEF TypeOK
<1>3. stats' \in [Counters -> Nat]
  BY <1>2 DEF Counters
<1>4. TypeOK'
  BY <1>1, <1>2, <1>3 DEF TypeOK
<1>5. HasRequest'
  BY <1>1, <1>2 DEF HasRequest
<1>6. AnswerIsFromUnit'
  BY <1>1, <1>2 DEF AnswerIsFromUnit, Req
<1>7. RoutingInvariant' /\ SlavesBalanced'
  BY <1>1 DEF RoutingInvariant, SlavesBalanced
<1> QED BY <1>4, <1>5, <1>6, <1>7 DEF RouteInv

\* handle returns f, a response of the request's transaction and unit.
LEMMA LeaveKeepsRoute ==
  ASSUME RouteInv, NEW c \in Clients, pc[c] = "return",
         NEW k \in Counters, NEW f \in ResponseFrame,
         f.transaction_id = Req(c).transaction_id, f.unit_id = Req(c).unit_id,
         Leave(c, k, f),
         UNCHANGED <<slaves, bus, m, idx, dropped, corrupted>>
  PROVE  RouteInv'
<1>1. TypeOK /\ HasRequest /\ AnswerIsFromUnit /\ SlavesBalanced
  BY DEF RouteInv
<1>2. /\ pc \in [Clients -> {"idle", "transact", "faulty", "bus", "loop",
                             "faulty_ret", "return", "closed"}]
      /\ rsp \in [Clients -> Optional(ResponseAdu)]
      /\ req \in [Clients -> Optional(Requests)]
      /\ stats \in [Counters -> Nat]
  BY <1>1 DEF TypeOK
<1>3. /\ pc' = [pc EXCEPT ![c] = "idle"]
      /\ rsp' = [rsp EXCEPT ![c] = <<>>]
      /\ req' = [req EXCEPT ![c] = <<>>]
      /\ stats' = [stats EXCEPT ![k] = @ + 1]
      /\ Reply(c, Req(c), f)
  BY DEF Leave
<1>4. Req(c) \in Requests
  BY InsideHandle
<1>5. /\ log' \in [Clients -> Seq([req : Requests, rsp : ResponseFrame])]
      /\ RoutingInvariant'
  BY <1>3, <1>4, LogStep
<1>6. <<>> \in Optional(ResponseAdu) /\ <<>> \in Optional(Requests)
  BY Absent
<1>7. stats' \in [Counters -> Nat]
  BY <1>2, <1>3
<1>8. TypeOK'
  BY <1>1, <1>2, <1>3, <1>5, <1>6, <1>7 DEF TypeOK
<1>9. HasRequest'
  BY <1>1, <1>2, <1>3 DEF HasRequest
<1>10. AnswerIsFromUnit'
  <2> SUFFICES ASSUME NEW d \in Clients, rsp'[d] # <<>>
               PROVE  /\ pc'[d] \in {"faulty_ret", "return"}
                      /\ rsp'[d][1].crc_ok => rsp'[d][1].addr = req'[d][1].unit_id
    BY DEF AnswerIsFromUnit, Req
  <2>1. d # c
    BY <1>2, <1>3
  <2>2. pc'[d] = pc[d] /\ rsp'[d] = rsp[d] /\ req'[d] = req[d]
    BY <1>2, <1>3, <2>1
  <2> QED BY <1>1, <2>2 DEF AnswerIsFromUnit, Req
<1>11. SlavesBalanced'
  BY <1>1 DEF SlavesBalanced
<1> QED BY <1>5, <1>8, <1>9, <1>10, <1>11 DEF RouteInv

\* What handle answers when nothing usable came back.
LEMMA NoResponseFrame ==
  ASSUME RouteInv, NEW c \in Clients, pc[c] = "return"
  PROVE  /\ NoResponse(c) \in ResponseFrame
         /\ NoResponse(c).transaction_id = Req(c).transaction_id
         /\ NoResponse(c).unit_id = Req(c).unit_id
<1>1. Req(c) \in Requests
  BY InsideHandle
<1> QED BY <1>1, NoResponseTyped

\* The three ways out of handle.
LEMMA LeaveStepKeepsRoute ==
  ASSUME RouteInv, NEW c \in Clients, LeaveStep(c)
  PROVE  RouteInv'
<1>0. UNCHANGED <<slaves, bus, m, idx, dropped, corrupted>>
  BY DEF LeaveStep
<1>1. CASE HandleTimeout(c)
  <2>1. pc[c] = "return" /\ Leave(c, "timeouts", NoResponse(c))
    BY <1>1 DEF HandleTimeout
  <2>2. "timeouts" \in Counters
    BY DEF Counters
  <2> QED BY <1>0, <2>1, <2>2, NoResponseFrame, LeaveKeepsRoute
<1>2. CASE HandleCrcFailure(c)
  <2>1. pc[c] = "return" /\ Leave(c, "crc_failures", NoResponse(c))
    BY <1>2 DEF HandleCrcFailure
  <2>2. "crc_failures" \in Counters
    BY DEF Counters
  <2> QED BY <1>0, <2>1, <2>2, NoResponseFrame, LeaveKeepsRoute
<1>3. CASE HandleResponse(c)
  <2> DEFINE f == Translated(c)[1]
  <2>1. pc[c] = "return" /\ rsp[c] # <<>> /\ Translated(c) # <<>>
        /\ Leave(c, "responses", f)
    BY <1>3 DEF HandleResponse
  <2>2. rsp[c] \in Optional(ResponseAdu)
    BY DEF RouteInv, TypeOK
  <2>3. rsp[c][1] \in ResponseAdu
    BY <2>1, <2>2, OptionalValue
  <2>4. Req(c) \in Requests
    BY <2>1, InsideHandle
  <2>5. Req(c).transaction_id \in U16
    BY <2>4, RequestFields
  <2>6. /\ rsp[c][1].crc_ok /\ f \in ResponseFrame
        /\ f.transaction_id = Req(c).transaction_id /\ f.unit_id = rsp[c][1].addr
    BY <2>1, <2>3, <2>5, RtuToTcpFrame DEF Translated
  <2>7. rsp[c][1].addr = Req(c).unit_id
    BY <2>1, <2>6 DEF RouteInv, AnswerIsFromUnit
  <2>8. "responses" \in Counters
    BY DEF Counters
  <2> HIDE DEF f
  <2> QED BY <1>0, <2>1, <2>6, <2>7, <2>8, LeaveKeepsRoute
<1> QED BY <1>1, <1>2, <1>3 DEF LeaveStep

\* A slave is offered the request: what it returns, and the bank after it.
LEMMA OfferSound ==
  ASSUME RouteInv, NEW c \in Clients, pc[c] = "loop", idx[c] \in Bus
  PROVE  /\ Offer(c).resp \in Optional(ResponseAdu)
         /\ Offer(c).resp # <<>> /\ Offer(c).resp[1].crc_ok =>
              Offer(c).resp[1].addr = Req(c).unit_id
         /\ [slaves EXCEPT ![idx[c]] = Offer(c).slave] \in [Bus -> Slave(RegCount)]
         /\ \A j \in Bus : Balanced([slaves EXCEPT ![idx[c]] = Offer(c).slave][j])
<1> DEFINE s == slaves[idx[c]]
           q == RtuReq(c)
           o == Offer(c)
           b == q.addr = MB_ADDR_BROADCAST
<1>1. slaves \in [Bus -> Slave(RegCount)] /\ s \in Slave(RegCount) /\ Balanced(s)
  BY DEF RouteInv, TypeOK, SlavesBalanced
<1>2. q \in RequestAdu /\ q.addr = Req(c).unit_id
  BY InsideHandle
<1>3. RegCount \in Nat
  BY Constants
<1>4. o = mb_slave_handle(s, q)
  BY DEF Offer
<1> HIDE DEF o, s, q
<1>5. Sound(RegCount, s.addr, b, o) /\ (o.result = "RESPOND" => s.addr = q.addr)
  BY <1>1, <1>2, <1>3, <1>4, HandleSound
<1> HIDE DEF b
<1>6. /\ o.slave \in Slave(RegCount) /\ Balanced(o.slave)
      /\ o.resp \in Optional(ResponseAdu)
      /\ o.resp # <<>> => o.resp[1].addr = Req(c).unit_id
  BY <1>2, <1>5 DEF Sound, Shaped
<1>7. [slaves EXCEPT ![idx[c]] = o.slave] \in [Bus -> Slave(RegCount)]
  BY <1>1, <1>6
<1>8. \A j \in Bus : Balanced([slaves EXCEPT ![idx[c]] = o.slave][j])
  <2> SUFFICES ASSUME NEW j \in Bus
               PROVE  Balanced([slaves EXCEPT ![idx[c]] = o.slave][j])
    OBVIOUS
  <2>1. CASE j = idx[c]
    BY <1>1, <1>6, <2>1
  <2>2. CASE j # idx[c]
    <3>1. [slaves EXCEPT ![idx[c]] = o.slave][j] = slaves[j]
      BY <1>1, <2>2
    <3> QED BY <3>1 DEF RouteInv, SlavesBalanced
  <2> QED BY <2>1, <2>2
<1> QED BY <1>6, <1>7, <1>8 DEF o

\* InProcessRtu::transact returns, to the injector or to handle.
LEMMA BusReturnMoves ==
  ASSUME NEW c \in Clients, NEW x, BusReturn(c, x)
  PROVE  \E l \in {"faulty_ret", "return"} :
           pc' = [pc EXCEPT ![c] = l] /\ rsp' = [rsp EXCEPT ![c] = x]
  BY DEF BusReturn, Goto, TransactReturns

\* The loop over the slaves.
LEMMA LoopKeepsRoute ==
  ASSUME RouteInv, NEW c \in Clients,
         SlaveAnswers(c) \/ SlaveSilent(c) \/ BusSilent(c)
  PROVE  RouteInv'
<1>0. TypeOK /\ pc[c] = "loop" /\ SlavesBalanced
  BY DEF RouteInv, SlaveAnswers, SlaveSilent, BusSilent
<1>1. CASE SlaveAnswers(c)
  <2>1. /\ idx[c] \in Bus /\ BusReturn(c, Offer(c).resp)
        /\ slaves' = [slaves EXCEPT ![idx[c]] = Offer(c).slave]
        /\ UNCHANGED <<req, stats, log, m, idx, dropped, corrupted>>
    BY <1>1 DEF SlaveAnswers
  <2>2. /\ Offer(c).resp \in Optional(ResponseAdu)
        /\ Offer(c).resp # <<>> /\ Offer(c).resp[1].crc_ok =>
             Offer(c).resp[1].addr = Req(c).unit_id
        /\ slaves' \in [Bus -> Slave(RegCount)] /\ SlavesBalanced'
    BY <1>0, <2>1, OfferSound DEF SlavesBalanced
  <2>3. bus' \subseteq Clients /\ m' \subseteq Clients /\ dropped' \in Nat /\ corrupted' \in Nat
    BY <1>0, <2>1 DEF TypeOK, BusReturn
  <2>4. PICK l \in {"faulty_ret", "return"} :
           pc' = [pc EXCEPT ![c] = l] /\ rsp' = [rsp EXCEPT ![c] = Offer(c).resp]
    BY <2>1, BusReturnMoves
  <2> QED BY <1>0, <2>1, <2>2, <2>3, <2>4, AnswerStep
<1>2. CASE SlaveSilent(c)
  <2>1. /\ idx[c] \in Bus
        /\ slaves' = [slaves EXCEPT ![idx[c]] = Offer(c).slave]
        /\ idx' = [idx EXCEPT ![c] = idx[c] + 1]
        /\ UNCHANGED <<pc, req, rsp, stats, log, bus, m, dropped, corrupted>>
    BY <1>2 DEF SlaveSilent
  <2>2. slaves' \in [Bus -> Slave(RegCount)] /\ SlavesBalanced'
    BY <1>0, <2>1, OfferSound DEF SlavesBalanced
  <2>3. idx' \in [Clients -> 1 .. (Len(UnitIds) + 1)]
    <3>1. idx[c] + 1 \in 1 .. (Len(UnitIds) + 1)
      BY <2>1, Constants DEF Bus
    <3> QED BY <1>0, <2>1, <3>1 DEF TypeOK
  <2>4. TypeOK'
    BY <1>0, <2>1, <2>2, <2>3 DEF TypeOK
  <2>5. HasRequest' /\ AnswerIsFromUnit' /\ RoutingInvariant'
    BY <2>1 DEF RouteInv, HasRequest, AnswerIsFromUnit, RoutingInvariant, Req
  <2> QED BY <2>2, <2>4, <2>5 DEF RouteInv
<1>3. CASE BusSilent(c)
  <2>1. BusReturn(c, <<>>) /\ UNCHANGED <<req, stats, log, slaves, m, idx, dropped, corrupted>>
    BY <1>3 DEF BusSilent
  <2>2. slaves' \in [Bus -> Slave(RegCount)] /\ SlavesBalanced'
    BY <1>0, <2>1 DEF TypeOK, SlavesBalanced
  <2>3. bus' \subseteq Clients /\ m' \subseteq Clients /\ dropped' \in Nat /\ corrupted' \in Nat
    BY <1>0, <2>1 DEF TypeOK, BusReturn
  <2>4. PICK l \in {"faulty_ret", "return"} :
           pc' = [pc EXCEPT ![c] = l] /\ rsp' = [rsp EXCEPT ![c] = <<>>]
    BY <2>1, BusReturnMoves
  <2>5. <<>> \in Optional(ResponseAdu)
    BY Absent
  <2> QED BY <1>0, <2>1, <2>2, <2>3, <2>4, <2>5, AnswerStep
<1> QED BY <1>1, <1>2, <1>3

\* Entering the injector, and the bus behind it.
LEMMA EntryKeepsRoute ==
  ASSUME RouteInv, NEW c \in Clients,
         FaultyLock(c) \/ FaultyForward(c) \/ BusLock(c)
  PROVE  RouteInv'
<1>0. TypeOK
  BY DEF RouteInv
<1>1. CASE FaultyLock(c)
  <2>1. /\ pc[c] \in {"transact", "faulty", "bus"} /\ Goto(c, "faulty")
        /\ bus' \subseteq Clients /\ m' \subseteq Clients
        /\ idx' \in [Clients -> 1 .. (Len(UnitIds) + 1)]
        /\ UNCHANGED <<req, rsp, stats, log, slaves, dropped, corrupted>>
    BY <1>0, <1>1 DEF FaultyLock, TypeOK
  <2> QED BY <2>1, MoveStep
<1>2. CASE FaultyForward(c)
  <2>1. /\ pc[c] \in {"transact", "faulty", "bus"} /\ Goto(c, "bus")
        /\ bus' \subseteq Clients /\ m' \subseteq Clients
        /\ idx' \in [Clients -> 1 .. (Len(UnitIds) + 1)]
        /\ UNCHANGED <<req, rsp, stats, log, slaves, dropped, corrupted>>
    BY <1>0, <1>2 DEF FaultyForward, TypeOK
  <2> QED BY <2>1, MoveStep
<1>3. CASE BusLock(c)
  <2>1. 1 \in 1 .. (Len(UnitIds) + 1)
    BY Constants
  <2>2. /\ pc[c] \in {"transact", "faulty", "bus"} /\ Goto(c, "loop")
        /\ bus' \subseteq Clients /\ m' \subseteq Clients
        /\ UNCHANGED <<req, rsp, stats, log, slaves, dropped, corrupted>>
    BY <1>0, <1>3 DEF BusLock, TypeOK
  <2>3. idx' \in [Clients -> 1 .. (Len(UnitIds) + 1)]
    BY <1>0, <1>3, <2>1 DEF BusLock, TypeOK
  <2> QED BY <2>2, <2>3, MoveStep
<1> QED BY <1>1, <1>2, <1>3

\* Leaving the injector: with nothing, with a frame whose CRC it spoilt, or
\* with what the bus returned.
LEMMA InjectorKeepsRoute ==
  ASSUME RouteInv, NEW c \in Clients,
         FaultyDrop(c) \/ FaultyCorrupt(c) \/ FaultyReturn(c)
  PROVE  RouteInv'
<1>0. TypeOK /\ SlavesBalanced /\ AnswerIsFromUnit
  BY DEF RouteInv
<1>1. CASE FaultyDrop(c)
  <2>1. /\ pc[c] \notin {"idle", "closed"} /\ pc' = [pc EXCEPT ![c] = "return"]
        /\ rsp' = [rsp EXCEPT ![c] = <<>>]
        /\ UNCHANGED <<req, stats, log, slaves, idx>>
    BY <1>1 DEF FaultyDrop, TransactReturns
  <2>2. /\ bus' \subseteq Clients /\ m' \subseteq Clients
        /\ dropped' \in Nat /\ corrupted' \in Nat
        /\ slaves' \in [Bus -> Slave(RegCount)]
    BY <1>0, <1>1 DEF FaultyDrop, TypeOK
  <2>3. SlavesBalanced'
    BY <1>0, <2>1 DEF SlavesBalanced
  <2>4. <<>> \in Optional(ResponseAdu)
    BY Absent
  <2> QED BY <2>1, <2>2, <2>3, <2>4, AnswerStep
<1>2. CASE FaultyCorrupt(c)
  <2>1. /\ pc[c] \notin {"idle", "closed"} /\ rsp[c] # <<>>
        /\ UNCHANGED <<req, stats, log, slaves, idx>>
    BY <1>2 DEF FaultyCorrupt
  <2>2. PICK bad \in Flipped(rsp[c][1]) : TransactReturns(c, <<bad>>)
    BY <1>2 DEF FaultyCorrupt
  <2>3. rsp[c] \in Optional(ResponseAdu)
    BY <1>0 DEF TypeOK
  <2>4. rsp[c][1] \in ResponseAdu
    BY <2>1, <2>3, OptionalValue
  <2>5. bad \in ResponseAdu /\ ~ bad.crc_ok
    BY <2>4, FlippedShape
  <2>6. <<bad>> \in Optional(ResponseAdu) /\ ~ <<bad>>[1].crc_ok
    BY <2>5, Present
  <2>7. /\ bus' \subseteq Clients /\ m' \subseteq Clients
        /\ dropped' \in Nat /\ corrupted' \in Nat
        /\ slaves' \in [Bus -> Slave(RegCount)]
    BY <1>0, <1>2 DEF FaultyCorrupt, TypeOK
  <2>8. SlavesBalanced'
    BY <1>0, <2>1 DEF SlavesBalanced
  <2>9. pc' = [pc EXCEPT ![c] = "return"] /\ rsp' = [rsp EXCEPT ![c] = <<bad>>]
    BY <2>2 DEF TransactReturns
  <2> QED BY <2>1, <2>6, <2>7, <2>8, <2>9, AnswerStep
<1>3. CASE FaultyReturn(c)
  <2>1. /\ pc[c] \notin {"idle", "closed"} /\ pc' = [pc EXCEPT ![c] = "return"]
        /\ rsp' = [rsp EXCEPT ![c] = rsp[c]]
        /\ UNCHANGED <<req, stats, log, slaves, idx>>
    BY <1>3 DEF FaultyReturn, TransactReturns
  <2>2. /\ bus' \subseteq Clients /\ m' \subseteq Clients
        /\ dropped' \in Nat /\ corrupted' \in Nat
        /\ slaves' \in [Bus -> Slave(RegCount)]
    BY <1>0, <1>3 DEF FaultyReturn, TypeOK
  <2>3. SlavesBalanced'
    BY <1>0, <2>1 DEF SlavesBalanced
  <2>4. rsp[c] \in Optional(ResponseAdu)
    BY <1>0 DEF TypeOK
  <2>5. rsp[c] # <<>> /\ rsp[c][1].crc_ok => rsp[c][1].addr = Req(c).unit_id
    BY <1>0 DEF AnswerIsFromUnit
  <2> QED BY <2>1, <2>2, <2>3, <2>4, <2>5, AnswerStep
<1> QED BY <1>1, <1>2, <1>3

\* Every step of the gateway preserves the invariant.
LEMMA RouteStep == RouteInv /\ [Next]_vars => RouteInv'
<1> SUFFICES ASSUME RouteInv, [Next]_vars PROVE RouteInv'
  OBVIOUS
<1>1. CASE UNCHANGED vars
  <2>1. UNCHANGED <<pc, req, rsp, stats, log, slaves, bus, m, idx, dropped, corrupted>>
    BY <1>1 DEF vars
  <2>2. TypeOK'
    BY <2>1 DEF RouteInv, TypeOK
  <2> QED BY <2>1, <2>2 DEF RouteInv, SlavesBalanced, HasRequest, AnswerIsFromUnit,
                            RoutingInvariant, Req
<1>2. ASSUME NEW c \in Clients, CallStep(c) PROVE RouteInv'
  <2>1. PICK r \in Requests : HandleEmpty(c, r) \/ HandleCall(c, r)
    BY <1>2 DEF CallStep
  <2>2. UNCHANGED <<slaves, bus, m, idx, dropped, corrupted>>
    BY <1>2 DEF CallStep
  <2> QED BY <2>1, <2>2, CallKeepsRoute, EmptyKeepsRoute
<1>3. ASSUME NEW c \in Clients, TransportStep(c) PROVE RouteInv'
  BY <1>3, EntryKeepsRoute, LoopKeepsRoute, InjectorKeepsRoute DEF TransportStep
<1>4. ASSUME NEW c \in Clients, LeaveStep(c) PROVE RouteInv'
  BY <1>4, LeaveStepKeepsRoute
<1> QED BY <1>1, <1>2, <1>3, <1>4, CloseKeepsRoute DEF Next, Progress, Finished

\* What every behaviour of the gateway satisfies.
LEMMA RouteInvariant == Spec => []RouteInv
  BY RouteInit, RouteStep, PTL DEF Spec

(***************************************************************************)
(* The threads of the gateway, GatewayStats, the slaves and the two        *)
(* mutexes keep their types.                                               *)
(***************************************************************************)
THEOREM TypeCorrect == Spec => []TypeOK
<1>1. RouteInv => TypeOK
  BY DEF RouteInv
<1> QED BY <1>1, RouteInvariant, PTL

(***************************************************************************)
(* gateway.hpp:32-34: every response Gateway::handle returns carries the   *)
(* transaction id and the unit id of its request, under any amount of      *)
(* concurrency, for any bank of slaves and with either fault injected.     *)
(***************************************************************************)
THEOREM RoutingHolds == Spec => []RoutingInvariant
<1>1. RouteInv => RoutingInvariant
  BY DEF RouteInv
<1> QED BY <1>1, RouteInvariant, PTL

-----------------------------------------------------------------------------
\* A step that leaves pc and the mutexes alone leaves Exclusive alone.
LEMMA ExclusiveStutter ==
  ASSUME Exclusive, UNCHANGED <<pc, bus, m>>
  PROVE  Exclusive'
  BY DEF Exclusive

(***************************************************************************)
(* A thread moves from k to l, and each mutex is held afterwards by the    *)
(* threads that held it, with or without the one that moved.               *)
(***************************************************************************)
LEMMA ExclusiveMove ==
  ASSUME Exclusive, NEW P, pc \in [Clients -> P], NEW c \in Clients, NEW l,
         pc' = [pc EXCEPT ![c] = l],
         \/ l # "loop" /\ bus' = bus \ {c}
         \/ l = "loop" /\ bus = {} /\ bus' = {c},
         \/ /\ ~ (Faulty /\ l \in {"faulty", "bus", "loop", "faulty_ret"})
            /\ m' = m \ {c}
         \/ /\ Faulty /\ l \in {"faulty", "bus", "loop", "faulty_ret"}
            /\ m \subseteq {c} /\ m' = {c}
  PROVE  Exclusive'
<1> DEFINE In(x) == Faulty /\ x \in {"faulty", "bus", "loop", "faulty_ret"}
<1>1. \A d \in Clients : pc'[d] = IF d = c THEN l ELSE pc[d]
  OBVIOUS
<1>2. bus' = { d \in Clients : pc'[d] = "loop" }
  BY <1>1 DEF Exclusive
<1>3. \A d, e \in bus' : d = e
  BY DEF Exclusive
<1>4. m = { d \in Clients : In(pc[d]) }
  BY DEF Exclusive
<1>5. \A d, e \in m' : d = e
  BY DEF Exclusive
<1>6. m' = { d \in Clients : In(pc'[d]) }
  <2>1. CASE ~ In(l) /\ m' = m \ {c}
    <3> HIDE DEF In
    <3> QED BY <1>1, <1>4, <2>1
  <2>2. CASE In(l) /\ m \subseteq {c} /\ m' = {c}
    <3> HIDE DEF In
    <3> QED BY <1>1, <1>4, <2>2
  <2> QED BY <2>1, <2>2
<1> QED BY <1>2, <1>3, <1>5, <1>6 DEF Exclusive

\* Every step preserves the mutual exclusion.
LEMMA ExclusiveStep ==
  ASSUME TypeOK, Exclusive, [Next]_vars
  PROVE  Exclusive'
<1> DEFINE P == {"idle", "transact", "faulty", "bus", "loop", "faulty_ret", "return",
                  "closed"}
<1>0. pc \in [Clients -> P]
  BY DEF TypeOK
<1> HIDE DEF P
<1>1. CASE UNCHANGED vars
  BY <1>1, ExclusiveStutter DEF vars
<1>2. ASSUME NEW c \in Clients, CallStep(c) PROVE Exclusive'
  <2>1. PICK r \in Requests : HandleEmpty(c, r) \/ HandleCall(c, r)
    BY <1>2 DEF CallStep
  <2>2. UNCHANGED <<bus, m>>
    BY <1>2 DEF CallStep
  <2>3. CASE HandleEmpty(c, r)
    BY <2>2, <2>3, ExclusiveStutter DEF HandleEmpty
  <2>4. CASE HandleCall(c, r)
    <3>1. pc[c] = "idle" /\ pc' = [pc EXCEPT ![c] = "transact"]
      BY <2>4 DEF HandleCall
    <3>2. c \notin bus /\ c \notin m
      BY <3>1 DEF Exclusive
    <3> QED BY <1>0, <2>2, <3>1, <3>2, ExclusiveMove
  <2> QED BY <2>1, <2>3, <2>4
<1>3. ASSUME NEW c \in Clients, LeaveStep(c) PROVE Exclusive'
  <2>1. pc[c] = "return" /\ pc' = [pc EXCEPT ![c] = "idle"] /\ UNCHANGED <<bus, m>>
    BY <1>3 DEF LeaveStep, HandleTimeout, HandleCrcFailure, HandleResponse, Leave
  <2>2. c \notin bus /\ c \notin m
    BY <2>1 DEF Exclusive
  <2> QED BY <1>0, <2>1, <2>2, ExclusiveMove
<1>4. ASSUME NEW c \in Clients, FaultyLock(c) PROVE Exclusive'
  <2>1. /\ Faulty /\ pc[c] = "transact" /\ pc' = [pc EXCEPT ![c] = "faulty"]
        /\ m = {} /\ m' = {c} /\ bus' = bus
    BY <1>4 DEF FaultyLock, Goto
  <2>2. c \notin bus
    BY <2>1 DEF Exclusive
  <2> QED BY <1>0, <2>1, <2>2, ExclusiveMove
<1>5. ASSUME NEW c \in Clients, FaultyDrop(c) PROVE Exclusive'
  <2>1. /\ pc[c] = "faulty" /\ pc' = [pc EXCEPT ![c] = "return"]
        /\ m' = m \ {c} /\ bus' = bus
    BY <1>5 DEF FaultyDrop, TransactReturns
  <2>2. c \notin bus
    BY <2>1 DEF Exclusive
  <2> QED BY <1>0, <2>1, <2>2, ExclusiveMove
<1>6. ASSUME NEW c \in Clients, FaultyForward(c) PROVE Exclusive'
  <2>1. /\ pc[c] = "faulty" /\ pc' = [pc EXCEPT ![c] = "bus"] /\ m' = m /\ bus' = bus
    BY <1>6 DEF FaultyForward, Goto
  <2>2. c \notin bus /\ (Faulty => m = {c}) /\ (~ Faulty => m = {})
    BY <2>1 DEF Exclusive
  <2> QED BY <1>0, <2>1, <2>2, ExclusiveMove
<1>7. ASSUME NEW c \in Clients, BusLock(c) PROVE Exclusive'
  <2>1. /\ pc[c] = (IF Faulty THEN "bus" ELSE "transact") /\ pc' = [pc EXCEPT ![c] = "loop"]
        /\ m' = m /\ bus = {} /\ bus' = {c}
    BY <1>7 DEF BusLock, Goto
  <2>2. (Faulty => m = {c}) /\ (~ Faulty => m = {})
    BY <2>1 DEF Exclusive
  <2> QED BY <1>0, <2>1, <2>2, ExclusiveMove
<1>8. ASSUME NEW c \in Clients, NEW x, pc[c] = "loop", BusReturn(c, x), m' = m
      PROVE  Exclusive'
  <2>1. bus' = bus \ {c} /\ (Faulty => m = {c}) /\ (~ Faulty => m = {})
    BY <1>8 DEF BusReturn, Exclusive
  <2>2. pc' = [pc EXCEPT ![c] = IF Faulty THEN "faulty_ret" ELSE "return"]
    BY <1>8 DEF BusReturn, Goto, TransactReturns
  <2> QED BY <1>0, <1>8, <2>1, <2>2, ExclusiveMove
<1>9. ASSUME NEW c \in Clients, SlaveAnswers(c) \/ BusSilent(c) PROVE Exclusive'
  BY <1>8, <1>9 DEF SlaveAnswers, BusSilent
<1>10. ASSUME NEW c \in Clients, SlaveSilent(c) PROVE Exclusive'
  BY <1>10, ExclusiveStutter DEF SlaveSilent
<1>11. ASSUME NEW c \in Clients, FaultyCorrupt(c) \/ FaultyReturn(c) PROVE Exclusive'
  <2>1. /\ pc[c] = "faulty_ret" /\ pc' = [pc EXCEPT ![c] = "return"]
        /\ m' = m \ {c} /\ bus' = bus
    BY <1>11 DEF FaultyCorrupt, FaultyReturn, TransactReturns
  <2>2. c \notin bus
    BY <2>1 DEF Exclusive
  <2> QED BY <1>0, <2>1, <2>2, ExclusiveMove
<1>12. ASSUME NEW c \in Clients, CloseStep(c) PROVE Exclusive'
  <2>1. pc[c] = "idle" /\ pc' = [pc EXCEPT ![c] = "closed"] /\ UNCHANGED <<bus, m>>
    BY <1>12 DEF CloseStep, FramingError
  <2>2. c \notin bus /\ c \notin m
    BY <2>1 DEF Exclusive
  <2> QED BY <1>0, <2>1, <2>2, ExclusiveMove
<1> QED BY <1>1, <1>2, <1>3, <1>4, <1>5, <1>6, <1>7, <1>9, <1>10, <1>11, <1>12
        DEF Next, Progress, TransportStep, Finished

(***************************************************************************)
(* rtu_transport.hpp:69 and :120: bus_ is held by the one thread that is   *)
(* in the loop over the slaves, and m_ by the one thread that is inside    *)
(* the fault injector.                                                     *)
(***************************************************************************)
THEOREM MutualExclusion == Spec => []Exclusive
<1>1. Init => Exclusive
  BY DEF Init, GatewayInit, Exclusive
<1>2. TypeOK /\ Exclusive /\ [Next]_vars => Exclusive'
  BY ExclusiveStep
<1> QED BY <1>1, <1>2, TypeCorrect, PTL DEF Spec

-----------------------------------------------------------------------------
\* A step inside the transport moves no counter and nobody in or out.
LEMMA TransportConserves ==
  ASSUME TypeOK, StatsConserved, NEW c \in Clients, TransportStep(c)
  PROVE  StatsConserved'
<1> DEFINE P == {"idle", "transact", "faulty", "bus", "loop", "faulty_ret", "return",
                  "closed"}
<1>0. pc \in [Clients -> P]
  BY DEF TypeOK
<1>1. stats' = stats /\ pc[c] \notin {"idle", "closed"}
  BY DEF TransportStep, FaultyLock, FaultyDrop, FaultyForward, BusLock, SlaveAnswers,
         SlaveSilent, BusSilent, FaultyCorrupt, FaultyReturn
<1>2. pc' = pc \/ \E l \in P \ {"idle", "closed"} : pc' = [pc EXCEPT ![c] = l]
  BY DEF TransportStep, FaultyLock, FaultyDrop, FaultyForward, BusLock, SlaveAnswers,
         SlaveSilent, BusSilent, FaultyCorrupt, FaultyReturn, BusReturn,
         TransactReturns, Goto
<1>3. InFlight' = InFlight /\ Closed' = Closed
  <2>1. CASE pc' = pc
    BY <2>1 DEF InFlight, Closed
  <2>2. ASSUME NEW l \in P \ {"idle", "closed"}, pc' = [pc EXCEPT ![c] = l]
        PROVE  InFlight' = InFlight /\ Closed' = Closed
    <3> HIDE DEF P
    <3> QED BY <1>0, <1>1, <2>2, FlightOn
  <2> QED BY <1>2, <2>1, <2>2
<1> QED BY <1>1, <1>3 DEF StatsConserved

\* Every step preserves the balance of GatewayStats.
LEMMA StatsStep ==
  ASSUME TypeOK, StatsConserved, [Next]_vars
  PROVE  StatsConserved'
<1> DEFINE P == {"idle", "transact", "faulty", "bus", "loop", "faulty_ret", "return",
                  "closed"}
<1>0. pc \in [Clients -> P] /\ stats \in [Counters -> Nat]
  BY DEF TypeOK
<1> HIDE DEF P
<1>1. CASE UNCHANGED vars
  BY <1>1 DEF vars, StatsConserved, InFlight, Closed
<1>2. ASSUME NEW c \in Clients, NEW r \in Requests, HandleEmpty(c, r)
      PROVE  StatsConserved'
  <2>1. stats' = [stats EXCEPT !["requests"] = @ + 1, !["malformed"] = @ + 1]
        /\ pc' = pc
    BY <1>2 DEF HandleEmpty
  <2>2. InFlight' = InFlight /\ Closed' = Closed
    BY <2>1 DEF InFlight, Closed
  <2> QED BY <1>0, <2>1, <2>2, FlightCount DEF StatsConserved, Counters
<1>3. ASSUME NEW c \in Clients, NEW r \in Requests, HandleCall(c, r)
      PROVE  StatsConserved'
  <2>1. /\ stats' = [stats EXCEPT !["requests"] = @ + 1]
        /\ pc[c] = "idle" /\ pc' = [pc EXCEPT ![c] = "transact"]
    BY <1>3 DEF HandleCall
  <2>2. Cardinality(InFlight') = Cardinality(InFlight) + 1 /\ Closed' = Closed
    BY <1>0, <2>1, FlightIn
  <2> QED BY <1>0, <2>1, <2>2, FlightCount DEF StatsConserved, Counters
<1>4. ASSUME NEW c \in Clients, NEW k \in {"timeouts", "crc_failures", "responses"},
             NEW f, pc[c] = "return", Leave(c, k, f)
      PROVE  StatsConserved'
  <2>1. stats' = [stats EXCEPT ![k] = @ + 1] /\ pc' = [pc EXCEPT ![c] = "idle"]
    BY <1>4 DEF Leave
  <2>2. Cardinality(InFlight') = Cardinality(InFlight) - 1 /\ Closed' = Closed
    BY <1>0, <1>4, <2>1, FlightOut
  <2> QED BY <1>0, <2>1, <2>2, FlightCount DEF StatsConserved, Counters
<1>5. ASSUME NEW c \in Clients, LeaveStep(c) PROVE StatsConserved'
  BY <1>4, <1>5 DEF LeaveStep, HandleTimeout, HandleCrcFailure, HandleResponse
<1>6. ASSUME NEW c \in Clients, CallStep(c) PROVE StatsConserved'
  BY <1>2, <1>3, <1>6 DEF CallStep
<1>7. ASSUME NEW c \in Clients, TransportStep(c) PROVE StatsConserved'
  BY <1>7, TransportConserves
<1>8. ASSUME NEW c \in Clients, CloseStep(c) PROVE StatsConserved'
  <2>1. /\ stats' = [stats EXCEPT !["malformed"] = @ + 1]
        /\ pc[c] = "idle" /\ pc' = [pc EXCEPT ![c] = "closed"]
    BY <1>8 DEF CloseStep, FramingError
  <2>2. InFlight' = InFlight /\ Cardinality(Closed') = Cardinality(Closed) + 1
    BY <1>0, <2>1, FlightEnds
  <2> QED BY <1>0, <2>1, <2>2, FlightCount DEF StatsConserved, Counters
<1> QED BY <1>1, <1>5, <1>6, <1>7, <1>8 DEF Next, Progress, Finished

(***************************************************************************)
(* GatewayStats (gateway.hpp:37-44) loses nothing, however many threads    *)
(* are inside Gateway::handle: every request counted is under exactly one  *)
(* outcome or still in flight, and what malformed holds besides are the    *)
(* framing errors serve_client has counted (main.cpp:122), one for every   *)
(* connection it closed for that reason.                                   *)
(***************************************************************************)
THEOREM StatsAreConserved == Spec => []StatsConserved
<1>1. Init => StatsConserved
  <2>1. Init => InFlight = {} /\ Closed = {} /\ stats = [k \in Counters |-> 0]
    BY DEF Init, GatewayInit, InFlight, Closed
  <2>2. Cardinality({}) = 0
    BY FS_EmptySet
  <2> QED BY <2>1, <2>2 DEF StatsConserved, Counters
<1>2. TypeOK /\ StatsConserved /\ [Next]_vars => StatsConserved'
  BY StatsStep
<1> QED BY <1>1, <1>2, TypeCorrect, PTL DEF Spec

-----------------------------------------------------------------------------
(***************************************************************************)
(* The injector's books.  What FaultsAccounted needs besides the routing   *)
(* invariant's strengthening: until the injector has had its turn an       *)
(* answer is intact, and no answer is too short for rtu_to_tcp, so that a  *)
(* CRC failure of the gateway is a corrupted frame.                        *)
(***************************************************************************)
AnswersIntact ==
  \A c \in Clients :
    rsp[c] # <<>> => /\ MB_ADU_MIN <= Size(rsp[c][1])
                     /\ pc[c] = "faulty_ret" => rsp[c][1].crc_ok

FaultInv == AnswersIntact /\ FaultsAccounted

\* The threads that hold a damaged answer, and those that will report none.
Damaged == { c \in Clients : rsp[c] # <<>> /\ ~ rsp[c][1].crc_ok }
Unanswered == { c \in Clients : pc[c] = "return" /\ rsp[c] = <<>> }

\* FaultsAccounted in these terms.
LEMMA AccountedForm ==
  /\ FaultsAccounted <=>
       /\ corrupted = stats["crc_failures"] + Cardinality(Damaged)
       /\ dropped <= stats["timeouts"] + Cardinality(Unanswered)
  /\ FaultsAccounted' <=>
       /\ corrupted' = stats'["crc_failures"] + Cardinality(Damaged')
       /\ dropped' <= stats'["timeouts"] + Cardinality(Unanswered')
  BY DEF FaultsAccounted, Damaged, Unanswered

\* The numbers in it.
LEMMA AccountNumbers ==
  ASSUME TypeOK, FaultInv
  PROVE  /\ corrupted \in Nat /\ dropped \in Nat
         /\ stats["crc_failures"] \in Nat /\ stats["timeouts"] \in Nat
         /\ Cardinality(Damaged) \in Nat /\ Cardinality(Unanswered) \in Nat
         /\ corrupted = stats["crc_failures"] + Cardinality(Damaged)
         /\ dropped <= stats["timeouts"] + Cardinality(Unanswered)
<1>1. Damaged \in SUBSET Clients /\ Unanswered \in SUBSET Clients
  BY DEF Damaged, Unanswered
<1>2. \A S \in SUBSET Clients : Cardinality(S) \in Nat
  <2> TAKE S \in SUBSET Clients
  <2>1. IsFiniteSet(S)
    BY GatewayAssumption, FS_Subset
  <2> QED BY <2>1, FS_CardinalityType
<1>3. stats["crc_failures"] \in Nat /\ stats["timeouts"] \in Nat
  BY DEF TypeOK, Counters
<1> QED BY <1>1, <1>2, <1>3, AccountedForm DEF TypeOK, FaultInv

\* A step of thread c keeps the injector's count of corrupted frames: c comes to
\* hold one, or gives it to the gateway to count, or neither.
LEMMA DamagedMove ==
  ASSUME TypeOK, FaultInv, NEW c \in Clients,
         \A d \in Clients : d # c => rsp'[d] = rsp[d],
         \/ /\ c \in Damaged <=> c \in Damaged'
            /\ corrupted' = corrupted /\ stats'["crc_failures"] = stats["crc_failures"]
         \/ /\ c \notin Damaged /\ c \in Damaged'
            /\ corrupted' = corrupted + 1 /\ stats'["crc_failures"] = stats["crc_failures"]
         \/ /\ c \in Damaged /\ c \notin Damaged'
            /\ corrupted' = corrupted /\ stats'["crc_failures"] = stats["crc_failures"] + 1
  PROVE  corrupted' = stats'["crc_failures"] + Cardinality(Damaged')
<1>1. /\ Damaged \in SUBSET Clients /\ Damaged' \in SUBSET Clients
      /\ Damaged \ {c} = Damaged' \ {c}
  BY DEF Damaged
<1> DEFINE old == Cardinality(Damaged)
           new == Cardinality(Damaged')
<1>2. /\ (c \in Damaged <=> c \in Damaged') => new = old
      /\ c \notin Damaged /\ c \in Damaged' => new = old + 1
      /\ c \in Damaged /\ c \notin Damaged' => new = old - 1
  BY <1>1, CountedStep
<1>3. old \in Nat /\ stats["crc_failures"] \in Nat /\ corrupted = stats["crc_failures"] + old
  BY AccountNumbers
<1> HIDE DEF old, new
<1> QED BY <1>2, <1>3 DEF new

\* And of dropped exchanges, each of which will be a timeout.
LEMMA UnansweredMove ==
  ASSUME TypeOK, FaultInv, NEW c \in Clients,
         \A d \in Clients : d # c => pc'[d] = pc[d] /\ rsp'[d] = rsp[d],
         \/ /\ c \in Unanswered => c \in Unanswered'
            /\ dropped' = dropped /\ stats'["timeouts"] = stats["timeouts"]
         \/ /\ c \notin Unanswered /\ c \in Unanswered'
            /\ dropped' = dropped + 1 /\ stats'["timeouts"] = stats["timeouts"]
         \/ dropped' = dropped /\ stats'["timeouts"] = stats["timeouts"] + 1
  PROVE  dropped' <= stats'["timeouts"] + Cardinality(Unanswered')
<1>1. /\ Unanswered \in SUBSET Clients /\ Unanswered' \in SUBSET Clients
      /\ Unanswered \ {c} = Unanswered' \ {c}
  BY DEF Unanswered
<1> DEFINE old == Cardinality(Unanswered)
           new == Cardinality(Unanswered')
<1>2. /\ (c \in Unanswered <=> c \in Unanswered') => new = old
      /\ c \notin Unanswered /\ c \in Unanswered' => new = old + 1
      /\ c \in Unanswered /\ c \notin Unanswered' => new = old - 1
  BY <1>1, CountedStep
<1>3. /\ old \in Nat /\ stats["timeouts"] \in Nat /\ dropped \in Nat
      /\ dropped <= stats["timeouts"] + old
  BY AccountNumbers
<1> HIDE DEF old, new
<1> QED BY <1>2, <1>3 DEF new

\* A step of c keeps AnswersIntact if the answer c then holds is long enough, and
\* intact where the injector has still to see it.
LEMMA IntactMove ==
  ASSUME FaultInv, NEW c \in Clients,
         \A d \in Clients : d # c => pc'[d] = pc[d] /\ rsp'[d] = rsp[d],
         rsp'[c] # <<>> => /\ MB_ADU_MIN <= Size(rsp'[c][1])
                           /\ pc'[c] = "faulty_ret" => rsp'[c][1].crc_ok
  PROVE  AnswersIntact'
<1> SUFFICES ASSUME NEW d \in Clients, rsp'[d] # <<>>
             PROVE  /\ MB_ADU_MIN <= Size(rsp'[d][1])
                    /\ pc'[d] = "faulty_ret" => rsp'[d][1].crc_ok
  BY DEF AnswersIntact
<1>1. CASE d = c
  BY <1>1
<1>2. CASE d # c
  BY <1>2 DEF FaultInv, AnswersIntact
<1> QED BY <1>1, <1>2

\* The three together, for a step that leaves c at l with x.
LEMMA FaultMove ==
  ASSUME TypeOK, FaultInv, NEW c \in Clients, NEW l, NEW x,
         pc' = [pc EXCEPT ![c] = l] \/ (pc' = pc /\ l = pc[c]),
         rsp' = [rsp EXCEPT ![c] = x] \/ (rsp' = rsp /\ x = rsp[c]),
         x # <<>> => MB_ADU_MIN <= Size(x[1]) /\ (l = "faulty_ret" => x[1].crc_ok),
         \/ /\ c \in Damaged <=> (x # <<>> /\ ~ x[1].crc_ok)
            /\ corrupted' = corrupted /\ stats'["crc_failures"] = stats["crc_failures"]
         \/ /\ c \notin Damaged /\ x # <<>> /\ ~ x[1].crc_ok
            /\ corrupted' = corrupted + 1 /\ stats'["crc_failures"] = stats["crc_failures"]
         \/ /\ c \in Damaged /\ x = <<>>
            /\ corrupted' = corrupted /\ stats'["crc_failures"] = stats["crc_failures"] + 1,
         \/ /\ c \in Unanswered => l = "return" /\ x = <<>>
            /\ dropped' = dropped /\ stats'["timeouts"] = stats["timeouts"]
         \/ /\ c \notin Unanswered /\ l = "return" /\ x = <<>>
            /\ dropped' = dropped + 1 /\ stats'["timeouts"] = stats["timeouts"]
         \/ dropped' = dropped /\ stats'["timeouts"] = stats["timeouts"] + 1
  PROVE  FaultInv'
<1>1. /\ \A d \in Clients : d # c => pc'[d] = pc[d] /\ rsp'[d] = rsp[d]
      /\ pc'[c] = l /\ rsp'[c] = x
  <2>1. DOMAIN pc = Clients /\ DOMAIN rsp = Clients
    BY DEF TypeOK
  <2>2. \A d \in Clients : d # c => pc'[d] = pc[d] /\ rsp'[d] = rsp[d]
    BY <2>1
  <2>3. pc'[c] = l /\ rsp'[c] = x
    BY <2>1
  <2> QED BY <2>2, <2>3
<1>2. /\ c \in Damaged' <=> (x # <<>> /\ ~ x[1].crc_ok)
      /\ c \in Unanswered' <=> (l = "return" /\ x = <<>>)
  BY <1>1 DEF Damaged, Unanswered
<1>3. AnswersIntact'
  BY <1>1, IntactMove
<1>4. corrupted' = stats'["crc_failures"] + Cardinality(Damaged')
  BY <1>1, <1>2, DamagedMove
<1>5. dropped' <= stats'["timeouts"] + Cardinality(Unanswered')
  BY <1>1, <1>2, UnansweredMove
<1> QED BY <1>3, <1>4, <1>5, AccountedForm DEF FaultInv

\* A thread that has not reached the end of transact holds no answer.
LEMMA NothingYet ==
  ASSUME RouteInv, NEW c \in Clients, pc[c] \notin {"faulty_ret", "return"}
  PROVE  rsp[c] = <<>> /\ c \notin Damaged /\ c \notin Unanswered
  BY DEF RouteInv, AnswerIsFromUnit, Damaged, Unanswered

\* The answer of a slave is sealed and no shorter than rtu_to_tcp wants it.
LEMMA OfferIntact ==
  ASSUME RouteInv, NEW c \in Clients, pc[c] = "loop", idx[c] \in Bus,
         Offer(c).resp # <<>>
  PROVE  MB_ADU_MIN <= Size(Offer(c).resp[1]) /\ Offer(c).resp[1].crc_ok
<1> DEFINE s == slaves[idx[c]]
           q == RtuReq(c)
           o == Offer(c)
           b == q.addr = MB_ADDR_BROADCAST
<1>1. s \in Slave(RegCount) /\ Balanced(s)
  BY DEF RouteInv, TypeOK, SlavesBalanced
<1>2. q \in RequestAdu
  BY InsideHandle
<1>3. RegCount \in Nat
  BY Constants
<1>4. o = mb_slave_handle(s, q)
  BY DEF Offer
<1> HIDE DEF o, s, q
<1>5. Sound(RegCount, s.addr, b, o)
  BY <1>1, <1>2, <1>3, <1>4, HandleSound
<1>6. Effect(s, q.pdu, b, o)
  BY <1>1, <1>2, <1>3, <1>4, HandleEffect
<1> HIDE DEF b
<1>7. o.resp # <<>> => MB_ADU_MIN <= Size(o.resp[1])
  BY <1>6 DEF Effect, Fits
<1>8. o.resp # <<>> => o.resp[1].crc_ok
  BY <1>5 DEF Sound, Shaped
<1> QED BY <1>7, <1>8 DEF o

\* A flipped bit changes no length.
LEMMA FlippedSize ==
  ASSUME NEW a \in ResponseAdu, NEW b \in Flipped(a)
  PROVE  Size(b) = Size(a)
<1>1. a.pdu \in ResponsePdu
  BY DEF ResponseAdu
<1>2. ASSUME NEW q \in FlippedPdu(a.pdu) PROVE q.len = a.pdu.len
  BY <1>1 DEF FlippedPdu, ResponsePdu
<1>3. b.pdu.len = a.pdu.len
  <2>1. CASE b = [a EXCEPT !.crc_ok = FALSE]
    BY <2>1 DEF ResponseAdu
  <2>2. CASE b = [a EXCEPT !.crc_ok = FALSE, !.addr = Flip(a.addr)]
    BY <2>2 DEF ResponseAdu
  <2>3. ASSUME NEW q \in FlippedPdu(a.pdu), b = [a EXCEPT !.crc_ok = FALSE, !.pdu = q]
        PROVE  b.pdu.len = a.pdu.len
    <3>1. b.pdu = q
      BY <2>3 DEF ResponseAdu
    <3> QED BY <1>2, <3>1
  <2> QED BY <2>1, <2>2, <2>3 DEF Flipped
<1> QED BY <1>3 DEF Size

\* On the way in: nothing to account for yet.
LEMMA EntryKeepsFaults ==
  ASSUME RouteInv, FaultInv, NEW c \in Clients,
         FaultyLock(c) \/ FaultyForward(c) \/ BusLock(c)
  PROVE  FaultInv'
<1>1. PICK l \in {"faulty", "bus", "loop"} : pc' = [pc EXCEPT ![c] = l]
  BY DEF FaultyLock, FaultyForward, BusLock, Goto
<1>2. pc[c] \notin {"faulty_ret", "return"} /\ UNCHANGED <<rsp, stats, dropped, corrupted>>
  BY DEF FaultyLock, FaultyForward, BusLock
<1>3. rsp[c] = <<>> /\ c \notin Damaged /\ c \notin Unanswered
  BY <1>2, NothingYet
<1>4. TypeOK
  BY DEF RouteInv
<1> QED BY <1>1, <1>2, <1>3, <1>4, FaultMove

\* In the loop over the slaves: an answer is intact.
LEMMA LoopKeepsFaults ==
  ASSUME RouteInv, FaultInv, NEW c \in Clients,
         SlaveAnswers(c) \/ SlaveSilent(c) \/ BusSilent(c)
  PROVE  FaultInv'
<1>1. pc[c] = "loop" /\ UNCHANGED <<stats, dropped, corrupted>> /\ TypeOK
  BY DEF SlaveAnswers, SlaveSilent, BusSilent, RouteInv
<1>2. rsp[c] = <<>> /\ c \notin Damaged /\ c \notin Unanswered
  BY <1>1, NothingYet
<1>3. CASE SlaveAnswers(c)
  <2> DEFINE x == Offer(c).resp
  <2>1. idx[c] \in Bus /\ BusReturn(c, x)
    BY <1>3 DEF SlaveAnswers
  <2>2. PICK l \in {"faulty_ret", "return"} :
           pc' = [pc EXCEPT ![c] = l] /\ rsp' = [rsp EXCEPT ![c] = x]
    BY <2>1, BusReturnMoves
  <2>3. x # <<>> => MB_ADU_MIN <= Size(x[1]) /\ x[1].crc_ok
    BY <1>1, <2>1, OfferIntact
  <2> HIDE DEF x
  <2> QED BY <1>1, <1>2, <2>2, <2>3, FaultMove
<1>4. CASE SlaveSilent(c)
  <2>1. pc' = pc /\ rsp' = rsp
    BY <1>4 DEF SlaveSilent
  <2> QED BY <1>1, <1>2, <2>1, FaultMove
<1>5. CASE BusSilent(c)
  <2>1. PICK l \in {"faulty_ret", "return"} :
           pc' = [pc EXCEPT ![c] = l] /\ rsp' = [rsp EXCEPT ![c] = <<>>]
    BY <1>5, BusReturnMoves DEF BusSilent
  <2> QED BY <1>1, <1>2, <2>1, FaultMove
<1> QED BY <1>3, <1>4, <1>5

\* On the way out through the injector, which counts what it does.
LEMMA InjectorKeepsFaults ==
  ASSUME RouteInv, FaultInv, NEW c \in Clients,
         FaultyDrop(c) \/ FaultyCorrupt(c) \/ FaultyReturn(c)
  PROVE  FaultInv'
<1>0. TypeOK /\ pc' = [pc EXCEPT ![c] = "return"] /\ stats' = stats
  BY DEF RouteInv, FaultyDrop, FaultyCorrupt, FaultyReturn, TransactReturns
<1>1. CASE FaultyDrop(c)
  <2>1. /\ pc[c] = "faulty" /\ rsp' = [rsp EXCEPT ![c] = <<>>]
        /\ dropped' = dropped + 1 /\ corrupted' = corrupted
    BY <1>1 DEF FaultyDrop, TransactReturns
  <2>2. c \notin Damaged /\ c \notin Unanswered
    BY <2>1, NothingYet
  <2> QED BY <1>0, <2>1, <2>2, FaultMove
<1>2. CASE FaultyCorrupt(c)
  <2>1. /\ pc[c] = "faulty_ret" /\ rsp[c] # <<>>
        /\ corrupted' = corrupted + 1 /\ dropped' = dropped
    BY <1>2 DEF FaultyCorrupt
  <2>2. PICK bad \in Flipped(rsp[c][1]) : rsp' = [rsp EXCEPT ![c] = <<bad>>]
    BY <1>2 DEF FaultyCorrupt, TransactReturns
  <2>3. rsp[c] \in Optional(ResponseAdu)
    BY <1>0 DEF TypeOK
  <2>4. rsp[c][1] \in ResponseAdu
    BY <2>1, <2>3, OptionalValue
  <2>5. bad \in ResponseAdu /\ ~ bad.crc_ok /\ Size(bad) = Size(rsp[c][1])
    BY <2>2, <2>4, FlippedShape, FlippedSize
  <2>6. MB_ADU_MIN <= Size(rsp[c][1]) /\ rsp[c][1].crc_ok
    BY <2>1 DEF FaultInv, AnswersIntact
  <2>7. c \notin Damaged /\ c \notin Unanswered
    BY <2>1, <2>6 DEF Damaged, Unanswered
  <2> DEFINE x == <<bad>>
  <2>8. x # <<>> /\ x[1] = bad
    OBVIOUS
  <2>9. rsp' = [rsp EXCEPT ![c] = x]
    BY <2>2
  <2>10. MB_ADU_MIN <= Size(x[1]) /\ ~ x[1].crc_ok
    BY <2>5, <2>6, <2>8
  <2> HIDE DEF x
  <2> QED BY <1>0, <2>1, <2>7, <2>8, <2>9, <2>10, FaultMove
<1>3. CASE FaultyReturn(c)
  <2> DEFINE x == rsp[c]
  <2>1. /\ pc[c] = "faulty_ret" /\ rsp' = [rsp EXCEPT ![c] = x]
        /\ UNCHANGED <<dropped, corrupted>>
    BY <1>3 DEF FaultyReturn, TransactReturns
  <2>2. x # <<>> => MB_ADU_MIN <= Size(x[1]) /\ x[1].crc_ok
    BY <2>1 DEF FaultInv, AnswersIntact
  <2>3. c \notin Damaged /\ c \notin Unanswered
    BY <2>1, <2>2 DEF Damaged, Unanswered
  <2> HIDE DEF x
  <2> QED BY <1>0, <2>1, <2>2, <2>3, FaultMove
<1> QED BY <1>1, <1>2, <1>3

\* The calls of handle hold no answer.
LEMMA CallKeepsFaults ==
  ASSUME RouteInv, FaultInv, NEW c \in Clients, CallStep(c)
  PROVE  FaultInv'
<1>1. PICK r \in Requests : HandleEmpty(c, r) \/ HandleCall(c, r)
  BY DEF CallStep
<1>2. TypeOK /\ UNCHANGED <<dropped, corrupted>> /\ pc[c] = "idle"
  BY <1>1 DEF CallStep, RouteInv, HandleEmpty, HandleCall
<1>3. rsp[c] = <<>> /\ c \notin Damaged /\ c \notin Unanswered
  BY <1>2, NothingYet
<1>4. /\ stats'["crc_failures"] = stats["crc_failures"]
      /\ stats'["timeouts"] = stats["timeouts"]
  <2>1. stats \in [Counters -> Nat] /\ "crc_failures" \in Counters /\ "timeouts" \in Counters
    BY <1>2 DEF TypeOK, Counters
  <2>2. \/ stats' = [stats EXCEPT !["requests"] = stats["requests"] + 1]
        \/ stats' = [stats EXCEPT !["requests"] = @ + 1, !["malformed"] = @ + 1]
    BY <1>1 DEF HandleEmpty, HandleCall
  <2> QED BY <2>1, <2>2
<1>5. \/ pc' = [pc EXCEPT ![c] = "transact"] /\ rsp' = [rsp EXCEPT ![c] = <<>>]
      \/ pc' = pc /\ rsp' = rsp
  BY <1>1 DEF HandleEmpty, HandleCall
<1>6. CASE pc' = [pc EXCEPT ![c] = "transact"] /\ rsp' = [rsp EXCEPT ![c] = <<>>]
  BY <1>2, <1>3, <1>4, <1>6, FaultMove
<1>7. CASE pc' = pc /\ rsp' = rsp
  BY <1>2, <1>3, <1>4, <1>7, FaultMove
<1> QED BY <1>5, <1>6, <1>7

\* Nor does a thread whose connection is closed.
LEMMA CloseKeepsFaults ==
  ASSUME RouteInv, FaultInv, NEW c \in Clients, CloseStep(c)
  PROVE  FaultInv'
<1>1. /\ TypeOK /\ UNCHANGED <<rsp, dropped, corrupted>> /\ pc[c] = "idle"
      /\ pc' = [pc EXCEPT ![c] = "closed"]
      /\ stats' = [stats EXCEPT !["malformed"] = stats["malformed"] + 1]
  BY DEF CloseStep, FramingError, RouteInv
<1>2. rsp[c] = <<>> /\ c \notin Damaged /\ c \notin Unanswered
  BY <1>1, NothingYet
<1>3. /\ stats'["crc_failures"] = stats["crc_failures"]
      /\ stats'["timeouts"] = stats["timeouts"]
  <2>1. stats \in [Counters -> Nat] /\ "crc_failures" \in Counters /\ "timeouts" \in Counters
    BY <1>1 DEF TypeOK, Counters
  <2> QED BY <1>1, <2>1
<1> QED BY <1>1, <1>2, <1>3, FaultMove

\* The three ways out of handle: a damaged answer is a CRC failure, and only it.
LEMMA LeaveKeepsFaults ==
  ASSUME RouteInv, FaultInv, NEW c \in Clients, LeaveStep(c)
  PROVE  FaultInv'
<1>0. TypeOK /\ UNCHANGED <<dropped, corrupted>>
  BY DEF RouteInv, LeaveStep
<1>1. stats \in [Counters -> Nat] /\ "crc_failures" \in Counters /\ "timeouts" \in Counters
  BY <1>0 DEF TypeOK, Counters
<1>2. ASSUME NEW k \in Counters, NEW f, Leave(c, k, f)
      PROVE  /\ pc' = [pc EXCEPT ![c] = "idle"] /\ rsp' = [rsp EXCEPT ![c] = <<>>]
             /\ k # "crc_failures" => stats'["crc_failures"] = stats["crc_failures"]
             /\ k # "timeouts" => stats'["timeouts"] = stats["timeouts"]
             /\ stats'[k] = stats[k] + 1
  BY <1>1, <1>2 DEF Leave
<1>3. CASE HandleTimeout(c)
  <2>1. rsp[c] = <<>> /\ Leave(c, "timeouts", NoResponse(c))
    BY <1>3 DEF HandleTimeout
  <2>2. c \notin Damaged
    BY <2>1 DEF Damaged
  <2>3. /\ pc' = [pc EXCEPT ![c] = "idle"] /\ rsp' = [rsp EXCEPT ![c] = <<>>]
        /\ stats'["crc_failures"] = stats["crc_failures"]
        /\ stats'["timeouts"] = stats["timeouts"] + 1
    BY <1>1, <1>2, <2>1
  <2> QED BY <1>0, <2>2, <2>3, FaultMove
<1>4. CASE HandleCrcFailure(c)
  <2>1. rsp[c] # <<>> /\ Translated(c) = <<>> /\ Leave(c, "crc_failures", NoResponse(c))
    BY <1>4 DEF HandleCrcFailure
  <2>2. MB_ADU_MIN <= Size(rsp[c][1])
    BY <2>1 DEF FaultInv, AnswersIntact
  <2>3. ~ rsp[c][1].crc_ok
    <3>1. Size(rsp[c][1]) \in Nat
      <4>1. rsp[c] \in Optional(ResponseAdu)
        BY <1>0 DEF TypeOK
      <4>2. rsp[c][1] \in ResponseAdu
        BY <2>1, <4>1, OptionalValue
      <4>3. rsp[c][1].pdu.len \in Nat
        BY <4>2 DEF ResponseAdu, ResponsePdu
      <4> QED BY <4>3 DEF Size
    <3>2. ~ (Size(rsp[c][1]) < 4)
      BY <2>2, <3>1 DEF MB_ADU_MIN
    <3> QED BY <2>1, <3>2, Zenon DEF Translated, rtu_to_tcp
  <2>4. c \in Damaged /\ c \notin Unanswered
    BY <2>1, <2>3 DEF Damaged, Unanswered
  <2>5. /\ pc' = [pc EXCEPT ![c] = "idle"] /\ rsp' = [rsp EXCEPT ![c] = <<>>]
        /\ stats'["crc_failures"] = stats["crc_failures"] + 1
        /\ stats'["timeouts"] = stats["timeouts"]
    BY <1>1, <1>2, <2>1
  <2> QED BY <1>0, <2>4, <2>5, FaultMove
<1>5. CASE HandleResponse(c)
  <2>1. rsp[c] # <<>> /\ Translated(c) # <<>> /\ Leave(c, "responses", Translated(c)[1])
    BY <1>5 DEF HandleResponse
  <2>2. rsp[c][1].crc_ok
    BY <2>1, Zenon DEF Translated, rtu_to_tcp
  <2>3. c \notin Damaged /\ c \notin Unanswered
    BY <2>1, <2>2 DEF Damaged, Unanswered
  <2>4. "responses" \in Counters
    BY DEF Counters
  <2>5. /\ pc' = [pc EXCEPT ![c] = "idle"] /\ rsp' = [rsp EXCEPT ![c] = <<>>]
        /\ stats'["crc_failures"] = stats["crc_failures"]
        /\ stats'["timeouts"] = stats["timeouts"]
    BY <1>2, <2>1, <2>4
  <2> QED BY <1>0, <2>3, <2>5, FaultMove
<1> QED BY <1>3, <1>4, <1>5 DEF LeaveStep

\* Every step keeps the injector's books.
LEMMA FaultStep == RouteInv /\ FaultInv /\ [Next]_vars => FaultInv'
<1> SUFFICES ASSUME RouteInv, FaultInv, [Next]_vars PROVE FaultInv'
  OBVIOUS
<1>1. CASE UNCHANGED vars
  BY <1>1 DEF vars, FaultInv, AnswersIntact, FaultsAccounted
<1>2. ASSUME NEW c \in Clients, TransportStep(c) PROVE FaultInv'
  BY <1>2, EntryKeepsFaults, LoopKeepsFaults, InjectorKeepsFaults DEF TransportStep
<1>3. ASSUME NEW c \in Clients, CallStep(c) PROVE FaultInv'
  BY <1>3, CallKeepsFaults
<1>4. ASSUME NEW c \in Clients, LeaveStep(c) PROVE FaultInv'
  BY <1>4, LeaveKeepsFaults
<1> QED BY <1>1, <1>2, <1>3, <1>4, CloseKeepsFaults DEF Next, Progress, Finished

\* Nothing is on its way when the gateway starts.
LEMMA FaultInit == Init => FaultInv
<1> SUFFICES ASSUME Init PROVE FaultInv
  OBVIOUS
<1>1. AnswersIntact /\ Damaged = {} /\ Unanswered = {}
  BY DEF Init, GatewayInit, AnswersIntact, Damaged, Unanswered
<1>2. /\ corrupted = 0 /\ dropped = 0
      /\ stats["crc_failures"] = 0 /\ stats["timeouts"] = 0
  BY DEF Init, GatewayInit, Counters
<1> QED BY <1>1, <1>2, FS_EmptySet, AccountedForm DEF FaultInv

(***************************************************************************)
(* The books of FaultyRtu (rtu_transport.hpp:120-141) and of the gateway   *)
(* agree for any number of threads: every frame the injector corrupted is  *)
(* a CRC failure or still on its way to be one, no CRC failure has another *)
(* cause, and no dropped exchange is reported as anything but a timeout.   *)
(***************************************************************************)
THEOREM FaultsAlwaysAccounted == Spec => []FaultsAccounted
<1>1. Init => FaultInv
  BY FaultInit
<1>2. FaultInv => FaultsAccounted
  BY DEF FaultInv
<1> QED BY <1>1, <1>2, RouteInvariant, FaultStep, PTL DEF Spec

-----------------------------------------------------------------------------
(***************************************************************************)
(* The refinement of RegisterService.  First the semantics: one call of    *)
(* mb_slave_handle does to the registers, and answers, what the service    *)
(* says of the request.  Then the bus: the loop over the slaves, seen from *)
(* where it starts, is the effect of the request on the bank, and no step  *)
(* of it changes what it will leave.  Then the steps of the gateway, each  *)
(* of them one of the service or none.                                     *)
(***************************************************************************)
\* The registers h after the write p, and the answer of a unit with the registers h.
Written(h, p) ==
  [i \in DOMAIN h |-> IF i \in Service!Range(p) THEN Service!Value(p, i) ELSE h[i]]

Told(h, p) ==
  IF Service!Fault(p) # 0 THEN ExceptionPdu(p.fc, Service!Fault(p))
  ELSE IF Service!IsWrite(p)
    THEN [fc |-> p.fc, len |-> 5, code |-> 0, regs |-> <<p.a, p.b>>]
    ELSE [fc |-> p.fc, len |-> 2 + 2 * p.b, code |-> 2 * p.b,
          regs |-> [i \in 1 .. p.b |-> h[p.a + i - 1]]]

\* The outcome o of an addressed unit with the registers h is what the service says.
Means(h, p, bcast, o) ==
  /\ o.slave.holding =
       IF Service!IsWrite(p) /\ Service!WellFormed(p) /\ Service!Fault(p) = 0
         THEN Written(h, p) ELSE h
  /\ o.result = "RESPOND" <=> ~ bcast /\ Service!WellFormed(p)
  /\ o.result = "RESPOND" => o.resp[1].pdu = Told(h, p)

\* The function codes, the exceptions and the limits are those of the source.
LEMMA ServiceCodes ==
  /\ Service!MB_FC_READ_HOLDING = 3 /\ Service!MB_FC_WRITE_SINGLE = 6
  /\ Service!MB_FC_WRITE_MULTIPLE = 16
  /\ Service!MB_EX_ILLEGAL_FUNCTION = 1 /\ Service!MB_EX_ILLEGAL_ADDRESS = 2
  /\ Service!MB_EX_ILLEGAL_VALUE = 3
  /\ Service!MB_READ_QTY_MAX = 125 /\ Service!MB_WRITE_MULTI_QTY_MAX = 123
  /\ Service!MB_ADU_MAX = 256 /\ Service!MB_ADDR_BROADCAST = 0
  /\ \A fc, ex : Service!ExceptionPdu(fc, ex) = ExceptionPdu(fc, ex)
  BY DEF Service!MB_FC_READ_HOLDING, Service!MB_FC_WRITE_SINGLE, Service!MB_FC_WRITE_MULTIPLE,
         Service!MB_EX_ILLEGAL_FUNCTION, Service!MB_EX_ILLEGAL_ADDRESS,
         Service!MB_EX_ILLEGAL_VALUE, Service!MB_READ_QTY_MAX, Service!MB_WRITE_MULTI_QTY_MAX,
         Service!MB_ADU_MAX, Service!MB_ADDR_BROADCAST,
         Service!ExceptionPdu, ExceptionPdu, Service!ExceptionFc, ExceptionFc

\* What the service says of a read.
LEMMA ReadSaid ==
  ASSUME NEW p \in RequestPdu, p.fc = MB_FC_READ_HOLDING
  PROVE  /\ Service!WellFormed(p) <=> p.len = 5
         /\ ~ Service!IsWrite(p)
         /\ Service!Fault(p) =
              IF p.b < 1 \/ p.b > MB_READ_QTY_MAX THEN MB_EX_ILLEGAL_VALUE
              ELSE IF p.a + p.b > RegCount THEN MB_EX_ILLEGAL_ADDRESS ELSE 0
<1>1. p.fc = 3 /\ p.len \in Nat /\ p.a \in Nat /\ p.b \in Nat
  BY PduFields, WordIsNat DEF MB_FC_READ_HOLDING
<1>2. Service!WellFormed(p) <=> p.len = 5
  BY <1>1, ServiceCodes DEF Service!WellFormed
<1>3. ~ Service!IsWrite(p) /\ Service!Quantity(p) = p.b
  BY <1>1, ServiceCodes DEF Service!IsWrite, Service!Quantity
<1>4. Service!Fault(p) =
        IF p.b < 1 \/ p.b > 125 THEN 3 ELSE IF p.a + p.b > RegCount THEN 2 ELSE 0
  BY <1>1, <1>3, ServiceCodes DEF Service!Fault
<1> QED BY <1>2, <1>3, <1>4 DEF MB_READ_QTY_MAX, MB_EX_ILLEGAL_VALUE, MB_EX_ILLEGAL_ADDRESS

\* Of a write of one register.
LEMMA WriteSingleSaid ==
  ASSUME NEW p \in RequestPdu, p.fc = MB_FC_WRITE_SINGLE
  PROVE  /\ Service!WellFormed(p) <=> p.len = 5
         /\ Service!IsWrite(p)
         /\ Service!Fault(p) = IF p.a >= RegCount THEN MB_EX_ILLEGAL_ADDRESS ELSE 0
         /\ Service!Range(p) = {p.a} /\ \A i : Service!Value(p, i) = p.b
<1>1. p.fc = 6 /\ p.len \in Nat /\ p.a \in Nat /\ p.b \in Nat /\ RegCount \in Nat
  BY PduFields, WordIsNat, Constants DEF MB_FC_WRITE_SINGLE
<1>2. Service!WellFormed(p) <=> p.len = 5
  BY <1>1, ServiceCodes DEF Service!WellFormed
<1>3. Service!IsWrite(p) /\ Service!Quantity(p) = 1
  BY <1>1, ServiceCodes DEF Service!IsWrite, Service!Quantity
<1>4. Service!Fault(p) = IF p.a >= RegCount THEN 2 ELSE 0
  BY <1>1, <1>3, ServiceCodes DEF Service!Fault
<1>5. Service!Range(p) = {p.a} /\ \A i : Service!Value(p, i) = p.b
  <2>1. Service!Range(p) = p.a .. (p.a + 1 - 1) /\ \A i : Service!Value(p, i) = p.b
    BY <1>1, <1>3, ServiceCodes DEF Service!Range, Service!Value
  <2>2. \A k \in Nat : k .. (k + 1 - 1) = {k}
    OBVIOUS
  <2> QED BY <1>1, <2>1, <2>2
<1> QED BY <1>2, <1>3, <1>4, <1>5 DEF MB_EX_ILLEGAL_ADDRESS

\* Of a write of several.
LEMMA WriteMultipleSaid ==
  ASSUME NEW p \in RequestPdu, p.fc = MB_FC_WRITE_MULTIPLE, p.len + 3 <= MB_ADU_MAX
  PROVE  /\ Service!WellFormed(p) <=> ~ (p.len + 3 < 9) /\ p.len + 3 = 9 + p.bc
         /\ Service!IsWrite(p)
         /\ Service!Fault(p) =
              IF p.b < 1 \/ p.b > MB_WRITE_MULTI_QTY_MAX \/ p.bc # 2 * p.b
                THEN MB_EX_ILLEGAL_VALUE
              ELSE IF p.a + p.b > RegCount THEN MB_EX_ILLEGAL_ADDRESS ELSE 0
         /\ Service!Range(p) = p.a .. (p.a + p.b - 1)
         /\ \A i : Service!Value(p, i) = p.regs[i - p.a + 1]
<1>0. p.bc \in Byte /\ p.len \in Nat /\ p.a \in Nat /\ p.b \in Nat
  BY PduFields, WordIsNat
<1>1. /\ p.fc = 16 /\ p.len \in Nat /\ p.a \in Nat /\ p.b \in Nat /\ p.bc \in Nat
      /\ p.len + 3 <= 256
  BY <1>0 DEF MB_FC_WRITE_MULTIPLE, Byte, MB_ADU_MAX
<1>2. Service!WellFormed(p) <=> ~ (p.len + 3 < 9) /\ p.len + 3 = 9 + p.bc
  BY <1>1, ServiceCodes DEF Service!WellFormed
<1>3. Service!IsWrite(p) /\ Service!Quantity(p) = p.b
  BY <1>1, ServiceCodes DEF Service!IsWrite, Service!Quantity
<1>4. Service!Fault(p) =
        IF p.b < 1 \/ p.b > 123 \/ p.bc # 2 * p.b THEN 3
        ELSE IF p.a + p.b > RegCount THEN 2 ELSE 0
  BY <1>1, <1>3, ServiceCodes DEF Service!Fault
<1>5. /\ Service!Range(p) = p.a .. (p.a + p.b - 1)
      /\ \A i : Service!Value(p, i) = p.regs[i - p.a + 1]
  BY <1>1, <1>3, ServiceCodes DEF Service!Range, Service!Value
<1> QED BY <1>2, <1>3, <1>4, <1>5 DEF MB_WRITE_MULTI_QTY_MAX, MB_EX_ILLEGAL_VALUE,
                                     MB_EX_ILLEGAL_ADDRESS

\* Of any other function.
LEMMA OtherSaid ==
  ASSUME NEW p \in RequestPdu, p.len + 3 <= MB_ADU_MAX,
         p.fc \notin {MB_FC_READ_HOLDING, MB_FC_WRITE_SINGLE, MB_FC_WRITE_MULTIPLE}
  PROVE  /\ Service!WellFormed(p) /\ ~ Service!IsWrite(p)
         /\ Service!Fault(p) = MB_EX_ILLEGAL_FUNCTION
<1>1. p.fc \notin {3, 6, 16} /\ p.len + 3 <= 256
  BY DEF MB_FC_READ_HOLDING, MB_FC_WRITE_SINGLE, MB_FC_WRITE_MULTIPLE, MB_ADU_MAX
<1>2. Service!WellFormed(p) /\ ~ Service!IsWrite(p)
  BY <1>1, ServiceCodes DEF Service!WellFormed, Service!IsWrite
<1>3. Service!Fault(p) = 1
  BY <1>1, ServiceCodes DEF Service!Fault
<1> QED BY <1>2, <1>3 DEF MB_EX_ILLEGAL_FUNCTION

\* A PDU too long for a frame is not well formed.
LEMMA TooLongSaid ==
  ASSUME NEW p \in RequestPdu, p.len + 3 > MB_ADU_MAX
  PROVE  ~ Service!WellFormed(p)
<1>1. p.len \in Nat
  BY PduFields
<1> QED BY <1>1, ServiceCodes DEF Service!WellFormed, MB_ADU_MAX

-----------------------------------------------------------------------------
\* Silence, for whatever reason, means: not answered, and nothing written.
LEMMA QuietMeans ==
  ASSUME NEW n \in Nat, NEW s \in Slave(n), NEW p, NEW bcast \in BOOLEAN,
         ~ (Service!IsWrite(p) /\ Service!WellFormed(p) /\ Service!Fault(p) = 0)
  PROVE  /\ bcast \/ ~ Service!WellFormed(p) => Means(s.holding, p, bcast, Silent(s))
         /\ ~ Service!WellFormed(p) => Means(s.holding, p, bcast, BadLength(s))
<1> DEFINE u == [s EXCEPT !.cnt_len_err = s.cnt_len_err + 1]
<1>1. u.holding = s.holding
  BY SlaveHolding
<1>2. /\ Silent(s).slave = s /\ Silent(s).result # "RESPOND"
      /\ BadLength(s).slave = u /\ BadLength(s).result # "RESPOND"
  BY DEF Silent, BadLength
<1> HIDE DEF u
<1>3. Silent(s).slave.holding = s.holding /\ BadLength(s).slave.holding = s.holding
  BY <1>1, <1>2
<1> QED BY <1>2, <1>3 DEF Means

\* The slave t answers with pdu, having written what it was asked to.
LEMMA RespondMeans ==
  ASSUME NEW n \in Nat, NEW h, NEW t \in Slave(n), NEW p, NEW pdu,
         Service!WellFormed(p), pdu = Told(h, p),
         t.holding = IF Service!IsWrite(p) /\ Service!Fault(p) = 0 THEN Written(h, p) ELSE h
  PROVE  Means(h, p, FALSE, Respond(t, pdu))
<1>1. Respond(t, pdu).slave.holding = t.holding /\ Respond(t, pdu).resp[1].pdu = pdu
  BY RespondParts
<1>2. Respond(t, pdu).result = "RESPOND"
  BY DEF Respond
<1> QED BY <1>1, <1>2 DEF Means

\* A broadcast that is carried out.
LEMMA StoredMeans ==
  ASSUME NEW h, NEW t, NEW p, Service!WellFormed(p), Service!IsWrite(p), Service!Fault(p) = 0,
         t.holding = Written(h, p)
  PROVE  Means(h, p, TRUE, Silent(t))
<1>1. Silent(t).slave = t /\ Silent(t).result # "RESPOND"
  BY DEF Silent
<1> QED BY <1>1 DEF Means

\* A refusal reports the fault the service finds.
LEMMA RefuseMeans ==
  ASSUME NEW n \in Nat, NEW s \in Slave(n), NEW p, NEW bcast \in BOOLEAN, NEW ex,
         Service!WellFormed(p), Service!Fault(p) = ex, ex # 0
  PROVE  /\ Means(s.holding, p, bcast, Refuse(s, bcast, p.fc, ex))
         /\ Means(s.holding, p, FALSE, slave_make_exception(s, p.fc, ex))
<1> DEFINE t == [s EXCEPT !.cnt_exceptions = s.cnt_exceptions + 1]
<1>1. t \in Slave(n) /\ t.holding = s.holding
  <2>1. s.cnt_exceptions + 1 \in Nat
    BY SlaveFields
  <2> DEFINE x == s.cnt_exceptions + 1
  <2> HIDE DEF x
  <2>2. [s EXCEPT !.cnt_exceptions = x] \in Slave(n)
        /\ [s EXCEPT !.cnt_exceptions = x].holding = s.holding
    BY <2>1, SlaveUpdates, SlaveHolding DEF x
  <2> QED BY <2>2 DEF x
<1>2. slave_make_exception(s, p.fc, ex) = Respond(t, ExceptionPdu(p.fc, ex))
  BY DEF slave_make_exception
<1> HIDE DEF t
<1>3. Told(s.holding, p) = ExceptionPdu(p.fc, ex)
  BY DEF Told
<1>4. Means(s.holding, p, FALSE, slave_make_exception(s, p.fc, ex))
  BY <1>1, <1>2, <1>3, RespondMeans
<1>5. Means(s.holding, p, TRUE, Silent(s))
  BY QuietMeans
<1>6. CASE bcast
  <2>1. bcast = TRUE
    BY <1>6
  <2> QED BY <1>4, <1>5, <2>1 DEF Refuse
<1>7. CASE ~ bcast
  <2>1. bcast = FALSE
    BY <1>7
  <2> QED BY <1>4, <2>1 DEF Refuse
<1> QED BY <1>6, <1>7

\* The exception codes are not 0.
LEMMA CodesNotZero ==
  MB_EX_ILLEGAL_FUNCTION # 0 /\ MB_EX_ILLEGAL_ADDRESS # 0 /\ MB_EX_ILLEGAL_VALUE # 0
  BY DEF MB_EX_ILLEGAL_FUNCTION, MB_EX_ILLEGAL_ADDRESS, MB_EX_ILLEGAL_VALUE

\* Function 3.
LEMMA ReadMeans ==
  ASSUME NEW s \in Slave(RegCount), NEW p \in RequestPdu, p.fc = MB_FC_READ_HOLDING,
         NEW bcast \in BOOLEAN
  PROVE  Means(s.holding, p, bcast, read_holding(s, p, bcast))
<1> DEFINE regs == [i \in 1 .. p.b |-> s.holding[p.a + i - 1]]
           value == p.b < 1 \/ p.b > MB_READ_QTY_MAX
           range == p.a + p.b > s.holding_count
           ack == [fc |-> p.fc, len |-> 2 + 2 * p.b, code |-> (2 * p.b) % 256, regs |-> regs]
<1>0. p.len \in Nat /\ p.b \in Nat /\ RegCount \in Nat /\ s.holding_count = RegCount
  BY PduFields, WordIsNat, Constants, SlaveFields
<1>s. /\ Service!WellFormed(p) <=> p.len + 3 = 8
      /\ ~ Service!IsWrite(p)
      /\ Service!Fault(p) = IF value THEN MB_EX_ILLEGAL_VALUE
                            ELSE IF range THEN MB_EX_ILLEGAL_ADDRESS ELSE 0
  BY <1>0, ReadSaid
<1>1. CASE p.len + 3 # 8
  BY <1>0, <1>1, <1>s, QuietMeans DEF read_holding
<1>2. CASE p.len + 3 = 8 /\ bcast
  BY <1>0, <1>2, <1>s, QuietMeans DEF read_holding
<1>3. CASE p.len + 3 = 8 /\ ~ bcast /\ (value \/ range)
  <2> DEFINE ex == IF value THEN MB_EX_ILLEGAL_VALUE ELSE MB_EX_ILLEGAL_ADDRESS
  <2>1. read_holding(s, p, bcast) = slave_make_exception(s, p.fc, ex) /\ bcast = FALSE
    BY <1>3 DEF read_holding
  <2>2. Service!Fault(p) = ex /\ ex # 0 /\ Service!WellFormed(p)
    BY <1>3, <1>s, CodesNotZero
  <2> HIDE DEF ex
  <2> QED BY <1>0, <2>1, <2>2, RefuseMeans
<1>4. CASE p.len + 3 = 8 /\ ~ bcast /\ ~ value /\ ~ range
  <2>1. read_holding(s, p, bcast) = Respond(s, ack) /\ bcast = FALSE
    BY <1>4 DEF read_holding
  <2>2. (2 * p.b) % 256 = 2 * p.b
    BY <1>0, <1>4, ReadLimits
  <2>3. Service!Fault(p) = 0 /\ Service!WellFormed(p)
    BY <1>4, <1>s
  <2> HIDE DEF value, range
  <2>4. Told(s.holding, p) = ack
    BY <1>s, <2>2, <2>3, Zenon DEF Told
  <2> HIDE DEF ack
  <2> QED BY <1>0, <1>s, <2>1, <2>3, <2>4, RespondMeans
<1> HIDE DEF value, range
<1> QED BY <1>1, <1>2, <1>3, <1>4

\* Function 6.
LEMMA WriteSingleMeans ==
  ASSUME NEW s \in Slave(RegCount), NEW p \in RequestPdu, p.fc = MB_FC_WRITE_SINGLE,
         NEW bcast \in BOOLEAN
  PROVE  Means(s.holding, p, bcast, write_single(s, p, bcast))
<1> DEFINE h   == [s.holding EXCEPT ![p.a] = p.b]
           t   == [s EXCEPT !.holding = h]
           ack == [fc |-> p.fc, len |-> 5, code |-> 0, regs |-> <<p.a, p.b>>]
<1>0. /\ p.len \in Nat /\ p.a \in Nat /\ p.b \in U16 /\ RegCount \in Nat
      /\ s.holding_count = RegCount /\ s.holding \in [0 .. (RegCount - 1) -> U16]
  BY PduFields, WordIsNat, Constants, SlaveFields
<1>s. /\ Service!WellFormed(p) <=> p.len + 3 = 8
      /\ Service!IsWrite(p)
      /\ Service!Fault(p) = IF p.a >= s.holding_count THEN MB_EX_ILLEGAL_ADDRESS ELSE 0
      /\ Service!Range(p) = {p.a} /\ \A i : Service!Value(p, i) = p.b
  BY <1>0, WriteSingleSaid
<1>t. [s EXCEPT !.holding = [@ EXCEPT ![p.a] = p.b]] = t
  OBVIOUS
<1>1. CASE p.len + 3 # 8
  BY <1>0, <1>1, <1>s, QuietMeans DEF write_single
<1>2. CASE p.len + 3 = 8 /\ p.a >= s.holding_count
  BY <1>0, <1>2, <1>s, CodesNotZero, RefuseMeans DEF write_single
<1>3. CASE p.len + 3 = 8 /\ ~ (p.a >= s.holding_count)
  <2>1. h \in [0 .. (RegCount - 1) -> U16] /\ h = Written(s.holding, p)
    BY <1>0, <1>s, <1>3 DEF Written
  <2>2. write_single(s, p, bcast) = IF bcast THEN Silent(t) ELSE Respond(t, ack)
    BY <1>3, <1>t DEF write_single
  <2>3. Service!Fault(p) = 0 /\ Service!WellFormed(p)
    BY <1>3, <1>s
  <2>4. Told(s.holding, p) = ack
    BY <1>s, <2>3, Zenon DEF Told
  <2> HIDE DEF h, ack
  <2>5. t \in Slave(RegCount) /\ t.holding = h
    BY <2>1, SlaveUpdates, SlaveHolding
  <2> HIDE DEF t
  <2>6. CASE bcast
    <3>1. bcast = TRUE
      BY <2>6
    <3> QED BY <1>s, <2>1, <2>2, <2>3, <2>5, <3>1, StoredMeans
  <2>7. CASE ~ bcast
    <3>1. bcast = FALSE
      BY <2>7
    <3>2. Means(s.holding, p, FALSE, Respond(t, ack))
      BY <1>0, <1>s, <2>1, <2>3, <2>4, <2>5, RespondMeans
    <3> QED BY <2>2, <3>1, <3>2
  <2> QED BY <2>6, <2>7
<1> QED BY <1>1, <1>2, <1>3

\* The store loop writes what the service says is written.
LEMMA StoreAllWrites ==
  ASSUME NEW n \in Nat, NEW s \in Slave(n), NEW p, p.a \in Nat, p.b \in Nat,
         Service!Range(p) = p.a .. (p.a + p.b - 1),
         \A i : Service!Value(p, i) = p.regs[i - p.a + 1]
  PROVE  StoreAll(s, p.a, p.b, p.regs).holding = Written(s.holding, p)
<1> DEFINE h == [i \in DOMAIN s.holding |->
                   IF p.a <= i /\ i < p.a + p.b THEN p.regs[i - p.a + 1] ELSE s.holding[i]]
<1>1. StoreAll(s, p.a, p.b, p.regs) = [s EXCEPT !.holding = h]
  BY DEF StoreAll
<1>2. DOMAIN s.holding = 0 .. (n - 1)
  BY SlaveFields
<1>3. \A i \in 0 .. (n - 1) : i \in p.a .. (p.a + p.b - 1) <=> p.a <= i /\ i < p.a + p.b
  OBVIOUS
<1>4. h = Written(s.holding, p)
  BY <1>2, <1>3, Zenon DEF Written
<1> HIDE DEF h
<1> QED BY <1>1, <1>4, SlaveHolding

\* Function 16.
LEMMA WriteMultipleMeans ==
  ASSUME NEW s \in Slave(RegCount), NEW p \in RequestPdu, p.fc = MB_FC_WRITE_MULTIPLE,
         p.len + 3 <= MB_ADU_MAX, NEW bcast \in BOOLEAN, Owed(s, bcast)
  PROVE  Means(s.holding, p, bcast, write_multiple(s, p, bcast))
<1> DEFINE t     == StoreAll(s, p.a, p.b, p.regs)
           ack   == [fc |-> p.fc, len |-> 5, code |-> 0, regs |-> <<p.a, p.b>>]
           short == p.len + 3 < 9 \/ p.len + 3 # 9 + p.bc
           value == p.b < 1 \/ p.b > MB_WRITE_MULTI_QTY_MAX \/ p.bc # 2 * p.b
           range == p.a + p.b > s.holding_count
<1>0. /\ p.len \in Nat /\ p.bc \in Byte /\ p.a \in Nat /\ p.b \in Nat
      /\ p.regs \in Seq(U16) /\ RegCount \in Nat /\ s.holding_count = RegCount
      /\ Len(p.regs) = IF p.len >= 6 THEN (p.len - 6) \div 2 ELSE 0
  BY PduFields, WordIsNat, Constants, SlaveFields
<1>s. /\ Service!WellFormed(p) <=> ~ short
      /\ Service!IsWrite(p)
      /\ Service!Fault(p) = IF value THEN MB_EX_ILLEGAL_VALUE
                            ELSE IF range THEN MB_EX_ILLEGAL_ADDRESS ELSE 0
      /\ Service!Range(p) = p.a .. (p.a + p.b - 1)
      /\ \A i : Service!Value(p, i) = p.regs[i - p.a + 1]
  BY <1>0, WriteMultipleSaid, Zenon
<1>1. CASE short
  BY <1>0, <1>1, <1>s, QuietMeans DEF write_multiple
<1>2. CASE ~ short /\ (value \/ range)
  <2> DEFINE ex == IF value THEN MB_EX_ILLEGAL_VALUE ELSE MB_EX_ILLEGAL_ADDRESS
  <2>1. write_multiple(s, p, bcast) = Refuse(s, bcast, p.fc, ex)
    BY <1>2 DEF write_multiple
  <2>2. Service!Fault(p) = ex /\ ex # 0 /\ Service!WellFormed(p)
    BY <1>2, <1>s, CodesNotZero, Zenon
  <2> HIDE DEF ex
  <2> QED BY <1>0, <2>1, <2>2, RefuseMeans
<1>3. CASE ~ short /\ ~ value /\ ~ range
  <2>1. write_multiple(s, p, bcast) = IF bcast THEN Silent(t) ELSE Respond(t, ack)
    BY <1>3 DEF write_multiple
  <2>2. Service!Fault(p) = 0 /\ Service!WellFormed(p)
    BY <1>3, <1>s, Zenon
  <2>3. Len(p.regs) = p.b /\ p.a + p.b <= RegCount
    <3>0. p.bc \in Byte /\ p.len \in Nat /\ p.b \in Nat
      BY <1>0
    <3>1. p.bc \in Nat
      BY <3>0 DEF Byte
    <3>2. p.len + 3 = 9 + p.bc /\ p.bc = 2 * p.b /\ ~ (p.a + p.b > RegCount)
      BY <1>0, <1>3
    <3>3. p.len >= 6 /\ p.len - 6 = 2 * p.b
      BY <3>0, <3>1, <3>2
    <3>4. Len(p.regs) = (2 * p.b) \div 2
      BY <1>0, <3>3
    <3>5. (2 * p.b) \div 2 = p.b
      BY <3>0
    <3>6. p.a \in Nat /\ RegCount \in Nat
      BY <1>0, Constants
    <3> QED BY <3>0, <3>2, <3>4, <3>5, <3>6
  <2>4. t \in Slave(RegCount)
    BY <1>0, <2>3, StoreAllShape
  <2>5. t.holding = Written(s.holding, p)
    BY <1>0, <1>s, StoreAllWrites
  <2>6. Told(s.holding, p) = ack
    BY <1>s, <2>2, Zenon DEF Told
  <2> HIDE DEF t, ack, short, value, range
  <2>7. CASE bcast
    <3>1. bcast = TRUE
      BY <2>7
    <3>2. Means(s.holding, p, TRUE, Silent(t))
      BY <1>s, <2>2, <2>5, StoredMeans
    <3> QED BY <2>1, <3>1, <3>2
  <2>8. CASE ~ bcast
    <3>1. bcast = FALSE
      BY <2>8
    <3>2. Means(s.holding, p, FALSE, Respond(t, ack))
      BY <1>0, <1>s, <2>2, <2>4, <2>5, <2>6, RespondMeans
    <3> QED BY <2>1, <3>1, <3>2
  <2> QED BY <2>7, <2>8
<1> HIDE DEF short, value, range
<1> QED BY <1>1, <1>2, <1>3

\* Counting a frame writes no register.
LEMMA CountFrameHolding ==
  ASSUME NEW n \in Nat, NEW s \in Slave(n), NEW bcast \in BOOLEAN
  PROVE  CountFrame(s, bcast).holding = s.holding
  BY SlaveFields DEF CountFrame

(***************************************************************************)
(* A call of mb_slave_handle is what the service says of the unit: one     *)
(* that is not addressed does nothing, one that is writes and answers.     *)
(***************************************************************************)
LEMMA HandleMeans ==
  ASSUME NEW s \in Slave(RegCount), Balanced(s), NEW r \in Requests, r.pdu.len # 0
  PROVE  LET o     == mb_slave_handle(s, tcp_to_rtu(r))
             bcast == r.unit_id = MB_ADDR_BROADCAST
         IN  /\ bcast \/ r.unit_id = s.addr => Means(s.holding, r.pdu, bcast, o)
             /\ ~ bcast /\ r.unit_id # s.addr =>
                  o.slave.holding = s.holding /\ o.result # "RESPOND"
<1> DEFINE q     == tcp_to_rtu(r)
           o     == mb_slave_handle(s, q)
           p     == r.pdu
           bcast == r.unit_id = MB_ADDR_BROADCAST
           other == ~ bcast /\ r.unit_id # s.addr
           ours  == CountFrame(s, bcast)
           long  == p.len + 3 > MB_ADU_MAX
<1>0. /\ p \in RequestPdu /\ p.len \in Nat /\ RegCount \in Nat
      /\ q.addr = r.unit_id /\ q.pdu = p /\ q.crc_ok = TRUE
  BY RequestFields, PduFields, Constants DEF tcp_to_rtu
<1>1. ~ (Size(q) < MB_ADU_MIN) /\ (Size(q) > MB_ADU_MAX <=> long)
  BY <1>0 DEF Size, MB_ADU_MIN, MB_ADU_MAX
<1>2. o = IF long THEN BadLength(s) ELSE IF other THEN Silent(s)
          ELSE IF p.fc = MB_FC_READ_HOLDING THEN read_holding(ours, p, bcast)
          ELSE IF p.fc = MB_FC_WRITE_SINGLE THEN write_single(ours, p, bcast)
          ELSE IF p.fc = MB_FC_WRITE_MULTIPLE THEN write_multiple(ours, p, bcast)
          ELSE other_function(ours, p, bcast)
  BY <1>0, <1>1, Zenon DEF mb_slave_handle
<1>3. ours \in Slave(RegCount) /\ Owed(ours, bcast) /\ ours.holding = s.holding
  BY <1>0, CountFrameShape, CountFrameHolding
<1>b. bcast \in BOOLEAN
  OBVIOUS
<1> HIDE DEF o, ours, bcast
<1>4. CASE long
  <2>1. ~ Service!WellFormed(p)
    BY <1>0, <1>4, TooLongSaid
  <2>2. o = BadLength(s)
    BY <1>2, <1>4
  <2>3. Means(s.holding, p, bcast, o)
    BY <1>0, <1>b, <2>1, <2>2, QuietMeans
  <2>4. o.slave.holding = s.holding /\ o.result # "RESPOND"
    BY <2>1, <2>3 DEF Means
  <2> QED BY <2>3, <2>4 DEF o, bcast
<1>5. CASE ~ long /\ other
  <2>1. o = Silent(s)
    BY <1>2, <1>5
  <2>2. o.slave.holding = s.holding /\ o.result # "RESPOND"
    BY <2>1 DEF Silent
  <2> QED BY <1>5, <2>2 DEF o, bcast
<1>6. CASE ~ long /\ ~ other
  <2>0. p.len + 3 <= MB_ADU_MAX
    BY <1>0, <1>6 DEF MB_ADU_MAX
  <2>1. ASSUME p.fc = MB_FC_READ_HOLDING
        PROVE  Means(s.holding, p, bcast, o)
    BY <1>0, <1>2, <1>3, <1>b, <1>6, <2>1, ReadMeans
  <2>2. ASSUME p.fc = MB_FC_WRITE_SINGLE
        PROVE  Means(s.holding, p, bcast, o)
    <3>1. o = write_single(ours, p, bcast)
      BY <1>2, <1>6, <2>2 DEF MB_FC_READ_HOLDING, MB_FC_WRITE_SINGLE
    <3> QED BY <1>0, <1>3, <1>b, <2>2, <3>1, WriteSingleMeans
  <2>3. ASSUME p.fc = MB_FC_WRITE_MULTIPLE
        PROVE  Means(s.holding, p, bcast, o)
    <3>1. o = write_multiple(ours, p, bcast)
      BY <1>2, <1>6, <2>3 DEF MB_FC_READ_HOLDING, MB_FC_WRITE_SINGLE, MB_FC_WRITE_MULTIPLE
    <3> QED BY <1>0, <1>3, <1>b, <2>0, <2>3, <3>1, WriteMultipleMeans
  <2>4. ASSUME p.fc \notin {MB_FC_READ_HOLDING, MB_FC_WRITE_SINGLE, MB_FC_WRITE_MULTIPLE}
        PROVE  Means(s.holding, p, bcast, o)
    <3>1. o = Refuse(ours, bcast, p.fc, MB_EX_ILLEGAL_FUNCTION)
      BY <1>2, <1>6, <2>4 DEF other_function
    <3>2. Service!WellFormed(p) /\ Service!Fault(p) = MB_EX_ILLEGAL_FUNCTION
      BY <1>0, <2>0, <2>4, OtherSaid
    <3> QED BY <1>0, <1>3, <1>b, <3>1, <3>2, CodesNotZero, RefuseMeans
  <2>5. Means(s.holding, p, bcast, o)
    BY <2>1, <2>2, <2>3, <2>4
  <2> QED BY <1>6, <2>5 DEF o, bcast
<1> QED BY <1>4, <1>5, <1>6

-----------------------------------------------------------------------------
(***************************************************************************)
(* The refinement mapping as operators on the slaves S, the request q that *)
(* is on the bus, and the place i its loop has come to.                    *)
(***************************************************************************)
Outcome(S, q, j) == mb_slave_handle(S[j], q)

Ahead(S, q, i, j) == i <= j /\ \A k \in i .. (j - 1) : Outcome(S, q, k).result # "RESPOND"

Bank(S, q, i) ==
  [j \in Bus |-> IF Ahead(S, q, i, j) THEN Outcome(S, q, j).slave.holding ELSE S[j].holding]

Answerers(S, q, i) == { j \in Bus : Ahead(S, q, i, j) /\ Outcome(S, q, j).result = "RESPOND" }

Member(T) == CHOOSE j \in T : TRUE

Awaited(S, q, i) ==
  IF Answerers(S, q, i) = {} THEN <<>>
  ELSE << Outcome(S, q, Member(Answerers(S, q, i))).resp[1].pdu >>

Holdings(S) == [j \in Bus |-> S[j].holding]

\* The answer in an ADU that has come back, if it can be believed.
Held(x) == IF x # <<>> /\ x[1].crc_ok THEN << x[1].pdu >> ELSE <<>>

\* The answer a thread at l has, or will have.
Answered(l, S, q, i, x) ==
  IF l = "loop" THEN Awaited(S, q, i)
  ELSE IF l \in {"faulty_ret", "return"} THEN Held(x) ELSE <<>>

PhaseAt(l) ==
  CASE l \in {"idle", "closed"} -> "idle" [] l \in {"transact", "faulty", "bus"} -> "called"
    [] OTHER -> "done"

\* While a thread is in the loop, the bank is as its loop will leave it.
LEMMA BankInLoop ==
  ASSUME NEW c \in Clients
  PROVE  /\ bus = {c} /\ pc[c] = "loop" => memBar = Bank(slaves, RtuReq(c), idx[c])
         /\ bus' = {c} /\ pc'[c] = "loop" => memBar' = Bank(slaves', RtuReq(c)', idx'[c])
<1>1. ASSUME bus = {c}, pc[c] = "loop"
      PROVE  memBar = Bank(slaves, RtuReq(c), idx[c])
  <2>1. ASSUME NEW j \in Bus
        PROVE  /\ Reaches(c, j) <=> Ahead(slaves, RtuReq(c), idx[c], j)
               /\ (\E d \in bus : Reaches(d, j)) <=> Reaches(c, j)
               /\ Reaches(c, j) => (CHOOSE d \in bus : Reaches(d, j)) = c
    <3>1. Reaches(c, j) <=> Ahead(slaves, RtuReq(c), idx[c], j)
      BY <1>1, Zenon DEF Reaches, Ahead, Outcome
    <3> QED BY <1>1, <3>1, Zenon
  <2> QED BY <2>1, Zenon DEF memBar, Bank, Outcome
<1>2. ASSUME bus' = {c}, pc'[c] = "loop"
      PROVE  memBar' = Bank(slaves', RtuReq(c)', idx'[c])
  <2>1. ASSUME NEW j \in Bus
        PROVE  /\ Reaches(c, j)' <=> Ahead(slaves', RtuReq(c)', idx'[c], j)
               /\ (\E d \in bus' : Reaches(d, j)') <=> Reaches(c, j)'
               /\ Reaches(c, j)' => (CHOOSE d \in bus' : Reaches(d, j)') = c
    <3>1. Reaches(c, j)' <=> Ahead(slaves', RtuReq(c)', idx'[c], j)
      BY <1>2, Zenon DEF Reaches, Ahead, Outcome
    <3> QED BY <1>2, <3>1, Zenon
  <2> QED BY <2>1, Zenon DEF memBar, Bank, Outcome
<1> QED BY <1>1, <1>2

\* While nobody is, it is as it is.
LEMMA BankAtRest ==
  /\ bus = {} => memBar = Holdings(slaves)
  /\ bus' = {} => memBar' = Holdings(slaves')
<1>1. ASSUME bus = {} PROVE memBar = Holdings(slaves)
  BY <1>1, Zenon DEF memBar, Holdings
<1>2. ASSUME bus' = {} PROVE memBar' = Holdings(slaves')
  BY <1>2, Zenon DEF memBar, Holdings
<1> QED BY <1>1, <1>2

\* The other two state functions of the mapping, thread by thread.
LEMMA ThreadsMapped ==
  /\ phaseBar = [c \in Clients |-> PhaseAt(pc[c])]
  /\ phaseBar' = [c \in Clients |-> PhaseAt(pc'[c])]
  /\ ansBar = [c \in Clients |-> Answered(pc[c], slaves, RtuReq(c), idx[c], rsp[c])]
  /\ ansBar' = [c \in Clients |-> Answered(pc'[c], slaves', RtuReq(c)', idx'[c], rsp'[c])]
<1>1. /\ phaseBar = [c \in Clients |-> PhaseAt(pc[c])]
      /\ phaseBar' = [c \in Clients |-> PhaseAt(pc'[c])]
  BY DEF phaseBar, PhaseAt
<1>2. ansBar = [c \in Clients |-> Answered(pc[c], slaves, RtuReq(c), idx[c], rsp[c])]
  <2> DEFINE R(c) == Responders(c)
             A(c) == Answerers(slaves, RtuReq(c), idx[c])
             O(c) == Outcome(slaves, RtuReq(c), Member(R(c))).resp[1].pdu
             B(c) == IF pc[c] = "loop" THEN IF R(c) = {} THEN <<>> ELSE << O(c) >>
                     ELSE IF /\ pc[c] \in {"faulty_ret", "return"}
                             /\ rsp[c] # <<>> /\ rsp[c][1].crc_ok
                       THEN << rsp[c][1].pdu >> ELSE <<>>
  <2>1. ansBar = [c \in Clients |-> B(c)]
    BY DEF ansBar, Outcome, Member
  <2>2. ASSUME NEW c \in Clients
        PROVE  B(c) = Answered(pc[c], slaves, RtuReq(c), idx[c], rsp[c])
    <3>1. CASE pc[c] = "loop"
      <4>1. R(c) = A(c)
        BY <3>1 DEF Responders, Answerers, Reaches, Ahead, Outcome
      <4>2. B(c) = IF R(c) = {} THEN <<>> ELSE << O(c) >>
        BY <3>1, Zenon
      <4> QED BY <3>1, <4>1, <4>2, Zenon DEF Answered, Awaited
    <3>2. CASE pc[c] # "loop"
      <4> HIDE DEF R, O
      <4> QED BY <3>2, Zenon DEF Answered, Held
    <3> QED BY <3>1, <3>2
  <2> HIDE DEF B
  <2> QED BY <2>1, <2>2
<1>3. ansBar' = [c \in Clients |-> Answered(pc'[c], slaves', RtuReq(c)', idx'[c], rsp'[c])]
  <2> DEFINE R(c) == Responders(c)'
             A(c) == Answerers(slaves', RtuReq(c)', idx'[c])
             O(c) == Outcome(slaves', RtuReq(c)', Member(R(c))).resp[1].pdu
             B(c) == IF pc'[c] = "loop" THEN IF R(c) = {} THEN <<>> ELSE << O(c) >>
                     ELSE IF /\ pc'[c] \in {"faulty_ret", "return"}
                             /\ rsp'[c] # <<>> /\ rsp'[c][1].crc_ok
                       THEN << rsp'[c][1].pdu >> ELSE <<>>
  <2>1. ansBar' = [c \in Clients |-> B(c)]
    BY DEF ansBar, Outcome, Member
  <2>2. ASSUME NEW c \in Clients
        PROVE  B(c) = Answered(pc'[c], slaves', RtuReq(c)', idx'[c], rsp'[c])
    <3>1. CASE pc'[c] = "loop"
      <4>1. R(c) = A(c)
        BY <3>1 DEF Responders, Answerers, Reaches, Ahead, Outcome
      <4>2. B(c) = IF R(c) = {} THEN <<>> ELSE << O(c) >>
        BY <3>1, Zenon
      <4> QED BY <3>1, <4>1, <4>2, Zenon DEF Answered, Awaited
    <3>2. CASE pc'[c] # "loop"
      <4> HIDE DEF R, O
      <4> QED BY <3>2, Zenon DEF Answered, Held
    <3> QED BY <3>1, <3>2
  <2> HIDE DEF B
  <2> QED BY <2>1, <2>2
<1> QED BY <1>1, <1>2, <1>3

-----------------------------------------------------------------------------
\* The slave at i is silent: the loop goes on, and everything is as foreseen.
LEMMA BankGoesOn ==
  ASSUME NEW S, DOMAIN S = Bus, NEW q, NEW i \in Bus, Outcome(S, q, i).result # "RESPOND"
  PROVE  LET T == [S EXCEPT ![i] = Outcome(S, q, i).slave]
         IN  /\ Bank(T, q, i + 1) = Bank(S, q, i)
             /\ Awaited(T, q, i + 1) = Awaited(S, q, i)
<1> DEFINE T == [S EXCEPT ![i] = Outcome(S, q, i).slave]
<1>0. i \in Nat /\ \A j \in Bus : j \in Nat
  BY Constants DEF Bus
<1>1. T[i] = Outcome(S, q, i).slave /\ \A j \in Bus : j # i => T[j] = S[j]
  BY Zenon
<1>2. ASSUME NEW j \in Bus, j # i PROVE Outcome(T, q, j) = Outcome(S, q, j)
  BY <1>1, <1>2, Zenon DEF Outcome
<1> HIDE DEF T
<1>3. ASSUME NEW j \in Bus, j > i
      PROVE  Ahead(T, q, i + 1, j) <=> Ahead(S, q, i, j)
  <2>1. \A k \in (i + 1) .. (j - 1) : k \in Bus /\ k # i
    BY <1>0, Constants DEF Bus
  <2>2. \A k \in (i + 1) .. (j - 1) : Outcome(T, q, k) = Outcome(S, q, k)
    BY <1>2, <2>1, Zenon
  <2>3. \A k : k \in i .. (j - 1) <=> k = i \/ k \in (i + 1) .. (j - 1)
    BY <1>0, <1>3
  <2>4. i + 1 <= j /\ i <= j
    BY <1>0, <1>3
  <2> QED BY <2>2, <2>3, <2>4, Zenon DEF Ahead
<1>4. Ahead(S, q, i, i) /\ ~ Ahead(T, q, i + 1, i)
  BY <1>0 DEF Ahead
<1>5. ASSUME NEW j \in Bus, j < i
      PROVE  ~ Ahead(S, q, i, j) /\ ~ Ahead(T, q, i + 1, j)
  BY <1>0, <1>5 DEF Ahead
<1>6. \A j \in Bus : j < i \/ j = i \/ j > i
  BY <1>0
<1>7. Bank(T, q, i + 1) = Bank(S, q, i)
  <2>1. ASSUME NEW j \in Bus
        PROVE  (IF Ahead(T, q, i + 1, j) THEN Outcome(T, q, j).slave.holding ELSE T[j].holding)
               = IF Ahead(S, q, i, j) THEN Outcome(S, q, j).slave.holding ELSE S[j].holding
    <3>1. CASE j = i
      BY <1>1, <1>4, <3>1
    <3>2. CASE j < i
      BY <1>0, <1>1, <1>5, <3>2
    <3>3. CASE j > i
      BY <1>0, <1>1, <1>2, <1>3, <3>3
    <3> QED BY <1>6, <3>1, <3>2, <3>3
  <2> QED BY <2>1, Zenon DEF Bank
<1>8. Answerers(T, q, i + 1) = Answerers(S, q, i)
  <2>1. ASSUME NEW j \in Bus
        PROVE  (Ahead(T, q, i + 1, j) /\ Outcome(T, q, j).result = "RESPOND")
               <=> (Ahead(S, q, i, j) /\ Outcome(S, q, j).result = "RESPOND")
    <3>1. CASE j = i
      BY <1>4, <3>1
    <3>2. CASE j < i
      BY <1>5, <3>2
    <3>3. CASE j > i
      BY <1>0, <1>2, <1>3, <3>3
    <3> QED BY <1>6, <3>1, <3>2, <3>3
  <2> QED BY <2>1, Zenon DEF Answerers
<1>9. Awaited(T, q, i + 1) = Awaited(S, q, i)
  <2>1. CASE Answerers(S, q, i) = {}
    BY <1>8, <2>1, Zenon DEF Awaited
  <2>2. CASE Answerers(S, q, i) # {}
    <3> DEFINE j == Member(Answerers(S, q, i))
    <3>1. j \in Answerers(S, q, i)
      BY <2>2, Zenon DEF Member
    <3>2. j \in Bus /\ j # i
      BY <3>1, Zenon DEF Answerers
    <3>3. Outcome(T, q, j) = Outcome(S, q, j)
      BY <1>2, <3>2, Zenon
    <3> QED BY <1>8, <3>3, Zenon DEF Awaited
  <2> QED BY <2>1, <2>2
<1> QED BY <1>7, <1>9 DEF T

\* The slave at i answers: the loop is over, as foreseen.
LEMMA BankAnswers ==
  ASSUME NEW S, DOMAIN S = Bus, NEW q, NEW i \in Bus, Outcome(S, q, i).result = "RESPOND"
  PROVE  /\ Holdings([S EXCEPT ![i] = Outcome(S, q, i).slave]) = Bank(S, q, i)
         /\ Awaited(S, q, i) = << Outcome(S, q, i).resp[1].pdu >>
<1> DEFINE T == [S EXCEPT ![i] = Outcome(S, q, i).slave]
<1>0. i \in Nat /\ \A j \in Bus : j \in Nat
  BY Constants DEF Bus
<1>1. T[i] = Outcome(S, q, i).slave /\ \A j \in Bus : j # i => T[j] = S[j]
  BY Zenon
<1> HIDE DEF T
<1>2. Ahead(S, q, i, i)
  BY <1>0 DEF Ahead
<1>3. ASSUME NEW j \in Bus, j # i PROVE ~ Ahead(S, q, i, j)
  <2>1. CASE j < i
    BY <1>0, <2>1 DEF Ahead
  <2>2. CASE j > i
    <3>1. i \in i .. (j - 1)
      BY <1>0, <2>2
    <3> QED BY <3>1, Zenon DEF Ahead
  <2> QED BY <1>0, <1>3, <2>1, <2>2
<1>4. Holdings(T) = Bank(S, q, i)
  <2>1. ASSUME NEW j \in Bus
        PROVE  T[j].holding
               = IF Ahead(S, q, i, j) THEN Outcome(S, q, j).slave.holding ELSE S[j].holding
    <3>1. CASE j = i
      BY <1>1, <1>2, <3>1
    <3>2. CASE j # i
      BY <1>1, <1>3, <3>2
    <3> QED BY <3>1, <3>2
  <2> QED BY <2>1, Zenon DEF Bank, Holdings
<1>5. Answerers(S, q, i) = {i}
  BY <1>2, <1>3, Zenon DEF Answerers
<1>6. Member({i}) = i
  BY Zenon DEF Member
<1>7. Awaited(S, q, i) = << Outcome(S, q, i).resp[1].pdu >>
  BY <1>5, <1>6, Zenon DEF Awaited
<1> QED BY <1>4, <1>7 DEF T

\* The loop has come to its end: nobody answers.
LEMMA BankAtEnd ==
  ASSUME NEW S, NEW q, NEW i \in Nat \ {0}, i \notin Bus
  PROVE  Bank(S, q, i) = Holdings(S) /\ Awaited(S, q, i) = <<>>
<1>1. \A j \in Bus : ~ Ahead(S, q, i, j)
  BY Constants DEF Bus, Ahead
<1>2. Bank(S, q, i) = Holdings(S)
  BY <1>1, Zenon DEF Bank, Holdings
<1>3. Answerers(S, q, i) = {}
  BY <1>1, Zenon DEF Answerers
<1> QED BY <1>2, <1>3 DEF Awaited

-----------------------------------------------------------------------------
\* A bank whose slaves have the ids they were given.
Wired(S) ==
  /\ S \in [Bus -> Slave(RegCount)]
  /\ \A j \in Bus : Balanced(S[j]) /\ S[j].addr = UnitIds[j]

\* Who is addressed, in the terms of the loop: only the first of a unicast.
LEMMA AddressedUnits ==
  ASSUME NEW r \in Requests
  PROVE  /\ r.unit_id = MB_ADDR_BROADCAST => Service!Addressed(r) = Bus
         /\ r.unit_id # MB_ADDR_BROADCAST =>
              \A j : j \in Service!Addressed(r) <=>
                       /\ j \in Bus /\ UnitIds[j] = r.unit_id
                       /\ \A k \in 1 .. (j - 1) : UnitIds[k] # r.unit_id
         /\ r.unit_id # MB_ADDR_BROADCAST =>
              \A j, k \in Service!Addressed(r) : j = k
<1>1. Service!Units = Bus
  BY DEF Service!Units, Bus
<1>2. r.unit_id = MB_ADDR_BROADCAST => Service!Addressed(r) = Bus
  BY <1>1, ServiceCodes DEF Service!Addressed, MB_ADDR_BROADCAST
<1>3. ASSUME r.unit_id # MB_ADDR_BROADCAST
      PROVE  \A j : j \in Service!Addressed(r) <=>
                      /\ j \in Bus /\ UnitIds[j] = r.unit_id
                      /\ \A k \in 1 .. (j - 1) : UnitIds[k] # r.unit_id
  BY <1>1, <1>3, ServiceCodes DEF Service!Addressed, MB_ADDR_BROADCAST
<1>4. ASSUME r.unit_id # MB_ADDR_BROADCAST, NEW j \in Service!Addressed(r),
             NEW k \in Service!Addressed(r), j # k
      PROVE  FALSE
  <2>1. /\ j \in Bus /\ k \in Bus /\ UnitIds[j] = r.unit_id /\ UnitIds[k] = r.unit_id
        /\ \A l \in 1 .. (j - 1) : UnitIds[l] # r.unit_id
        /\ \A l \in 1 .. (k - 1) : UnitIds[l] # r.unit_id
    BY <1>3, <1>4
  <2>2. j \in 1 .. (k - 1) \/ k \in 1 .. (j - 1)
    BY <1>4, <2>1, Constants DEF Bus
  <2> QED BY <2>1, <2>2
<1> QED BY <1>2, <1>3, <1>4

\* A slave of the bank, asked on its own.
LEMMA OutcomeMeans ==
  ASSUME NEW S, Wired(S), NEW r \in Requests, r.pdu.len # 0, NEW j \in Bus
  PROVE  LET o     == Outcome(S, tcp_to_rtu(r), j)
             bcast == r.unit_id = MB_ADDR_BROADCAST
         IN  /\ bcast \/ r.unit_id = UnitIds[j] => Means(S[j].holding, r.pdu, bcast, o)
             /\ ~ bcast /\ r.unit_id # UnitIds[j] =>
                  o.slave.holding = S[j].holding /\ o.result # "RESPOND"
<1>1. S[j] \in Slave(RegCount) /\ Balanced(S[j]) /\ S[j].addr = UnitIds[j]
  BY DEF Wired
<1> QED BY <1>1, HandleMeans, Zenon DEF Outcome

(***************************************************************************)
(* The loop begins: what it will do to the bank, and what it will return,  *)
(* is the effect and the answer of the request.                            *)
(***************************************************************************)
LEMMA BankStarts ==
  ASSUME NEW S, Wired(S), NEW r \in Requests, r.pdu.len # 0, memBar = Holdings(S)
  PROVE  /\ Bank(S, tcp_to_rtu(r), 1) = Service!Effect(r)
         /\ Awaited(S, tcp_to_rtu(r), 1) = Service!Answer(r)
<1> DEFINE q     == tcp_to_rtu(r)
           p     == r.pdu
           bcast == r.unit_id = MB_ADDR_BROADCAST
           well  == Service!WellFormed(p)
           write == Service!IsWrite(p) /\ well /\ Service!Fault(p) = 0
           A     == Service!Addressed(r)
           After(j) == Outcome(S, q, j).slave.holding
           Now(j)   == S[j].holding
           Loud(j)  == Outcome(S, q, j).result = "RESPOND"
<1>1. ASSUME NEW j \in Bus
      PROVE  /\ bcast => After(j) = IF write THEN Written(Now(j), p) ELSE Now(j)
             /\ ~ bcast /\ UnitIds[j] = r.unit_id =>
                  After(j) = IF write THEN Written(Now(j), p) ELSE Now(j)
             /\ ~ bcast /\ UnitIds[j] # r.unit_id => After(j) = Now(j)
             /\ Loud(j) <=> ~ bcast /\ well /\ UnitIds[j] = r.unit_id
             /\ Loud(j) => Outcome(S, q, j).resp[1].pdu = Told(Now(j), p)
  BY OutcomeMeans, Zenon DEF Means
<1>2. /\ bcast => A = Bus
      /\ ~ bcast => \A j : j \in A <=> /\ j \in Bus /\ UnitIds[j] = r.unit_id
                                      /\ \A k \in 1 .. (j - 1) : UnitIds[k] # r.unit_id
      /\ ~ bcast => \A j, k \in A : j = k
  BY AddressedUnits
<1>3. \A j \in Bus : 1 <= j /\ \A k \in 1 .. (j - 1) : k \in Bus
  BY Constants DEF Bus
<1>4. ASSUME NEW j \in Bus
      PROVE  /\ Ahead(S, q, 1, j) <=> \A k \in 1 .. (j - 1) : ~ Loud(k)
             /\ memBar[j] = Now(j)
  BY <1>3 DEF Ahead, Holdings
<1>5. ASSUME NEW j \in Bus
      PROVE  (IF Ahead(S, q, 1, j) THEN After(j) ELSE Now(j))
             = IF j \in A /\ write THEN Written(Now(j), p) ELSE Now(j)
  <2> HIDE DEF After, Now, Loud, A, bcast, well, q
  <2>1. CASE bcast
    <3>1. Ahead(S, q, 1, j)
      BY <1>1, <1>3, <1>4, <2>1, Zenon
    <3> QED BY <1>1, <1>2, <2>1, <3>1, Zenon
  <2>2. CASE ~ bcast /\ UnitIds[j] # r.unit_id
    BY <1>1, <1>2, <2>2, Zenon
  <2>3. CASE ~ bcast /\ UnitIds[j] = r.unit_id /\ ~ well
    BY <1>1, <1>2, <2>3, Zenon
  <2>4. CASE ~ bcast /\ UnitIds[j] = r.unit_id /\ well
    <3>1. Ahead(S, q, 1, j) <=> j \in A
      BY <1>1, <1>2, <1>3, <1>4, <2>4, Zenon
    <3> QED BY <1>1, <2>4, <3>1, Zenon
  <2> QED BY <2>1, <2>2, <2>3, <2>4, Zenon
<1>6. Bank(S, q, 1) = Service!Effect(r)
  <2>1. Service!Effect(r) = [j \in Bus |-> IF j \in A /\ write THEN Written(memBar[j], p)
                                           ELSE memBar[j]]
    BY DEF Service!Effect, Service!Units, Bus, Written
  <2>2. Bank(S, q, 1) = [j \in Bus |-> IF Ahead(S, q, 1, j) THEN After(j) ELSE Now(j)]
    BY DEF Bank
  <2> HIDE DEF After, Now, Loud, A, bcast, well, q, write
  <2>3. ASSUME NEW j \in Bus
        PROVE  (IF Ahead(S, q, 1, j) THEN After(j) ELSE Now(j))
               = IF j \in A /\ write THEN Written(memBar[j], p) ELSE memBar[j]
    BY <1>4, <1>5
  <2> QED BY <2>1, <2>2, <2>3, Zenon
<1>7. Awaited(S, q, 1) = Service!Answer(r)
  <2>1. Service!Answer(r) = IF bcast \/ ~ well \/ A = {} THEN <<>>
                            ELSE << Service!AnswerOf(Member(A), r) >>
    BY ServiceCodes DEF Service!Answer, Member, MB_ADDR_BROADCAST
  <2>2. \A u : Service!AnswerOf(u, r) = Told(memBar[u], p)
    BY ServiceCodes DEF Service!AnswerOf, Told
  <2> HIDE DEF After, Now, A, bcast, well, q, write
  <2>3. CASE bcast \/ ~ well
    <3>1. Answerers(S, q, 1) = {}
      BY <1>1, <2>3, Zenon DEF Answerers
    <3> QED BY <2>1, <2>3, <3>1, Zenon DEF Awaited
  <2>4. CASE ~ bcast /\ well
    <3> DEFINE R == Answerers(S, q, 1)
    <3>1. \A j : j \in R <=> j \in Bus /\ Ahead(S, q, 1, j) /\ Loud(j)
      BY Zenon DEF Answerers
    <3>2. \A j : j \in R <=> j \in A
      <4>1. \A j \in Bus : Loud(j) <=> UnitIds[j] = r.unit_id
        BY <1>1, <2>4, Zenon
      <4>2. \A j \in Bus : Ahead(S, q, 1, j) <=> \A k \in 1 .. (j - 1) : UnitIds[k] # r.unit_id
        BY <1>3, <1>4, <4>1, Zenon
      <4> HIDE DEF R, Loud
      <4> QED BY <1>2, <2>4, <3>1, <4>1, <4>2, Zenon
    <3> HIDE DEF R
    <3>3. R = A
      BY <3>2
    <3>4. CASE A = {}
      BY <2>1, <3>3, <3>4, Zenon DEF Awaited, R
    <3>5. CASE A # {}
      <4> DEFINE j == Member(A)
      <4>1. j \in A
        BY <3>5, Zenon DEF Member
      <4>2. j \in Bus /\ Loud(j)
        BY <3>1, <3>2, <4>1
      <4>3. Outcome(S, q, j).resp[1].pdu = Told(memBar[j], p)
        BY <1>1, <1>4, <4>2, Zenon
      <4>4. Awaited(S, q, 1) = << Outcome(S, q, j).resp[1].pdu >>
        BY <3>3, <3>5, Zenon DEF Awaited, R
      <4> HIDE DEF j
      <4> QED BY <2>1, <2>2, <2>4, <3>5, <4>3, <4>4, Zenon DEF j
    <3> QED BY <3>4, <3>5
  <2> QED BY <2>3, <2>4
<1> QED BY <1>6, <1>7

-----------------------------------------------------------------------------
(***************************************************************************)
(* What the mapping needs of a state besides the invariants above: the     *)
(* slaves have the ids they were given, and a request inside handle is not *)
(* empty.                                                                  *)
(***************************************************************************)
IdsKept  == \A j \in Bus : slaves[j].addr = UnitIds[j]
NotEmpty == \A c \in Clients : pc[c] \notin {"idle", "closed"} => Req(c).pdu.len # 0

MapInv == RouteInv /\ Exclusive /\ FaultInv /\ IdsKept /\ NotEmpty

\* The places of a thread.
LEMMA Places ==
  ASSUME RouteInv
  PROVE  /\ pc \in [Clients -> {"idle", "transact", "faulty", "bus", "loop", "faulty_ret",
                                "return", "closed"}]
         /\ req \in [Clients -> Optional(Requests)] /\ rsp \in [Clients -> Optional(ResponseAdu)]
         /\ idx \in [Clients -> 1 .. (Len(UnitIds) + 1)]
         /\ slaves \in [Bus -> Slave(RegCount)]
  BY DEF RouteInv, TypeOK

\* A request is kept while its thread is inside handle.
LEMMA NotEmptyStep ==
  ASSUME RouteInv, NotEmpty, [Next]_vars
  PROVE  NotEmpty'
<1>0. /\ pc \in [Clients -> {"idle", "transact", "faulty", "bus", "loop", "faulty_ret",
                             "return", "closed"}]
      /\ req \in [Clients -> Optional(Requests)]
  BY Places
<1>1. ASSUME NEW c \in Clients, NEW r \in Requests, HandleEmpty(c, r) \/ HandleCall(c, r)
      PROVE  NotEmpty'
  <2>1. CASE HandleEmpty(c, r)
    BY <2>1 DEF HandleEmpty, NotEmpty, Req
  <2>2. CASE HandleCall(c, r)
    <3>1. /\ r.pdu.len # 0 /\ pc' = [pc EXCEPT ![c] = "transact"]
          /\ req' = [req EXCEPT ![c] = <<r>>]
      BY <2>2 DEF HandleCall
    <3>2. <<r>>[1] = r
      OBVIOUS
    <3>3. ASSUME NEW d \in Clients, pc'[d] \notin {"idle", "closed"} PROVE req'[d][1].pdu.len # 0
      <4>1. CASE d = c
        BY <1>0, <3>1, <3>2, <4>1
      <4>2. CASE d # c
        BY <1>0, <3>1, <3>3, <4>2 DEF NotEmpty, Req
      <4> QED BY <4>1, <4>2
    <3> QED BY <3>3 DEF NotEmpty, Req
  <2> QED BY <1>1, <2>1, <2>2
<1>2. ASSUME NEW c \in Clients, LeaveStep(c) PROVE NotEmpty'
  <2>1. /\ pc' = [pc EXCEPT ![c] = "idle"] /\ req' = [req EXCEPT ![c] = <<>>]
    BY <1>2 DEF LeaveStep, HandleTimeout, HandleCrcFailure, HandleResponse, Leave
  <2>2. ASSUME NEW d \in Clients, pc'[d] \notin {"idle", "closed"} PROVE req'[d][1].pdu.len # 0
    <3>1. d # c
      BY <1>0, <2>1, <2>2
    <3> QED BY <1>0, <2>1, <2>2, <3>1 DEF NotEmpty, Req
  <2> QED BY <2>2 DEF NotEmpty, Req
<1>3. ASSUME NEW c \in Clients, TransportStep(c) PROVE NotEmpty'
  <2>1. req' = req /\ pc[c] \notin {"idle", "closed"}
    BY <1>3 DEF TransportStep, FaultyLock, FaultyDrop, FaultyForward, BusLock, SlaveAnswers,
                SlaveSilent, BusSilent, FaultyCorrupt, FaultyReturn
  <2>2. pc' = pc \/ \E l : pc' = [pc EXCEPT ![c] = l]
    BY <1>3 DEF TransportStep, FaultyLock, FaultyDrop, FaultyForward, BusLock, SlaveAnswers,
                SlaveSilent, BusSilent, FaultyCorrupt, FaultyReturn, BusReturn,
                TransactReturns, Goto
  <2>3. \A d \in Clients : pc'[d] \notin {"idle", "closed"} => pc[d] \notin {"idle", "closed"}
    BY <1>0, <2>1, <2>2
  <2> QED BY <2>1, <2>3 DEF NotEmpty, Req
<1>4. CASE UNCHANGED vars
  BY <1>4 DEF vars, NotEmpty, Req
<1>5. ASSUME NEW c \in Clients, CloseStep(c) PROVE NotEmpty'
  <2>1. pc' = [pc EXCEPT ![c] = "closed"] /\ req' = req
    BY <1>5 DEF CloseStep, FramingError
  <2>2. \A d \in Clients : pc'[d] \notin {"idle", "closed"} => pc[d] \notin {"idle", "closed"}
    BY <1>0, <2>1
  <2> QED BY <2>1, <2>2 DEF NotEmpty, Req
<1> QED BY <1>1, <1>2, <1>3, <1>4, <1>5 DEF Next, Progress, Finished, CallStep

\* A slave that is offered a request keeps its id.
LEMMA OfferKeepsId ==
  ASSUME RouteInv, NEW c \in Clients, pc[c] = "loop", idx[c] \in Bus
  PROVE  Offer(c).slave.addr = slaves[idx[c]].addr
<1> DEFINE s == slaves[idx[c]]
           q == RtuReq(c)
           b == q.addr = MB_ADDR_BROADCAST
<1>1. s \in Slave(RegCount) /\ Balanced(s) /\ RegCount \in Nat
  BY Constants DEF RouteInv, TypeOK, SlavesBalanced
<1>2. q \in RequestAdu
  BY InsideHandle
<1> HIDE DEF s, q
<1>3. Sound(RegCount, s.addr, b, mb_slave_handle(s, q))
  BY <1>1, <1>2, HandleSound
<1> QED BY <1>3 DEF Sound, Shaped, Offer, s, q

\* The slaves keep their ids.
LEMMA IdsStep ==
  ASSUME RouteInv, IdsKept, [Next]_vars
  PROVE  IdsKept'
<1>1. CASE slaves' = slaves
  BY <1>1 DEF IdsKept
<1>2. ASSUME NEW c \in Clients, SlaveAnswers(c) \/ SlaveSilent(c) PROVE IdsKept'
  <2>1. /\ pc[c] = "loop" /\ idx[c] \in Bus
        /\ slaves' = [slaves EXCEPT ![idx[c]] = Offer(c).slave]
    BY <1>2 DEF SlaveAnswers, SlaveSilent
  <2>2. Offer(c).slave.addr = slaves[idx[c]].addr
    BY <2>1, OfferKeepsId
  <2>3. slaves \in [Bus -> Slave(RegCount)]
    BY Places
  <2>4. ASSUME NEW j \in Bus PROVE slaves'[j].addr = slaves[j].addr
    <3>1. CASE j = idx[c]
      BY <2>1, <2>2, <2>3, <3>1
    <3>2. CASE j # idx[c]
      BY <2>1, <2>3, <3>2
    <3> QED BY <3>1, <3>2
  <2> QED BY <2>4 DEF IdsKept
<1>3. ASSUME NEW c \in Clients, TransportStep(c), ~ (SlaveAnswers(c) \/ SlaveSilent(c))
      PROVE  slaves' = slaves
  BY <1>3 DEF TransportStep, FaultyLock, FaultyDrop, FaultyForward, BusLock, BusSilent,
              FaultyCorrupt, FaultyReturn
<1> QED BY <1>1, <1>2, <1>3 DEF Next, Progress, Finished, CallStep, CloseStep, LeaveStep, vars

\* The invariant the mapping rests on.
LEMMA MapInvariant == Spec => []MapInv
<1>1. Init => FaultInv
  BY FaultInit
<1>2. Init => IdsKept /\ NotEmpty
  <2> SUFFICES ASSUME Init PROVE IdsKept /\ NotEmpty
    OBVIOUS
  <2>1. \A c \in Clients : pc[c] = "idle"
    BY DEF Init, GatewayInit
  <2>2. ASSUME NEW j \in Bus PROVE slaves[j].addr = UnitIds[j]
    <3>1. slaves[j] = seeded(UnitIds[j])
      BY DEF Init
    <3>2. seeded(UnitIds[j]).addr = UnitIds[j]
      BY DEF seeded, mb_slave_init
    <3> QED BY <3>1, <3>2
  <2> QED BY <2>1, <2>2 DEF IdsKept, NotEmpty
<1>3. RouteInv /\ FaultInv /\ IdsKept /\ NotEmpty /\ [Next]_vars
        => FaultInv' /\ IdsKept' /\ NotEmpty'
  BY FaultStep, IdsStep, NotEmptyStep
<1>4. Spec => [](FaultInv /\ IdsKept /\ NotEmpty)
  BY <1>1, <1>2, <1>3, RouteInvariant, PTL DEF Spec
<1>5. RouteInv /\ Exclusive /\ FaultInv /\ IdsKept /\ NotEmpty => MapInv
  BY DEF MapInv
<1> QED BY <1>4, <1>5, RouteInvariant, MutualExclusion, PTL

-----------------------------------------------------------------------------
\* The bank is the same where neither the slaves nor who holds bus_ changes.
LEMMA BankKept ==
  ASSUME Exclusive, slaves' = slaves, bus' = bus,
         \A d \in bus : pc'[d] = pc[d] /\ idx'[d] = idx[d] /\ req'[d] = req[d]
  PROVE  memBar' = memBar
<1>1. CASE bus = {}
  BY <1>1, BankAtRest
<1>2. CASE bus # {}
  <2>1. PICK d \in bus : TRUE
    BY <1>2
  <2>2. d \in Clients /\ pc[d] = "loop" /\ bus = {d}
    BY <2>1, Zenon DEF Exclusive
  <2>3. RtuReq(d)' = RtuReq(d)
    BY <2>1 DEF RtuReq, Req, tcp_to_rtu
  <2>4. memBar = Bank(slaves, RtuReq(d), idx[d])
    BY <2>2, BankInLoop
  <2>5. memBar' = Bank(slaves', RtuReq(d)', idx'[d])
    BY <2>1, <2>2, BankInLoop
  <2> QED BY <2>1, <2>3, <2>4, <2>5
<1> QED BY <1>1, <1>2

\* A thread moves, and what the others are waiting for is not touched.
LEMMA ThreadMoves ==
  ASSUME RouteInv, NEW c \in Clients, NEW l, pc' = [pc EXCEPT ![c] = l],
         \A d \in Clients : d # c => rsp'[d] = rsp[d] /\ idx'[d] = idx[d] /\ req'[d] = req[d],
         \A d \in Clients : d # c /\ pc[d] = "loop" => slaves' = slaves
  PROVE  /\ phaseBar' = [phaseBar EXCEPT ![c] = PhaseAt(l)]
         /\ ansBar' = [ansBar EXCEPT ![c] =
                         Answered(l, slaves', RtuReq(c)', idx'[c], rsp'[c])]
<1>0. pc'[c] = l /\ \A d \in Clients : d # c => pc'[d] = pc[d]
  BY Places
<1>1. phaseBar' = [phaseBar EXCEPT ![c] = PhaseAt(l)]
  <2> DEFINE P(d) == PhaseAt(pc[d])
             Q(d) == PhaseAt(pc'[d])
  <2>1. phaseBar = [d \in Clients |-> P(d)] /\ phaseBar' = [d \in Clients |-> Q(d)]
    BY ThreadsMapped
  <2>2. Q(c) = PhaseAt(l) /\ \A d \in Clients : d # c => Q(d) = P(d)
    BY <1>0
  <2> HIDE DEF P, Q
  <2> QED BY <2>1, <2>2, Zenon
<1>2. ASSUME NEW d \in Clients, d # c
      PROVE  Answered(pc'[d], slaves', RtuReq(d)', idx'[d], rsp'[d])
             = Answered(pc[d], slaves, RtuReq(d), idx[d], rsp[d])
  <2>1. RtuReq(d)' = RtuReq(d)
    BY <1>2 DEF RtuReq, Req, tcp_to_rtu
  <2>2. CASE pc[d] = "loop"
    BY <1>0, <1>2, <2>1, <2>2
  <2>3. CASE pc[d] # "loop"
    BY <1>0, <1>2, <2>3, Zenon DEF Answered
  <2> QED BY <2>2, <2>3
<1>3. ansBar' = [ansBar EXCEPT ![c] = Answered(l, slaves', RtuReq(c)', idx'[c], rsp'[c])]
  <2> DEFINE A(d) == Answered(pc[d], slaves, RtuReq(d), idx[d], rsp[d])
             B(d) == Answered(pc'[d], slaves', RtuReq(d)', idx'[d], rsp'[d])
  <2>1. ansBar = [d \in Clients |-> A(d)] /\ ansBar' = [d \in Clients |-> B(d)]
    BY ThreadsMapped
  <2>2. B(c) = Answered(l, slaves', RtuReq(c)', idx'[c], rsp'[c])
    BY <1>0
  <2>3. \A d \in Clients : d # c => B(d) = A(d)
    BY <1>2
  <2> HIDE DEF A, B
  <2> QED BY <2>1, <2>2, <2>3, Zenon
<1> QED BY <1>1, <1>3

\* The mapping of one thread.
LEMMA ThreadAt ==
  ASSUME NEW c \in Clients
  PROVE  /\ phaseBar[c] = PhaseAt(pc[c])
         /\ ansBar[c] = Answered(pc[c], slaves, RtuReq(c), idx[c], rsp[c])
         /\ phaseBar = [phaseBar EXCEPT ![c] = phaseBar[c]]
         /\ ansBar = [ansBar EXCEPT ![c] = ansBar[c]]
<1>1. phaseBar = [d \in Clients |-> PhaseAt(pc[d])] /\ phaseBar[c] = PhaseAt(pc[c])
  BY ThreadsMapped, Zenon
<1> DEFINE A(d) == Answered(pc[d], slaves, RtuReq(d), idx[d], rsp[d])
<1>2. ansBar = [d \in Clients |-> A(d)]
  BY ThreadsMapped
<1> HIDE DEF A
<1>3. ansBar[c] = A(c) /\ ansBar = [ansBar EXCEPT ![c] = ansBar[c]]
  BY <1>2
<1>4. phaseBar = [phaseBar EXCEPT ![c] = phaseBar[c]]
  BY <1>1
<1> QED BY <1>1, <1>3, <1>4 DEF A

\* The slaves in their initial state are the service's.
LEMMA InitMapped == Init => Service!Init
<1> SUFFICES ASSUME Init PROVE Service!Init
  OBVIOUS
<1>1. memBar = Holdings(slaves)
  BY BankAtRest DEF Init
<1>2. ASSUME NEW j \in Bus
      PROVE  slaves[j].holding = [i \in 0 .. (RegCount - 1) |-> UnitIds[j] * 256 + i]
  <2>1. slaves[j] = seeded(UnitIds[j])
    BY DEF Init
  <2>2. seeded(UnitIds[j]).holding = [i \in 0 .. (RegCount - 1) |-> UnitIds[j] * 256 + i]
    BY DEF seeded, mb_slave_init
  <2> QED BY <2>1, <2>2
<1>3. memBar = [j \in Service!Units |-> [i \in 0 .. (RegCount - 1) |-> UnitIds[j] * 256 + i]]
  BY <1>1, <1>2 DEF Holdings, Service!Units, Bus
<1>4. ASSUME NEW c \in Clients
      PROVE  /\ PhaseAt(pc[c]) = "idle"
             /\ Answered(pc[c], slaves, RtuReq(c), idx[c], rsp[c]) = <<>>
  BY DEF Init, GatewayInit, PhaseAt, Answered
<1>5. phaseBar = [c \in Clients |-> "idle"]
  BY <1>4, ThreadsMapped
<1>6. ansBar = [c \in Clients |-> <<>>]
  <2> DEFINE A(d) == Answered(pc[d], slaves, RtuReq(d), idx[d], rsp[d])
  <2>1. ansBar = [d \in Clients |-> A(d)] /\ \A d \in Clients : A(d) = <<>>
    BY <1>4, ThreadsMapped
  <2> HIDE DEF A
  <2> QED BY <2>1
<1> QED BY <1>3, <1>5, <1>6 DEF Init, GatewayInit, Service!Init

-----------------------------------------------------------------------------
(***************************************************************************)
(* The steps of the gateway, one by one, as steps of the service.          *)
(***************************************************************************)
\* Nothing the mapping looks at has changed.
LEMMA NothingMoves ==
  ASSUME Exclusive, UNCHANGED <<pc, req, rsp, slaves, bus, idx>>
  PROVE  UNCHANGED <<memBar, phaseBar, ansBar>>
<1>1. memBar' = memBar
  BY BankKept
<1>2. phaseBar' = phaseBar
  BY DEF phaseBar
<1>3. ansBar' = ansBar
  <2> DEFINE A(d) == Answered(pc[d], slaves, RtuReq(d), idx[d], rsp[d])
             B(d) == Answered(pc'[d], slaves', RtuReq(d)', idx'[d], rsp'[d])
  <2>1. ansBar = [d \in Clients |-> A(d)] /\ ansBar' = [d \in Clients |-> B(d)]
    BY ThreadsMapped
  <2>2. \A d \in Clients : RtuReq(d)' = RtuReq(d)
    BY DEF RtuReq, Req, tcp_to_rtu
  <2>3. \A d \in Clients : B(d) = A(d)
    BY <2>2
  <2> HIDE DEF A, B
  <2> QED BY <2>1, <2>3
<1> QED BY <1>1, <1>2, <1>3

\* A call of handle: refused, or taken in.
LEMMA CallMapped ==
  ASSUME MapInv, NEW c \in Clients, CallStep(c)
  PROVE  Service!Reject(c) \/ Service!Call(c)
<1>0. RouteInv /\ Exclusive /\ UNCHANGED <<slaves, bus, idx>>
  BY DEF MapInv, CallStep
<1>1. PICK r \in Requests : HandleEmpty(c, r) \/ HandleCall(c, r)
  BY DEF CallStep
<1>2. pc[c] = "idle" /\ Len(log[c]) < MaxCalls
  BY <1>1 DEF HandleEmpty, HandleCall
<1>3. phaseBar[c] = "idle" /\ ansBar[c] = <<>>
  BY <1>2, ThreadAt DEF PhaseAt, Answered
<1>4. CASE HandleEmpty(c, r)
  <2>1. r.pdu.len = 0 /\ UNCHANGED <<pc, req, rsp>>
    BY <1>4 DEF HandleEmpty
  <2>2. UNCHANGED <<memBar, phaseBar, ansBar>>
    BY <1>0, <2>1, NothingMoves
  <2>3. Service!Deliver(c, r, Service!ExceptionPdu(0, 10))
    BY <1>4, ServiceCodes DEF HandleEmpty, Reply, make_exception, Service!Deliver,
                              EX_GATEWAY_PATH_UNAVAILABLE
  <2> QED BY <1>2, <1>3, <2>1, <2>2, <2>3 DEF Service!Reject
<1>5. CASE HandleCall(c, r)
  <2>1. /\ r.pdu.len # 0 /\ pc' = [pc EXCEPT ![c] = "transact"]
        /\ req' = [req EXCEPT ![c] = <<r>>] /\ rsp' = [rsp EXCEPT ![c] = <<>>] /\ log' = log
    BY <1>5 DEF HandleCall
  <2>2. \A d \in Clients : d # c => pc'[d] = pc[d] /\ rsp'[d] = rsp[d] /\ req'[d] = req[d]
    BY <1>0, <2>1, Places
  <2>3. c \notin bus /\ bus \subseteq Clients
    BY <1>0, <1>2 DEF Exclusive
  <2>4. memBar' = memBar
    <3>1. \A d \in bus : pc'[d] = pc[d] /\ idx'[d] = idx[d] /\ req'[d] = req[d]
      BY <1>0, <2>2, <2>3
    <3> QED BY <1>0, <3>1, BankKept
  <2>5. /\ phaseBar' = [phaseBar EXCEPT ![c] = PhaseAt("transact")]
        /\ ansBar' = [ansBar EXCEPT ![c] =
                        Answered("transact", slaves', RtuReq(c)', idx'[c], rsp'[c])]
    <3>1. /\ \A d \in Clients : d # c => rsp'[d] = rsp[d] /\ idx'[d] = idx[d] /\ req'[d] = req[d]
          /\ slaves' = slaves
      BY <1>0, <2>2
    <3> QED BY <1>0, <2>1, <3>1, ThreadMoves, Zenon
  <2>6. PhaseAt("transact") = "called"
    BY DEF PhaseAt
  <2>7. ansBar' = ansBar
    <3>1. Answered("transact", slaves', RtuReq(c)', idx'[c], rsp'[c]) = <<>>
      BY DEF Answered
    <3>2. ansBar = [ansBar EXCEPT ![c] = <<>>]
      BY <1>3, ThreadAt
    <3> QED BY <2>5, <3>1, <3>2, Zenon
  <2> QED BY <1>2, <1>3, <2>1, <2>4, <2>5, <2>6, <2>7 DEF Service!Call
<1> QED BY <1>1, <1>4, <1>5

\* Inside the injector, before the bus: nothing happens, or the request is lost.
LEMMA EntryMapped ==
  ASSUME MapInv, NEW c \in Clients, FaultyLock(c) \/ FaultyForward(c) \/ FaultyDrop(c)
  PROVE  \/ UNCHANGED <<memBar, phaseBar, req, ansBar, log>>
         \/ Service!LoseRequest(c)
<1>0. RouteInv /\ Exclusive /\ UNCHANGED <<slaves, bus, idx, req, log>>
  BY DEF MapInv, FaultyLock, FaultyForward, FaultyDrop
<1>1. pc[c] \in {"transact", "faulty"}
  BY DEF FaultyLock, FaultyForward, FaultyDrop
<1>2. phaseBar[c] = "called" /\ ansBar[c] = <<>>
  BY <1>1, ThreadAt DEF PhaseAt, Answered
<1>a. phaseBar = [phaseBar EXCEPT ![c] = "called"] /\ ansBar = [ansBar EXCEPT ![c] = <<>>]
  BY <1>2, ThreadAt
<1>3. c \notin bus /\ bus \subseteq Clients /\ rsp[c] = <<>>
  BY <1>0, <1>1, NothingYet DEF Exclusive
<1>4. ASSUME NEW l, l # "loop", pc' = [pc EXCEPT ![c] = l],
             rsp' = rsp \/ rsp' = [rsp EXCEPT ![c] = <<>>]
      PROVE  memBar' = memBar /\ phaseBar' = [phaseBar EXCEPT ![c] = PhaseAt(l)]
             /\ ansBar' = ansBar
  <2>1. \A d \in Clients : d # c => pc'[d] = pc[d] /\ rsp'[d] = rsp[d] /\ req'[d] = req[d]
    BY <1>0, <1>4, Places
  <2>2. rsp'[c] = <<>>
    BY <1>0, <1>3, <1>4, Places
  <2>3. memBar' = memBar
    <3>1. \A d \in bus : pc'[d] = pc[d] /\ idx'[d] = idx[d] /\ req'[d] = req[d]
      BY <1>0, <1>3, <2>1
    <3> QED BY <1>0, <3>1, BankKept
  <2>4. /\ phaseBar' = [phaseBar EXCEPT ![c] = PhaseAt(l)]
        /\ ansBar' = [ansBar EXCEPT ![c] = Answered(l, slaves', RtuReq(c)', idx'[c], rsp'[c])]
    <3>1. /\ \A d \in Clients : d # c => rsp'[d] = rsp[d] /\ idx'[d] = idx[d] /\ req'[d] = req[d]
          /\ slaves' = slaves
      BY <1>0, <2>1
    <3> QED BY <1>0, <1>4, <3>1, ThreadMoves, Zenon
  <2>5. Answered(l, slaves', RtuReq(c)', idx'[c], rsp'[c]) = <<>>
    BY <1>4, <2>2 DEF Answered, Held
  <2> QED BY <1>a, <2>3, <2>4, <2>5, Zenon
<1>5. CASE FaultyLock(c) \/ FaultyForward(c)
  <2>1. PICK l \in {"faulty", "bus"} : pc' = [pc EXCEPT ![c] = l] /\ rsp' = rsp
    BY <1>5 DEF FaultyLock, FaultyForward, Goto
  <2>2. PhaseAt(l) = "called" /\ l # "loop"
    BY DEF PhaseAt
  <2>3. phaseBar' = phaseBar /\ ansBar' = ansBar /\ memBar' = memBar
    BY <1>4, <1>a, <2>1, <2>2, Zenon
  <2> QED BY <1>0, <2>3
<1>6. CASE FaultyDrop(c)
  <2>1. MayDrop /\ pc' = [pc EXCEPT ![c] = "return"] /\ rsp' = [rsp EXCEPT ![c] = <<>>]
    BY <1>6 DEF FaultyDrop, TransactReturns
  <2>2. PhaseAt("return") = "done"
    BY DEF PhaseAt
  <2> QED BY <1>0, <1>2, <1>4, <2>1, <2>2 DEF Service!LoseRequest
<1> QED BY <1>5, <1>6

\* The thread that has the bus is alone in the loop, and the bank is as it will leave it.
LEMMA AloneInLoop ==
  ASSUME Exclusive, NEW c \in Clients, pc[c] = "loop"
  PROVE  /\ bus = {c} /\ \A d \in Clients : d # c => pc[d] # "loop"
         /\ memBar = Bank(slaves, RtuReq(c), idx[c])
         /\ phaseBar[c] = "done" /\ ansBar[c] = Awaited(slaves, RtuReq(c), idx[c])
<1>1. bus = {c} /\ \A d \in Clients : d # c => pc[d] # "loop"
  BY Zenon DEF Exclusive
<1>2. memBar = Bank(slaves, RtuReq(c), idx[c])
  BY <1>1, BankInLoop, Zenon
<1>3. PhaseAt("loop") = "done"
  BY DEF PhaseAt
<1>4. \A S, q, i, x : Answered("loop", S, q, i, x) = Awaited(S, q, i)
  BY DEF Answered
<1> QED BY <1>1, <1>2, <1>3, <1>4, ThreadAt

\* A thread gets the bus: its request takes effect.
LEMMA BusLockMapped ==
  ASSUME MapInv, NEW c \in Clients, BusLock(c)
  PROVE  Service!Execute(c)
<1>0. /\ RouteInv /\ Exclusive /\ IdsKept /\ NotEmpty
      /\ UNCHANGED <<slaves, req, rsp, log>> /\ bus = {} /\ bus' = {c}
      /\ pc[c] \in {"bus", "transact"} /\ pc' = [pc EXCEPT ![c] = "loop"]
      /\ idx' = [idx EXCEPT ![c] = 1]
  BY DEF MapInv, BusLock, Goto
<1> DEFINE r == req[c][1]
           q == tcp_to_rtu(r)
<1>1. Req(c) = r /\ RtuReq(c)' = q
  BY <1>0 DEF Req, RtuReq, tcp_to_rtu
<1>2. pc'[c] = "loop" /\ idx'[c] = 1
      /\ \A d \in Clients : d # c => idx'[d] = idx[d]
  BY <1>0, Places
<1>3. r \in Requests /\ r.pdu.len # 0
  BY <1>0, <1>1, InsideHandle DEF NotEmpty
<1>4. Wired(slaves)
  BY <1>0 DEF Wired, RouteInv, TypeOK, SlavesBalanced, IdsKept
<1>5. memBar = Holdings(slaves)
  BY <1>0, BankAtRest
<1>6. memBar' = Bank(slaves, q, 1)
  BY <1>0, <1>1, <1>2, BankInLoop
<1>7. phaseBar[c] = "called"
  BY <1>0, ThreadAt DEF PhaseAt
<1>8. /\ phaseBar' = [phaseBar EXCEPT ![c] = PhaseAt("loop")]
      /\ ansBar' = [ansBar EXCEPT ![c] =
                      Answered("loop", slaves', RtuReq(c)', idx'[c], rsp'[c])]
  <2>1. /\ \A d \in Clients : d # c => rsp'[d] = rsp[d] /\ idx'[d] = idx[d] /\ req'[d] = req[d]
        /\ slaves' = slaves
    BY <1>0, <1>2
  <2> QED BY <1>0, <2>1, ThreadMoves, Zenon
<1>9. PhaseAt("loop") = "done"
  BY DEF PhaseAt
<1>10. Answered("loop", slaves', RtuReq(c)', idx'[c], rsp'[c]) = Awaited(slaves, q, 1)
  BY <1>0, <1>1, <1>2 DEF Answered
<1> HIDE DEF q
<1>11. Bank(slaves, q, 1) = Service!Effect(r) /\ Awaited(slaves, q, 1) = Service!Answer(r)
  BY <1>3, <1>4, <1>5, BankStarts, Zenon DEF q
<1>12. /\ memBar' = Service!Effect(req[c][1])
       /\ ansBar' = [ansBar EXCEPT ![c] = Service!Answer(req[c][1])]
       /\ phaseBar' = [phaseBar EXCEPT ![c] = "done"]
  BY <1>6, <1>8, <1>9, <1>10, <1>11, Zenon
<1> QED BY <1>0, <1>7, <1>12, Zenon DEF Service!Execute

\* A slave leaves the request to the next: what will come has not changed.
LEMMA SilentMapped ==
  ASSUME MapInv, NEW c \in Clients, SlaveSilent(c)
  PROVE  UNCHANGED <<memBar, phaseBar, req, ansBar, log>>
<1> DEFINE q == RtuReq(c)
           i == idx[c]
           T == [slaves EXCEPT ![i] = Outcome(slaves, q, i).slave]
<1>0. /\ RouteInv /\ Exclusive /\ UNCHANGED <<pc, req, rsp, log, bus>>
      /\ pc[c] = "loop" /\ i \in Bus /\ Outcome(slaves, q, i).result # "RESPOND"
      /\ slaves' = T /\ idx' = [idx EXCEPT ![c] = i + 1]
  BY DEF MapInv, SlaveSilent, Offer, Outcome
<1>1. DOMAIN slaves = Bus /\ idx \in [Clients -> 1 .. (Len(UnitIds) + 1)]
  BY <1>0, Places
<1>2. RtuReq(c)' = q
  BY <1>0 DEF Req, RtuReq, tcp_to_rtu
<1>3. idx'[c] = i + 1 /\ \A d \in Clients : d # c => idx'[d] = idx[d]
  BY <1>0, <1>1
<1> HIDE DEF q, i
<1>4. Bank(T, q, i + 1) = Bank(slaves, q, i) /\ Awaited(T, q, i + 1) = Awaited(slaves, q, i)
  BY <1>0, <1>1, BankGoesOn
<1> HIDE DEF T
<1>5. /\ bus = {c} /\ \A d \in Clients : d # c => pc[d] # "loop"
      /\ memBar = Bank(slaves, q, i)
      /\ phaseBar[c] = "done" /\ ansBar[c] = Awaited(slaves, q, i)
  BY <1>0, AloneInLoop DEF q, i
<1>6. memBar' = memBar
  BY <1>0, <1>2, <1>3, <1>4, <1>5, BankInLoop
<1>7. /\ phaseBar' = [phaseBar EXCEPT ![c] = PhaseAt("loop")]
      /\ ansBar' = [ansBar EXCEPT ![c] =
                      Answered("loop", slaves', RtuReq(c)', idx'[c], rsp'[c])]
  <2>1. \A d \in Clients : d # c => rsp'[d] = rsp[d] /\ idx'[d] = idx[d] /\ req'[d] = req[d]
    BY <1>0, <1>3
  <2>2. pc' = [pc EXCEPT ![c] = "loop"]
    BY <1>0, Places
  <2>3. \A d \in Clients : d # c /\ pc[d] = "loop" => slaves' = slaves
    BY <1>5
  <2> QED BY <1>0, <2>1, <2>2, <2>3, ThreadMoves, Zenon
<1>8. PhaseAt("loop") = "done"
  BY DEF PhaseAt
<1>9. Answered("loop", slaves', RtuReq(c)', idx'[c], rsp'[c]) = Awaited(slaves, q, i)
  BY <1>0, <1>2, <1>3, <1>4 DEF Answered
<1>10. phaseBar' = phaseBar /\ ansBar' = ansBar
  <2>1. phaseBar = [phaseBar EXCEPT ![c] = "done"]
        /\ ansBar = [ansBar EXCEPT ![c] = Awaited(slaves, q, i)]
    BY <1>5, ThreadAt
  <2> QED BY <1>7, <1>8, <1>9, <2>1, Zenon
<1> QED BY <1>0, <1>6, <1>10

\* The loop ends with x, which is what it was to return: nothing the master can see.
LEMMA LoopEndMapped ==
  ASSUME MapInv, NEW c \in Clients, pc[c] = "loop", NEW x, BusReturn(c, x),
         UNCHANGED <<req, log, idx>>,
         Holdings(slaves') = Bank(slaves, RtuReq(c), idx[c]),
         Held(x) = Awaited(slaves, RtuReq(c), idx[c])
  PROVE  UNCHANGED <<memBar, phaseBar, req, ansBar, log>>
<1>0. RouteInv /\ Exclusive
  BY DEF MapInv
<1>1. /\ bus = {c} /\ \A d \in Clients : d # c => pc[d] # "loop"
      /\ memBar = Bank(slaves, RtuReq(c), idx[c])
      /\ phaseBar[c] = "done" /\ ansBar[c] = Held(x)
  BY <1>0, AloneInLoop
<1>2. bus' = {}
  BY <1>1 DEF BusReturn
<1>3. memBar' = memBar
  BY <1>1, <1>2, BankAtRest
<1>4. PICK l \in {"faulty_ret", "return"} :
        pc' = [pc EXCEPT ![c] = l] /\ rsp' = [rsp EXCEPT ![c] = x]
  BY BusReturnMoves
<1>5. rsp'[c] = x /\ \A d \in Clients : d # c => rsp'[d] = rsp[d]
  BY <1>0, <1>4, Places
<1>6. /\ phaseBar' = [phaseBar EXCEPT ![c] = PhaseAt(l)]
      /\ ansBar' = [ansBar EXCEPT ![c] = Answered(l, slaves', RtuReq(c)', idx'[c], rsp'[c])]
  <2>1. \A d \in Clients : d # c => rsp'[d] = rsp[d] /\ idx'[d] = idx[d] /\ req'[d] = req[d]
    BY <1>5
  <2>2. \A d \in Clients : d # c /\ pc[d] = "loop" => slaves' = slaves
    BY <1>1
  <2> QED BY <1>0, <1>4, <2>1, <2>2, ThreadMoves, Zenon
<1>7. PhaseAt(l) = "done" /\ Answered(l, slaves', RtuReq(c)', idx'[c], rsp'[c]) = Held(x)
  BY <1>5 DEF PhaseAt, Answered
<1>8. phaseBar' = phaseBar /\ ansBar' = ansBar
  <2>1. phaseBar = [phaseBar EXCEPT ![c] = "done"] /\ ansBar = [ansBar EXCEPT ![c] = Held(x)]
    BY <1>1, ThreadAt
  <2> QED BY <1>6, <1>7, <2>1, Zenon
<1> QED BY <1>3, <1>8

\* A slave answers, or none is left to.
LEMMA LoopMapped ==
  ASSUME MapInv, NEW c \in Clients, SlaveAnswers(c) \/ BusSilent(c)
  PROVE  UNCHANGED <<memBar, phaseBar, req, ansBar, log>>
<1>0. /\ RouteInv /\ pc[c] = "loop" /\ UNCHANGED <<req, log, idx>>
  BY DEF MapInv, SlaveAnswers, BusSilent
<1> DEFINE q == RtuReq(c)
           i == idx[c]
<1>1. CASE SlaveAnswers(c)
  <2> DEFINE o == Outcome(slaves, q, i)
  <2>1. /\ i \in Bus /\ o.result = "RESPOND" /\ o = Offer(c)
        /\ slaves' = [slaves EXCEPT ![i] = o.slave] /\ BusReturn(c, o.resp)
    BY <1>1 DEF SlaveAnswers, Offer, Outcome
  <2>2. DOMAIN slaves = Bus
    BY <1>0, Places
  <2>3. /\ Holdings(slaves') = Bank(slaves, q, i)
        /\ Awaited(slaves, q, i) = << o.resp[1].pdu >>
    <3> HIDE DEF q, i
    <3> QED BY <2>1, <2>2, BankAnswers
  <2>4. o.resp # <<>>
    <3>1. /\ slaves[i] \in Slave(RegCount) /\ Balanced(slaves[i]) /\ RegCount \in Nat
          /\ q \in RequestAdu
      BY <1>0, <2>1, Constants, InsideHandle DEF RouteInv, TypeOK, SlavesBalanced
    <3> HIDE DEF q, i
    <3>2. Sound(RegCount, slaves[i].addr, q.addr = MB_ADDR_BROADCAST, o)
      BY <3>1, HandleSound DEF Outcome
    <3> HIDE DEF o
    <3> QED BY <2>1, <3>2 DEF Sound, Shaped
  <2>5. o.resp[1].crc_ok
    BY <1>0, <2>1, <2>4, OfferIntact
  <2> HIDE DEF o
  <2>6. Held(o.resp) = << o.resp[1].pdu >>
    BY <2>4, <2>5 DEF Held
  <2> QED BY <1>0, <2>1, <2>3, <2>6, LoopEndMapped
<1>2. CASE BusSilent(c)
  <2>1. slaves' = slaves /\ i \notin Bus /\ BusReturn(c, <<>>)
    BY <1>2 DEF BusSilent
  <2>2. i \in Nat \ {0}
    BY <1>0, Places, Constants
  <2>3. Holdings(slaves') = Bank(slaves, q, i) /\ Awaited(slaves, q, i) = <<>>
    BY <2>1, <2>2, BankAtEnd
  <2>4. Held(<<>>) = <<>>
    BY DEF Held
  <2> QED BY <1>0, <2>1, <2>3, <2>4, LoopEndMapped
<1> QED BY <1>1, <1>2

\* Back in the injector: the answer is spoilt, which is to lose it, or passed on.
LEMMA InjectorMapped ==
  ASSUME MapInv, NEW c \in Clients, FaultyCorrupt(c) \/ FaultyReturn(c)
  PROVE  \/ UNCHANGED <<memBar, phaseBar, req, ansBar, log>>
         \/ Service!LoseAnswer(c)
<1>0. /\ RouteInv /\ Exclusive /\ FaultInv /\ UNCHANGED <<slaves, bus, idx, req, log>>
      /\ pc[c] = "faulty_ret"
  BY DEF MapInv, FaultyCorrupt, FaultyReturn
<1>1. phaseBar[c] = "done" /\ ansBar[c] = Held(rsp[c])
  BY <1>0, ThreadAt DEF PhaseAt, Answered
<1>2. c \notin bus /\ bus \subseteq Clients
  BY <1>0 DEF Exclusive
<1>3. ASSUME NEW x, TransactReturns(c, x)
      PROVE  memBar' = memBar /\ phaseBar' = phaseBar /\ ansBar' = [ansBar EXCEPT ![c] = Held(x)]
  <2>1. pc' = [pc EXCEPT ![c] = "return"] /\ rsp' = [rsp EXCEPT ![c] = x]
    BY <1>3 DEF TransactReturns
  <2>2. /\ rsp'[c] = x
        /\ \A d \in Clients : d # c => pc'[d] = pc[d] /\ rsp'[d] = rsp[d]
    BY <1>0, <2>1, Places
  <2>3. memBar' = memBar
    <3>1. \A d \in bus : pc'[d] = pc[d] /\ idx'[d] = idx[d] /\ req'[d] = req[d]
      BY <1>0, <1>2, <2>2
    <3> QED BY <1>0, <3>1, BankKept
  <2>4. /\ phaseBar' = [phaseBar EXCEPT ![c] = PhaseAt("return")]
        /\ ansBar' = [ansBar EXCEPT ![c] =
                        Answered("return", slaves', RtuReq(c)', idx'[c], rsp'[c])]
    <3>1. /\ \A d \in Clients : d # c => rsp'[d] = rsp[d] /\ idx'[d] = idx[d] /\ req'[d] = req[d]
          /\ slaves' = slaves
      BY <1>0, <2>2
    <3> QED BY <1>0, <2>1, <3>1, ThreadMoves, Zenon
  <2>5. /\ PhaseAt("return") = "done"
        /\ Answered("return", slaves', RtuReq(c)', idx'[c], rsp'[c]) = Held(x)
    BY <2>2 DEF PhaseAt, Answered
  <2>6. phaseBar = [phaseBar EXCEPT ![c] = "done"]
    BY <1>1, ThreadAt
  <2> QED BY <2>3, <2>4, <2>5, <2>6, Zenon
<1>4. CASE FaultyReturn(c)
  <2>1. TransactReturns(c, rsp[c])
    BY <1>4 DEF FaultyReturn
  <2>2. ansBar = [ansBar EXCEPT ![c] = Held(rsp[c])]
    BY <1>1, ThreadAt
  <2>3. memBar' = memBar /\ phaseBar' = phaseBar /\ ansBar' = ansBar
    BY <1>3, <2>1, <2>2, Zenon
  <2> QED BY <1>0, <2>3
<1>5. CASE FaultyCorrupt(c)
  <2>1. PICK bad \in Flipped(rsp[c][1]) : TransactReturns(c, <<bad>>)
    BY <1>5 DEF FaultyCorrupt
  <2>2. MayCorrupt /\ rsp[c] # <<>>
    BY <1>5 DEF FaultyCorrupt
  <2>3. rsp[c][1] \in ResponseAdu
    BY <1>0, <2>2, OptionalValue, Places
  <2>4. ~ bad.crc_ok
    BY <2>1, <2>3, FlippedShape
  <2>5. Held(<<bad>>) = <<>>
    BY <2>4 DEF Held
  <2>6. rsp[c][1].crc_ok
    BY <1>0, <2>2 DEF FaultInv, AnswersIntact
  <2>7. ansBar[c] # <<>>
    BY <1>1, <2>2, <2>6 DEF Held
  <2>8. memBar' = memBar /\ phaseBar' = phaseBar /\ ansBar' = [ansBar EXCEPT ![c] = <<>>]
    BY <1>3, <2>1, <2>5, Zenon
  <2> QED BY <1>0, <1>1, <2>2, <2>7, <2>8 DEF Service!LoseAnswer
<1> QED BY <1>4, <1>5

\* The frame handle returns carries the service's answer.
LEMMA LeaveDelivers ==
  ASSUME MapInv, NEW c \in Clients, LeaveStep(c)
  PROVE  /\ pc[c] = "return"
         /\ pc' = [pc EXCEPT ![c] = "idle"] /\ req' = [req EXCEPT ![c] = <<>>]
         /\ rsp' = [rsp EXCEPT ![c] = <<>>]
         /\ LET a == Held(rsp[c])
            IN  Service!Deliver(c, req[c][1],
                  IF a # <<>> THEN a[1] ELSE Service!ExceptionPdu(req[c][1].pdu.fc, 11))
<1>0. RouteInv /\ FaultInv
  BY DEF MapInv
<1>1. PICK k, f : /\ k \in Counters /\ pc[c] = "return" /\ Leave(c, k, f)
                  /\ \/ rsp[c] = <<>> /\ f = NoResponse(c)
                     \/ rsp[c] # <<>> /\ Translated(c) = <<>> /\ f = NoResponse(c)
                     \/ rsp[c] # <<>> /\ Translated(c) # <<>> /\ f = Translated(c)[1]
  BY DEF LeaveStep, HandleTimeout, HandleCrcFailure, HandleResponse, Counters
<1>2. /\ pc' = [pc EXCEPT ![c] = "idle"] /\ req' = [req EXCEPT ![c] = <<>>]
      /\ rsp' = [rsp EXCEPT ![c] = <<>>]
      /\ log' = [log EXCEPT ![c] = Append(@, [req |-> req[c][1], rsp |-> f])]
  BY <1>1 DEF Leave, Reply, Req
<1> DEFINE r == req[c][1]
           a == Held(rsp[c])
           p == IF a # <<>> THEN a[1] ELSE Service!ExceptionPdu(r.pdu.fc, 11)
           n == [transaction_id |-> r.transaction_id, unit_id |-> r.unit_id,
                 pdu |-> ExceptionPdu(r.pdu.fc, 11)]
<1>3. NoResponse(c) = n
  BY DEF NoResponse, make_exception, Req, EX_GATEWAY_TARGET_NO_RESPONSE
<1>4. f = [transaction_id |-> r.transaction_id, unit_id |-> r.unit_id, pdu |-> p]
  <2>1. CASE rsp[c] = <<>>
    <3>1. a = <<>> /\ f = n
      BY <1>1, <1>3, <2>1 DEF Held
    <3> QED BY <3>1, ServiceCodes
  <2>2. CASE rsp[c] # <<>>
    <3> DEFINE x == rsp[c][1]
    <3>1. x \in ResponseAdu /\ 4 <= Size(x)
      BY <1>0, <2>2, OptionalValue, Places DEF FaultInv, AnswersIntact, MB_ADU_MIN
    <3>2. Size(x) \in Nat
      BY <3>1 DEF Size, ResponseAdu, ResponsePdu
    <3>3. Translated(c) = IF x.crc_ok THEN << [transaction_id |-> r.transaction_id,
                                               unit_id |-> x.addr, pdu |-> x.pdu] >>
                          ELSE <<>>
      <4>1. ~ (Size(x) < 4)
        BY <3>1, <3>2
      <4> QED BY <4>1 DEF Translated, rtu_to_tcp, Req
    <3>4. CASE x.crc_ok
      <4>1. x.addr = r.unit_id
        BY <1>0, <2>2, <3>4 DEF RouteInv, AnswerIsFromUnit, Req
      <4>2. a = << x.pdu >>
        BY <2>2, <3>4 DEF Held
      <4> HIDE DEF x, r
      <4>3. p = x.pdu
        BY <4>2
      <4>4. f = [transaction_id |-> r.transaction_id, unit_id |-> x.addr, pdu |-> x.pdu]
        BY <1>1, <2>2, <3>3, <3>4
      <4> QED BY <4>1, <4>3, <4>4
    <3>5. CASE ~ x.crc_ok
      <4>1. a = <<>>
        BY <3>5 DEF Held
      <4>2. f = n
        BY <1>1, <1>3, <2>2, <3>3, <3>5
      <4> QED BY <4>1, <4>2, ServiceCodes
    <3> QED BY <3>4, <3>5
  <2> QED BY <2>1, <2>2
<1> HIDE DEF p
<1>5. Service!Deliver(c, r, p)
  BY <1>2, <1>4 DEF Service!Deliver
<1> QED BY <1>1, <1>2, <1>5 DEF p

\* handle returns.
LEMMA LeaveMapped ==
  ASSUME MapInv, NEW c \in Clients, LeaveStep(c)
  PROVE  Service!Return(c)
<1>0. RouteInv /\ Exclusive /\ UNCHANGED <<slaves, bus, idx>>
  BY DEF MapInv, LeaveStep
<1> DEFINE a == Held(rsp[c])
           p == IF a # <<>> THEN a[1] ELSE Service!ExceptionPdu(req[c][1].pdu.fc, 11)
<1>1. /\ pc[c] = "return"
      /\ pc' = [pc EXCEPT ![c] = "idle"] /\ req' = [req EXCEPT ![c] = <<>>]
      /\ rsp' = [rsp EXCEPT ![c] = <<>>] /\ Service!Deliver(c, req[c][1], p)
  BY LeaveDelivers
<1>2. phaseBar[c] = "done" /\ ansBar[c] = a
  BY <1>1, ThreadAt DEF PhaseAt, Answered
<1>3. \A d \in Clients : d # c => pc'[d] = pc[d] /\ rsp'[d] = rsp[d] /\ req'[d] = req[d]
  BY <1>0, <1>1, Places
<1>4. memBar' = memBar
  <2>1. c \notin bus /\ bus \subseteq Clients
    BY <1>0, <1>1 DEF Exclusive
  <2>2. \A d \in bus : pc'[d] = pc[d] /\ idx'[d] = idx[d] /\ req'[d] = req[d]
    BY <1>0, <1>3, <2>1
  <2> QED BY <1>0, <2>2, BankKept
<1>5. /\ phaseBar' = [phaseBar EXCEPT ![c] = PhaseAt("idle")]
      /\ ansBar' = [ansBar EXCEPT ![c] =
                      Answered("idle", slaves', RtuReq(c)', idx'[c], rsp'[c])]
  <2>1. /\ \A d \in Clients : d # c => rsp'[d] = rsp[d] /\ idx'[d] = idx[d] /\ req'[d] = req[d]
        /\ slaves' = slaves
    BY <1>0, <1>3
  <2> QED BY <1>0, <1>1, <2>1, ThreadMoves, Zenon
<1>6. /\ PhaseAt("idle") = "idle"
      /\ Answered("idle", slaves', RtuReq(c)', idx'[c], rsp'[c]) = <<>>
  BY DEF PhaseAt, Answered
<1>7. phaseBar' = [phaseBar EXCEPT ![c] = "idle"] /\ ansBar' = [ansBar EXCEPT ![c] = <<>>]
  BY <1>5, <1>6, Zenon
<1> QED BY <1>1, <1>2, <1>4, <1>7, Zenon DEF Service!Return

\* A connection that is closed between two calls: the service sees nothing.
LEMMA CloseMapped ==
  ASSUME MapInv, NEW c \in Clients, CloseStep(c)
  PROVE  UNCHANGED <<memBar, phaseBar, req, ansBar, log>>
<1>0. RouteInv /\ Exclusive /\ UNCHANGED <<slaves, bus, idx, req, rsp, log>>
  BY DEF MapInv, CloseStep, FramingError
<1>1. pc[c] = "idle" /\ pc' = [pc EXCEPT ![c] = "closed"]
  BY DEF CloseStep, FramingError
<1>2. memBar' = memBar
  <2>1. c \notin bus /\ bus \subseteq Clients
    BY <1>0, <1>1 DEF Exclusive
  <2>2. \A d \in Clients : d # c => pc'[d] = pc[d]
    BY <1>0, <1>1, Places
  <2>3. \A d \in bus : pc'[d] = pc[d] /\ idx'[d] = idx[d] /\ req'[d] = req[d]
    BY <1>0, <2>1, <2>2
  <2> QED BY <1>0, <2>3, BankKept
<1>3. /\ phaseBar' = [phaseBar EXCEPT ![c] = PhaseAt("closed")]
      /\ ansBar' = [ansBar EXCEPT ![c] =
                      Answered("closed", slaves', RtuReq(c)', idx'[c], rsp'[c])]
  <2>1. /\ \A d \in Clients : d # c => rsp'[d] = rsp[d] /\ idx'[d] = idx[d] /\ req'[d] = req[d]
        /\ slaves' = slaves
    BY <1>0
  <2> QED BY <1>0, <1>1, <2>1, ThreadMoves, Zenon
<1>4. /\ PhaseAt("closed") = "idle"
      /\ Answered("closed", slaves', RtuReq(c)', idx'[c], rsp'[c]) = <<>>
  BY DEF PhaseAt, Answered
<1>5. phaseBar[c] = "idle" /\ ansBar[c] = <<>>
  BY <1>1, ThreadAt DEF PhaseAt, Answered
<1>6. phaseBar' = phaseBar /\ ansBar' = ansBar
  <2>1. /\ phaseBar = [phaseBar EXCEPT ![c] = phaseBar[c]]
        /\ ansBar = [ansBar EXCEPT ![c] = ansBar[c]]
    BY ThreadAt
  <2> QED BY <1>3, <1>4, <1>5, <2>1, Zenon
<1> QED BY <1>0, <1>2, <1>6

\* Every step is one of the service, or none.
LEMMA StepMapped ==
  MapInv /\ [Next]_vars => [Service!Next]_(Service!vars)
<1> SUFFICES ASSUME MapInv, [Next]_vars
             PROVE  Service!Next \/ UNCHANGED <<memBar, phaseBar, req, ansBar, log>>
  BY DEF Service!vars
<1>1. ASSUME NEW c \in Clients, CallStep(c) PROVE Service!Next
  BY <1>1, CallMapped DEF Service!Next
<1>2. ASSUME NEW c \in Clients, LeaveStep(c) PROVE Service!Next
  BY <1>2, LeaveMapped DEF Service!Next
<1>3. ASSUME NEW c \in Clients, TransportStep(c)
      PROVE  Service!Next \/ UNCHANGED <<memBar, phaseBar, req, ansBar, log>>
  <2>1. CASE FaultyLock(c) \/ FaultyForward(c) \/ FaultyDrop(c)
    BY <2>1, EntryMapped DEF Service!Next
  <2>2. CASE BusLock(c)
    BY <2>2, BusLockMapped DEF Service!Next
  <2>3. CASE SlaveSilent(c)
    BY <2>3, SilentMapped
  <2>4. CASE SlaveAnswers(c) \/ BusSilent(c)
    BY <2>4, LoopMapped
  <2>5. CASE FaultyCorrupt(c) \/ FaultyReturn(c)
    BY <2>5, InjectorMapped DEF Service!Next
  <2> QED BY <1>3, <2>1, <2>2, <2>3, <2>4, <2>5 DEF TransportStep
<1>4. CASE UNCHANGED vars
  <2>1. Exclusive /\ UNCHANGED <<pc, req, rsp, slaves, bus, idx, log>>
    BY <1>4 DEF MapInv, vars
  <2> QED BY <2>1, NothingMoves
<1> QED BY <1>1, <1>2, <1>3, <1>4, CloseMapped DEF Next, Progress, Finished

(***************************************************************************)
(* The gateway over the in-process bus implements the register service:    *)
(* whatever the number of masters, the requests, the slaves behind the     *)
(* bus_ mutex of src/rtu_transport.hpp and the faults injected, each       *)
(* request takes effect on the registers at one instant between its call   *)
(* and its answer, and the answer is the one it earned there or 0x0B.      *)
(***************************************************************************)
THEOREM ImplementsRegisterService == Spec => RefinesRegisterService
<1>1. Init => Service!Init
  BY InitMapped
<1>2. MapInv /\ [Next]_vars => [Service!Next]_(Service!vars)
  BY StepMapped
<1> QED BY <1>1, <1>2, MapInvariant, PTL DEF Spec, RefinesRegisterService, Service!Spec
=============================================================================
