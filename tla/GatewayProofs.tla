--------------------------- MODULE GatewayProofs ---------------------------
(***************************************************************************)
(* What Gateway::handle does before and after the transport, for any       *)
(* transport: the facts the proofs about the in-process bus and about the  *)
(* serial line share.                                                      *)
(***************************************************************************)
EXTENDS Gateway, ModbusSlaveProofs, FiniteSetTheorems, SequenceTheorems

\* An optional value that is present is in the set.
LEMMA OptionalValue ==
  ASSUME NEW S, NEW o \in Optional(S), o # <<>>
  PROVE  o[1] \in S /\ o = <<o[1]>>
<1>1. o \in Seq(S) /\ Len(o) <= 1
  BY DEF Optional
<1>e. Len(o) \in Nat \ {0}
  BY <1>1, EmptySeq
<1>a. \A k \in Nat \ {0} : k <= 1 => k = 1
  OBVIOUS
<1>2. Len(o) = 1
  BY <1>1, <1>e, <1>a, Zenon
<1>3. o[1] \in S
  BY <1>1, <1>2, ElementOfSeq
<1>4. <<o[1]>> \in Seq(S) /\ Len(<<o[1]>>) = 1 /\ <<o[1]>>[1] = o[1]
  BY <1>3
<1>5. \A i \in 1 .. Len(o) : o[i] = <<o[1]>>[i]
  BY <1>2, <1>4
<1>6. o = <<o[1]>>
  BY <1>1, <1>2, <1>4, <1>5, SeqEqual
<1> QED BY <1>3, <1>6

\* The fields of a request.
LEMMA RequestFields ==
  ASSUME NEW r \in Requests
  PROVE  /\ r.transaction_id \in U16 /\ r.unit_id \in Byte /\ r.pdu \in RequestPdu
         /\ r.pdu.fc \in Byte
         /\ tcp_to_rtu(r) \in RequestAdu /\ tcp_to_rtu(r).addr = r.unit_id
<1>1. r \in RequestFrame
  BY GatewayAssumption
<1>2. r.transaction_id \in U16 /\ r.unit_id \in Byte /\ r.pdu \in RequestPdu
  BY <1>1 DEF RequestFrame
<1>3. r.pdu.fc \in Byte
  BY <1>2, PduFields
<1> QED BY <1>2, <1>3 DEF tcp_to_rtu, RequestAdu

\* An exception of the gateway is a response frame of the same transaction
\* and unit.
LEMMA MakeExceptionFrame ==
  ASSUME NEW txn \in U16, NEW unit \in Byte, NEW fc \in Byte, NEW ex \in Byte
  PROVE  LET f == make_exception(txn, unit, fc, ex)
         IN  f \in ResponseFrame /\ f.transaction_id = txn /\ f.unit_id = unit
<1>1. ExceptionFc(fc) \in Byte
  BY DEF ExceptionFc, Byte
<1>2. <<>> \in Seq(U16)
  OBVIOUS
<1> QED BY <1>1, <1>2 DEF make_exception, ExceptionPdu, ResponseFrame, ResponsePdu

\* What rtu_to_tcp lets through has a good CRC, the request's transaction id
\* and the unit id of the answer.
LEMMA RtuToTcpFrame ==
  ASSUME NEW a \in ResponseAdu, NEW txn \in U16, rtu_to_tcp(a, txn) # <<>>
  PROVE  LET f == rtu_to_tcp(a, txn)[1]
         IN  /\ a.crc_ok
             /\ f \in ResponseFrame /\ f.transaction_id = txn /\ f.unit_id = a.addr
  BY DEF rtu_to_tcp, ResponseAdu, ResponseFrame

-----------------------------------------------------------------------------
\* A thread inside handle has a request.
HasRequest == \A c \in Clients : pc[c] \notin {"idle", "closed"} => req[c] # <<>>

\* The callers' state, where a transport has the threads at the places P, returns
\* answers of A, and has them forwarded as frames of F.
Typed(P, A, F) ==
  /\ pc \in [Clients -> P]
  /\ req \in [Clients -> Optional(Requests)] /\ rsp \in [Clients -> Optional(A)]
  /\ stats \in [Counters -> Nat]
  /\ log \in [Clients -> Seq([req : Requests, rsp : F])]

\* A thread inside handle has a request for the transport.
LEMMA RequestInHand ==
  ASSUME NEW P, NEW A, NEW F, Typed(P, A, F), HasRequest, NEW c \in Clients,
         pc[c] \notin {"idle", "closed"}
  PROVE  Req(c) \in Requests
  BY OptionalValue DEF Typed, HasRequest, Req

\* A response joins the log.
LEMMA ReplyTyped ==
  ASSUME NEW F, log \in [Clients -> Seq([req : Requests, rsp : F])],
         NEW c \in Clients, NEW r \in Requests, NEW f \in F, Reply(c, r, f)
  PROVE  /\ log' \in [Clients -> Seq([req : Requests, rsp : F])]
         /\ \A d \in Clients : d # c => log'[d] = log[d]
         /\ log'[c] = Append(log[c], [req |-> r, rsp |-> f])
<1> DEFINE E == [req : Requests, rsp : F]
           e == [req |-> r, rsp |-> f]
<1>1. e \in E /\ log' = [log EXCEPT ![c] = Append(log[c], e)] /\ log \in [Clients -> Seq(E)]
  BY DEF Reply
<1> HIDE DEF E, e
<1>2. Append(log[c], e) \in Seq(E)
  BY <1>1, AppendProperties
<1>3. log' \in [Clients -> Seq(E)] /\ log'[c] = Append(log[c], e)
  BY <1>1, <1>2
<1> QED BY <1>1, <1>3 DEF E, e

\* The call of handle with a PDU: the thread has a request.
LEMMA CallTyped ==
  ASSUME NEW P, NEW A, NEW F, "transact" \in P, Typed(P, A, F), HasRequest,
         NEW c \in Clients, NEW r \in Requests, HandleCall(c, r)
  PROVE  Typed(P, A, F)' /\ HasRequest'
<1> USE DEF HandleCall
<1>1. <<r>> \in Optional(Requests) /\ <<r>> # <<>> /\ <<>> \in Optional(A)
  BY Present, Absent
<1>2. pc' \in [Clients -> P] /\ req' \in [Clients -> Optional(Requests)]
  BY <1>1 DEF Typed
<1>3. rsp' \in [Clients -> Optional(A)]
  BY <1>1 DEF Typed
<1>4. stats' \in [Counters -> Nat]
  BY DEF Typed, Counters
<1>5. HasRequest'
  BY <1>1 DEF Typed, HasRequest
<1> QED BY <1>2, <1>3, <1>4, <1>5 DEF Typed

\* The call without one: two counters and the log.
LEMMA EmptyTyped ==
  ASSUME NEW P, NEW A, NEW F, ResponseFrame \subseteq F, Typed(P, A, F), HasRequest,
         NEW c \in Clients, NEW r \in Requests, HandleEmpty(c, r)
  PROVE  Typed(P, A, F)' /\ HasRequest'
<1> DEFINE f == make_exception(r.transaction_id, r.unit_id, 0, EX_GATEWAY_PATH_UNAVAILABLE)
<1>0. 0 \in Byte /\ EX_GATEWAY_PATH_UNAVAILABLE \in Byte
  BY DEF Byte, EX_GATEWAY_PATH_UNAVAILABLE
<1>1. f \in ResponseFrame
  BY <1>0, RequestFields, MakeExceptionFrame
<1>2. Reply(c, r, f) /\ UNCHANGED <<pc, req, rsp>>
  BY DEF HandleEmpty
<1> HIDE DEF f
<1>3. log' \in [Clients -> Seq([req : Requests, rsp : F])]
  BY <1>1, <1>2, ReplyTyped DEF Typed
<1>4. stats' \in [Counters -> Nat]
  <2> DEFINE u == [stats EXCEPT !["requests"] = stats["requests"] + 1]
             v == [u EXCEPT !["malformed"] = u["malformed"] + 1]
  <2>1. stats \in [Counters -> Nat] /\ "requests" \in Counters /\ "malformed" \in Counters
    BY DEF Typed, Counters
  <2>2. u \in [Counters -> Nat]
    BY <2>1
  <2>3. v \in [Counters -> Nat]
    <3> HIDE DEF u
    <3> QED BY <2>1, <2>2
  <2> QED BY <2>3 DEF HandleEmpty
<1> QED BY <1>2, <1>3, <1>4, Zenon DEF Typed, HasRequest

\* serve_client closes its connection on a framing error.
LEMMA CloseTyped ==
  ASSUME NEW P, NEW A, NEW F, "closed" \in P, Typed(P, A, F), HasRequest,
         NEW c \in Clients, FramingError(c)
  PROVE  Typed(P, A, F)' /\ HasRequest'
<1> USE DEF FramingError
<1>1. pc' \in [Clients -> P]
  BY DEF Typed
<1>2. stats' \in [Counters -> Nat]
  BY DEF Typed, Counters
<1>3. HasRequest'
  BY DEF Typed, HasRequest
<1> QED BY <1>1, <1>2, <1>3, Zenon DEF Typed

\* A way out of handle.
LEMMA LeaveTyped ==
  ASSUME NEW P, NEW A, NEW F, "idle" \in P, Typed(P, A, F), HasRequest,
         NEW c \in Clients, pc[c] = "return", NEW k \in Counters, NEW f \in F, Leave(c, k, f)
  PROVE  Typed(P, A, F)' /\ HasRequest'
<1> USE DEF Leave
<1>1. <<>> \in Optional(Requests) /\ <<>> \in Optional(A)
  BY Absent
<1>2. Req(c) \in Requests
  BY RequestInHand
<1>3. log' \in [Clients -> Seq([req : Requests, rsp : F])]
  BY <1>2, ReplyTyped DEF Typed
<1>4. pc' \in [Clients -> P] /\ req' \in [Clients -> Optional(Requests)]
  BY <1>1 DEF Typed
<1>5. rsp' \in [Clients -> Optional(A)] /\ stats' \in [Counters -> Nat]
  BY <1>1 DEF Typed
<1>6. HasRequest'
  BY DEF Typed, HasRequest
<1> QED BY <1>3, <1>4, <1>5, <1>6 DEF Typed

\* A transport moves its thread, and may return something.
LEMMA MoveTyped ==
  ASSUME NEW P, NEW A, NEW F, Typed(P, A, F), HasRequest, NEW c \in Clients,
         pc[c] \notin {"idle", "closed"}, NEW l \in P, pc' = [pc EXCEPT ![c] = l],
         NEW x \in Optional(A),
         rsp' = rsp \/ rsp' = [rsp EXCEPT ![c] = x], UNCHANGED <<req, stats, log>>
  PROVE  Typed(P, A, F)' /\ HasRequest'
<1>1. rsp' \in [Clients -> Optional(A)]
  BY DEF Typed
<1> QED BY <1>1 DEF Typed, HasRequest

\* The exception for a target that does not answer is a response to the request.
LEMMA NoResponseTyped ==
  ASSUME NEW c \in Clients, Req(c) \in Requests
  PROVE  /\ NoResponse(c) \in ResponseFrame
         /\ NoResponse(c).transaction_id = Req(c).transaction_id
         /\ NoResponse(c).unit_id = Req(c).unit_id
<1>1. EX_GATEWAY_TARGET_NO_RESPONSE \in Byte
  BY DEF EX_GATEWAY_TARGET_NO_RESPONSE, Byte
<1> QED BY <1>1, RequestFields, MakeExceptionFrame DEF NoResponse

-----------------------------------------------------------------------------
\* A thread enters handle: one more is in flight.
LEMMA FlightIn ==
  ASSUME NEW P, pc \in [Clients -> P], NEW c \in Clients, pc[c] = "idle",
         pc' = [pc EXCEPT ![c] = "transact"]
  PROVE  Cardinality(InFlight') = Cardinality(InFlight) + 1 /\ Closed' = Closed
<1>0. Closed' = Closed
  BY DEF Closed
<1>1. InFlight' = InFlight \cup {c} /\ c \notin InFlight
  BY DEF InFlight
<1>2. InFlight \in SUBSET Clients
  BY DEF InFlight
<1>3. IsFiniteSet(InFlight)
  BY <1>2, GatewayAssumption, FS_Subset
<1> QED BY <1>0, <1>1, <1>3, FS_AddElement

\* A thread leaves handle: one less is.
LEMMA FlightOut ==
  ASSUME NEW P, pc \in [Clients -> P], NEW c \in Clients, pc[c] \notin {"idle", "closed"},
         pc' = [pc EXCEPT ![c] = "idle"]
  PROVE  /\ Cardinality(InFlight) \in Nat
         /\ Cardinality(InFlight') = Cardinality(InFlight) - 1 /\ Closed' = Closed
<1>0. Closed' = Closed
  BY DEF Closed
<1>1. InFlight' = InFlight \ {c} /\ c \in InFlight
  BY DEF InFlight
<1>2. InFlight \in SUBSET Clients
  BY DEF InFlight
<1>3. IsFiniteSet(InFlight)
  BY <1>2, GatewayAssumption, FS_Subset
<1> QED BY <1>0, <1>1, <1>3, FS_RemoveElement, FS_CardinalityType

\* A thread inside handle goes on: nothing changes.
LEMMA FlightOn ==
  ASSUME NEW P, pc \in [Clients -> P], NEW c \in Clients, pc[c] \notin {"idle", "closed"},
         NEW l, l \notin {"idle", "closed"}, pc' = [pc EXCEPT ![c] = l]
  PROVE  InFlight' = InFlight /\ Closed' = Closed
  BY DEF InFlight, Closed

\* A thread ends with a framing error: one more is closed.
LEMMA FlightEnds ==
  ASSUME NEW P, pc \in [Clients -> P], NEW c \in Clients, pc[c] = "idle",
         pc' = [pc EXCEPT ![c] = "closed"]
  PROVE  InFlight' = InFlight /\ Cardinality(Closed') = Cardinality(Closed) + 1
<1>1. InFlight' = InFlight
  BY DEF InFlight
<1>2. Closed' = Closed \cup {c} /\ c \notin Closed
  BY DEF Closed
<1>3. Closed \in SUBSET Clients
  BY DEF Closed
<1>4. IsFiniteSet(Closed)
  BY <1>3, GatewayAssumption, FS_Subset
<1> QED BY <1>1, <1>2, <1>4, FS_AddElement

\* The threads inside handle and those that ended can be counted.
LEMMA FlightCount == Cardinality(InFlight) \in Nat /\ Cardinality(Closed) \in Nat
<1>1. InFlight \in SUBSET Clients /\ Closed \in SUBSET Clients
  BY DEF InFlight, Closed
<1>2. IsFiniteSet(InFlight) /\ IsFiniteSet(Closed)
  BY <1>1, GatewayAssumption, FS_Subset
<1> QED BY <1>2, FS_CardinalityType

-----------------------------------------------------------------------------
\* Sets of threads are counted one by one.
LEMMA Counted ==
  ASSUME NEW S \in SUBSET Clients, NEW c \in Clients
  PROVE  /\ Cardinality(S) \in Nat
         /\ c \notin S => Cardinality(S \cup {c}) = Cardinality(S) + 1
         /\ c \in S => Cardinality(S \ {c}) = Cardinality(S) - 1
<1>1. IsFiniteSet(S)
  BY GatewayAssumption, FS_Subset
<1> QED BY <1>1, FS_CardinalityType, FS_AddElement, FS_RemoveElement

\* A set of threads before and after a step that is about c alone.
LEMMA CountedStep ==
  ASSUME NEW S \in SUBSET Clients, NEW T \in SUBSET Clients, NEW c \in Clients,
         S \ {c} = T \ {c}
  PROVE  /\ (c \in S <=> c \in T) => Cardinality(T) = Cardinality(S)
         /\ c \notin S /\ c \in T => Cardinality(T) = Cardinality(S) + 1
         /\ c \in S /\ c \notin T => Cardinality(T) = Cardinality(S) - 1
<1>1. (c \in S <=> c \in T) => T = S
  OBVIOUS
<1>2. c \notin S /\ c \in T => T = S \cup {c}
  OBVIOUS
<1>3. c \in S /\ c \notin T => T = S \ {c}
  OBVIOUS
<1> QED BY <1>1, <1>2, <1>3, Counted
=============================================================================
