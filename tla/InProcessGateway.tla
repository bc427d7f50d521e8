-------------------------- MODULE InProcessGateway --------------------------
(***************************************************************************)
(* The gateway over the in-process bus, src/rtu_transport.hpp: InProcessRtu*)
(* serialises its callers with bus_ and offers each request to its slaves  *)
(* in turn; FaultyRtu, which main() puts around it when a drop or corrupt  *)
(* rate is given, has a mutex of its own, m_, taken first.                 *)
(***************************************************************************)
EXTENDS Gateway

CONSTANTS
  UnitIds,     \* the slaves' unit ids, in the order they are asked
  RegCount,    \* holding registers of each slave
  MayDrop,     \* drop_rate > 0
  MayCorrupt   \* corrupt_rate > 0

ASSUME BusAssumption ==
  /\ UnitIds \in Seq(Byte)
  /\ RegCount \in 1 .. 256     \* main() asks for 64; up to 256 the seed's | is +
  /\ MayDrop \in BOOLEAN /\ MayCorrupt \in BOOLEAN

VARIABLES
  slaves,     \* slaves_, one mb_slave_t each
  bus,        \* the threads that hold bus_
  m,          \* the threads that hold m_
  idx,        \* each thread's position in the loop over slaves_
  dropped,    \* dropped_
  corrupted   \* corrupted_

vars == <<pc, req, rsp, stats, log, slaves, bus, m, idx, dropped, corrupted>>

\* main() wraps the bus only when there is a fault to inject.
Faulty == MayDrop \/ MayCorrupt

Bus == 1 .. Len(UnitIds)

\* InProcessRtu's constructor: mb_slave_init, then (id << 8) | i.
seeded(id) ==
  [mb_slave_init(id, RegCount) EXCEPT
     !.holding = [i \in 0 .. (RegCount - 1) |-> id * 256 + i]]

Init ==
  /\ GatewayInit
  /\ slaves = [j \in Bus |-> seeded(UnitIds[j])]
  /\ bus = {} /\ m = {}
  /\ idx = [c \in Clients |-> 1]
  /\ dropped = 0 /\ corrupted = 0

-----------------------------------------------------------------------------
Goto(c, l) == pc' = [pc EXCEPT ![c] = l]

\* FaultyRtu::transact: lock_guard lk(m_).
FaultyLock(c) ==
  /\ Faulty /\ pc[c] = "transact" /\ m = {}
  /\ m' = {c}
  /\ Goto(c, "faulty")
  /\ UNCHANGED <<req, rsp, stats, log, slaves, bus, idx, dropped, corrupted>>

\* Defect: the early return forgets the mutex.
FaultyDrop_KeepsLock(c) ==
  /\ MayDrop /\ pc[c] = "faulty"
  /\ dropped' = dropped + 1
  /\ TransactReturns(c, <<>>)
  /\ UNCHANGED <<req, stats, log, slaves, bus, m, idx, corrupted>>

\* The first draw: the exchange is dropped before the bus sees the request.
FaultyDrop(c) ==
  /\ MayDrop /\ pc[c] = "faulty"
  /\ dropped' = dropped + 1
  /\ m' = m \ {c}
  /\ TransactReturns(c, <<>>)
  /\ UNCHANGED <<req, stats, log, slaves, bus, idx, corrupted>>

FaultyForward(c) ==
  /\ pc[c] = "faulty"
  /\ Goto(c, "bus")
  /\ UNCHANGED <<req, rsp, stats, log, slaves, bus, m, idx, dropped, corrupted>>

\* Defect: bus_ is not taken.
BusLock_None(c) ==
  /\ pc[c] = IF Faulty THEN "bus" ELSE "transact"
  /\ bus' = bus \cup {c}
  /\ idx' = [idx EXCEPT ![c] = 1]
  /\ Goto(c, "loop")
  /\ UNCHANGED <<req, rsp, stats, log, slaves, m, dropped, corrupted>>

\* InProcessRtu::transact: lock_guard lk(bus_), and the loop begins.
BusLock(c) ==
  /\ pc[c] = IF Faulty THEN "bus" ELSE "transact"
  /\ bus = {}
  /\ bus' = {c}
  /\ idx' = [idx EXCEPT ![c] = 1]
  /\ Goto(c, "loop")
  /\ UNCHANGED <<req, rsp, stats, log, slaves, m, dropped, corrupted>>

\* InProcessRtu::transact returns x and lets go of bus_.
BusReturn(c, x) ==
  /\ bus' = bus \ {c}
  /\ IF Faulty THEN Goto(c, "faulty_ret") /\ rsp' = [rsp EXCEPT ![c] = x]
               ELSE TransactReturns(c, x)

\* The thread's turn of the loop: mb_slave_handle on the slave at idx.
Offer(c) == mb_slave_handle(slaves[idx[c]], RtuReq(c))

SlaveAnswers(c) ==
  /\ pc[c] = "loop" /\ idx[c] \in Bus
  /\ Offer(c).result = "RESPOND"
  /\ slaves' = [slaves EXCEPT ![idx[c]] = Offer(c).slave]
  /\ BusReturn(c, Offer(c).resp)
  /\ UNCHANGED <<req, stats, log, m, idx, dropped, corrupted>>

SlaveSilent(c) ==
  /\ pc[c] = "loop" /\ idx[c] \in Bus
  /\ Offer(c).result # "RESPOND"
  /\ slaves' = [slaves EXCEPT ![idx[c]] = Offer(c).slave]
  /\ idx' = [idx EXCEPT ![c] = @ + 1]
  /\ UNCHANGED <<pc, req, rsp, stats, log, bus, m, dropped, corrupted>>

\* No responder.
BusSilent(c) ==
  /\ pc[c] = "loop" /\ idx[c] \notin Bus
  /\ BusReturn(c, <<>>)
  /\ UNCHANGED <<req, stats, log, slaves, m, idx, dropped, corrupted>>

\* The frames one flipped bit 0 makes of an intact one: a byte of the
\* address, the PDU (either byte of a word) or the CRC differs, and the CRC
\* no longer agrees.
Flip(b) == IF b % 2 = 0 THEN b + 1 ELSE b - 1

FlipHigh(w) == IF (w \div 256) % 2 = 0 THEN w + 256 ELSE w - 256

FlippedWords(regs) ==
  { [regs EXCEPT ![i] = Flip(regs[i])] : i \in DOMAIN regs } \cup
  { [regs EXCEPT ![i] = FlipHigh(regs[i])] : i \in DOMAIN regs }

\* An echo of five bytes has no code byte to hit.
FlippedPdu(p) ==
  { [p EXCEPT !.fc = Flip(p.fc)] } \cup
  { [p EXCEPT !.code = x] : x \in IF p.len = 5 THEN {} ELSE {Flip(p.code)} } \cup
  { [p EXCEPT !.regs = x] : x \in FlippedWords(p.regs) }

Flipped(adu) ==
  { [adu EXCEPT !.crc_ok = FALSE],
    [adu EXCEPT !.crc_ok = FALSE, !.addr = Flip(adu.addr)] } \cup
  { [adu EXCEPT !.crc_ok = FALSE, !.pdu = p] : p \in FlippedPdu(adu.pdu) }

\* Back in FaultyRtu::transact: the second draw, then m_ is let go.
FaultyCorrupt(c) ==
  /\ MayCorrupt /\ pc[c] = "faulty_ret" /\ rsp[c] # <<>>
  /\ \E bad \in Flipped(rsp[c][1]) : TransactReturns(c, <<bad>>)
  /\ corrupted' = corrupted + 1
  /\ m' = m \ {c}
  /\ UNCHANGED <<req, stats, log, slaves, bus, idx, dropped>>

FaultyReturn(c) ==
  /\ pc[c] = "faulty_ret"
  /\ TransactReturns(c, rsp[c])
  /\ m' = m \ {c}
  /\ UNCHANGED <<req, stats, log, slaves, bus, idx, dropped, corrupted>>

TransportStep(c) ==
  \/ FaultyLock(c) \/ FaultyDrop(c) \/ FaultyForward(c)
  \/ BusLock(c) \/ SlaveAnswers(c) \/ SlaveSilent(c) \/ BusSilent(c)
  \/ FaultyCorrupt(c) \/ FaultyReturn(c)

\* What handle does before and after transact leaves the bus alone.
CallStep(c) ==
  /\ \E r \in Requests : HandleEmpty(c, r) \/ HandleCall(c, r)
  /\ UNCHANGED <<slaves, bus, m, idx, dropped, corrupted>>

\* serve_client gives a connection up, between two calls.
CloseStep(c) ==
  /\ FramingError(c)
  /\ UNCHANGED <<slaves, bus, m, idx, dropped, corrupted>>

LeaveStep(c) ==
  /\ HandleTimeout(c) \/ HandleCrcFailure(c) \/ HandleResponse(c)
  /\ UNCHANGED <<slaves, bus, m, idx, dropped, corrupted>>

\* A call under way goes on.
Progress(c) == TransportStep(c) \/ LeaveStep(c)

\* The bound on calls is reached and nobody is inside handle.
Finished ==
  /\ \A c \in Clients : c \in Closed \/ (pc[c] = "idle" /\ Len(log[c]) = MaxCalls)
  /\ UNCHANGED vars

Next == (\E c \in Clients : CallStep(c) \/ CloseStep(c) \/ Progress(c)) \/ Finished

\* A thread inside handle keeps running; a master need not call again.
Fairness == \A c \in Clients : WF_vars(Progress(c))

Spec == Init /\ [][Next]_vars

FairSpec == Spec /\ Fairness

-----------------------------------------------------------------------------
\* The threads, GatewayStats, the slaves behind the bus and the two mutexes.
TypeOK ==
  /\ pc \in [Clients -> {"idle", "transact", "faulty", "bus", "loop",
                         "faulty_ret", "return", "closed"}]
  /\ req \in [Clients -> Optional(Requests)]
  /\ rsp \in [Clients -> Optional(ResponseAdu)]
  /\ stats \in [Counters -> Nat]
  /\ log \in [Clients -> Seq([req : Requests, rsp : ResponseFrame])]
  /\ slaves \in [Bus -> Slave(RegCount)]
  /\ bus \subseteq Clients /\ m \subseteq Clients
  /\ idx \in [Clients -> 1 .. (Len(UnitIds) + 1)]
  /\ dropped \in Nat /\ corrupted \in Nat

(***************************************************************************)
(* Each thread's view of the two mutexes: a thread is in the loop over the *)
(* slaves exactly while it holds bus_, and only one is; and with the fault *)
(* injector in place only one thread at a time is anywhere between its     *)
(* entry and its return.  That mb_slave_handle is one step of this model   *)
(* rests on it.                                                            *)
(***************************************************************************)
Exclusive ==
  /\ bus = { c \in Clients : pc[c] = "loop" }
  /\ \A c, d \in bus : c = d
  /\ m = { c \in Clients : Faulty /\ pc[c] \in {"faulty", "bus", "loop", "faulty_ret"} }
  /\ \A c, d \in m : c = d

(***************************************************************************)
(* The injector's books and the gateway's agree (test_gateway.cpp:371):    *)
(* every corrupted frame ends as a CRC failure, none as a response, and    *)
(* every dropped exchange as a timeout.                                    *)
(***************************************************************************)
FaultsAccounted ==
  /\ corrupted = stats["crc_failures"]
                 + Cardinality({ c \in Clients : rsp[c] # <<>> /\ ~ rsp[c][1].crc_ok })
  /\ dropped <= stats["timeouts"]
                + Cardinality({ c \in Clients : pc[c] = "return" /\ rsp[c] = <<>> })

-----------------------------------------------------------------------------
(***************************************************************************)
(* The refinement.  A request takes effect when its thread gets bus_: the  *)
(* slaves its loop has still to reach are seen as they will be.            *)
(***************************************************************************)
\* Thread c, in the loop, will come to slave j.
Reaches(c, j) ==
  /\ pc[c] = "loop" /\ idx[c] <= j
  /\ \A k \in idx[c] .. (j - 1) :
       mb_slave_handle(slaves[k], RtuReq(c)).result # "RESPOND"

memBar ==
  [j \in Bus |->
     IF \E c \in bus : Reaches(c, j)
       THEN mb_slave_handle(slaves[j],
              RtuReq(CHOOSE c \in bus : Reaches(c, j))).slave.holding
       ELSE slaves[j].holding]

phaseBar ==
  [c \in Clients |->
     CASE pc[c] \in {"idle", "closed"}            -> "idle"
       [] pc[c] \in {"transact", "faulty", "bus"} -> "called"
       [] OTHER                                   -> "done"]

\* The slaves that will answer c, were it to reach them.
Responders(c) ==
  { j \in Bus : Reaches(c, j) /\
                mb_slave_handle(slaves[j], RtuReq(c)).result = "RESPOND" }

ansBar ==
  [c \in Clients |->
     IF pc[c] = "loop"
       THEN IF Responders(c) = {} THEN <<>>
            ELSE << mb_slave_handle(slaves[CHOOSE j \in Responders(c) : TRUE],
                                    RtuReq(c)).resp[1].pdu >>
     ELSE IF pc[c] \in {"faulty_ret", "return"} /\ rsp[c] # <<>> /\ rsp[c][1].crc_ok
       THEN << rsp[c][1].pdu >>
     ELSE <<>>]

Service == INSTANCE RegisterService
             WITH mem <- memBar, phase <- phaseBar, arg <- req, ans <- ansBar

(***************************************************************************)
(* The whole gateway, threads, mutexes, slaves and faults, implements the  *)
(* atomic register service: a broadcast is seen by no other request half   *)
(* done, a read returns what the last writes left, an answer is never that *)
(* of another request, and a corrupted frame is never believed.            *)
(***************************************************************************)
RefinesRegisterService == Service!Spec
=============================================================================
