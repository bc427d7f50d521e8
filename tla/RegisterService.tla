-------------------------- MODULE RegisterService --------------------------
(***************************************************************************)
(* What the gateway promises its masters, with no threads, locks, frames   *)
(* or checksums: a bank of register files, one per unit, on which every    *)
(* request takes effect at a single instant between its call and its       *)
(* answer.  A broadcast takes effect on all units at that instant.  A      *)
(* request may be lost before it takes effect (MayDrop), its answer may be *)
(* lost after it (MayCorrupt); both look the same to the master, exception *)
(* 0x0B.  An answer is never that of another request.                      *)
(*                                                                         *)
(* The semantics of the function codes is stated here on its own, as the   *)
(* reference that rtu-core/modbus_slave.c is held against.  The shape of   *)
(* an exception and the limits on quantities are those of ModbusSlave.     *)
(***************************************************************************)
EXTENDS ModbusSlave

CONSTANTS Clients, Requests, MaxCalls, UnitIds, RegCount, MayDrop, MayCorrupt

VARIABLES
  mem,    \* the registers: unit position -> register -> value
  phase,  \* each master: "idle", "called", "done"
  arg,    \* the request it waits on: <<r>> or <<>>
  ans,    \* once done, the unit's answer: <<pdu>>, or <<>> if there is none
  log     \* the calls it has made, with the responses

vars == <<mem, phase, arg, ans, log>>

Units == 1 .. Len(UnitIds)

-----------------------------------------------------------------------------
\* A PDU that fits a frame and is as long as its function code says.
WellFormed(p) ==
  /\ p.len + 3 <= MB_ADU_MAX
  /\ p.fc \in {MB_FC_READ_HOLDING, MB_FC_WRITE_SINGLE} => p.len = 5
  /\ p.fc = MB_FC_WRITE_MULTIPLE => p.len >= 6 /\ p.len = 6 + p.bc

\* How many registers a request names.
Quantity(p) == IF p.fc = MB_FC_WRITE_SINGLE THEN 1 ELSE p.b

\* The exception codes that apply, lowest code last to be reported: an
\* unknown function hides the rest, a bad quantity hides a bad range.
Fault(p) ==
  LET known == p.fc \in {MB_FC_READ_HOLDING, MB_FC_WRITE_SINGLE,
                         MB_FC_WRITE_MULTIPLE}
      limit == IF p.fc = MB_FC_READ_HOLDING THEN MB_READ_QTY_MAX
                                            ELSE MB_WRITE_MULTI_QTY_MAX
      value == \/ Quantity(p) \notin 1 .. limit
               \/ p.fc = MB_FC_WRITE_MULTIPLE /\ p.bc # 2 * p.b
  IN  CASE ~ known                        -> MB_EX_ILLEGAL_FUNCTION
        [] known /\ value                 -> MB_EX_ILLEGAL_VALUE
        [] known /\ ~ value /\ p.a + Quantity(p) > RegCount
                                          -> MB_EX_ILLEGAL_ADDRESS
        [] OTHER                          -> 0

\* The registers a request names, and the new value of each.
Range(p) == p.a .. (p.a + Quantity(p) - 1)

Value(p, i) ==
  IF p.fc = MB_FC_WRITE_SINGLE THEN p.b ELSE p.regs[i - p.a + 1]

IsWrite(p) == p.fc \in {MB_FC_WRITE_SINGLE, MB_FC_WRITE_MULTIPLE}

\* The units a request addresses.  Two units with one id share the wire: the
\* first one answers, and the frame goes no further.
Addressed(r) ==
  IF r.unit_id = MB_ADDR_BROADCAST
    THEN Units
    ELSE { u \in Units : /\ UnitIds[u] = r.unit_id
                         /\ \A v \in 1 .. (u - 1) : UnitIds[v] # r.unit_id }

\* The bank after r.
Effect(r) ==
  [u \in Units |->
     IF u \in Addressed(r) /\ IsWrite(r.pdu) /\ WellFormed(r.pdu)
                           /\ Fault(r.pdu) = 0
       THEN [i \in DOMAIN mem[u] |->
               IF i \in Range(r.pdu) THEN Value(r.pdu, i) ELSE mem[u][i]]
       ELSE mem[u]]

\* The answer of an addressed unit u to r.
AnswerOf(u, r) ==
  LET p == r.pdu
  IN  IF Fault(p) # 0 THEN ExceptionPdu(p.fc, Fault(p))
      ELSE IF IsWrite(p)
        THEN [fc |-> p.fc, len |-> 5, code |-> 0, regs |-> <<p.a, p.b>>]
        ELSE [fc |-> p.fc, len |-> 2 + 2 * p.b, code |-> 2 * p.b,
              regs |-> [i \in 1 .. p.b |-> mem[u][p.a + i - 1]]]

\* No answer to a broadcast, to a malformed PDU, or from an absent unit.
Answer(r) ==
  IF r.unit_id = MB_ADDR_BROADCAST \/ ~ WellFormed(r.pdu) \/ Addressed(r) = {}
    THEN <<>>
    ELSE << AnswerOf(CHOOSE u \in Addressed(r) : TRUE, r) >>

-----------------------------------------------------------------------------
Init ==
  /\ mem   = [u \in Units |-> [i \in 0 .. (RegCount - 1) |-> UnitIds[u] * 256 + i]]
  /\ phase = [c \in Clients |-> "idle"]
  /\ arg   = [c \in Clients |-> <<>>]
  /\ ans   = [c \in Clients |-> <<>>]
  /\ log   = [c \in Clients |-> <<>>]

Deliver(c, r, pdu) ==
  log' = [log EXCEPT ![c] =
            Append(@, [req |-> r,
                       rsp |-> [transaction_id |-> r.transaction_id,
                                unit_id |-> r.unit_id, pdu |-> pdu]])]

\* A request without a PDU is refused on the spot.
Reject(c) ==
  \E r \in Requests :
    /\ phase[c] = "idle" /\ Len(log[c]) < MaxCalls /\ r.pdu.len = 0
    /\ Deliver(c, r, ExceptionPdu(0, 10))
    /\ UNCHANGED <<mem, phase, arg, ans>>

Call(c) ==
  \E r \in Requests :
    /\ phase[c] = "idle" /\ Len(log[c]) < MaxCalls /\ r.pdu.len # 0
    /\ phase' = [phase EXCEPT ![c] = "called"]
    /\ arg'   = [arg   EXCEPT ![c] = <<r>>]
    /\ UNCHANGED <<mem, ans, log>>

Execute(c) ==
  /\ phase[c] = "called"
  /\ mem'   = Effect(arg[c][1])
  /\ ans'   = [ans   EXCEPT ![c] = Answer(arg[c][1])]
  /\ phase' = [phase EXCEPT ![c] = "done"]
  /\ UNCHANGED <<arg, log>>

LoseRequest(c) ==
  /\ MayDrop /\ phase[c] = "called"
  /\ phase' = [phase EXCEPT ![c] = "done"]
  /\ UNCHANGED <<mem, arg, ans, log>>

LoseAnswer(c) ==
  /\ MayCorrupt /\ phase[c] = "done" /\ ans[c] # <<>>
  /\ ans' = [ans EXCEPT ![c] = <<>>]
  /\ UNCHANGED <<mem, phase, arg, log>>

Return(c) ==
  /\ phase[c] = "done"
  /\ Deliver(c, arg[c][1], IF ans[c] # <<>> THEN ans[c][1]
                            ELSE ExceptionPdu(arg[c][1].pdu.fc, 11))
  /\ phase' = [phase EXCEPT ![c] = "idle"]
  /\ arg'   = [arg   EXCEPT ![c] = <<>>]
  /\ ans'   = [ans   EXCEPT ![c] = <<>>]
  /\ UNCHANGED mem

Next ==
  \E c \in Clients :
    Reject(c) \/ Call(c) \/ Execute(c) \/ LoseRequest(c) \/ LoseAnswer(c) \/ Return(c)

Spec == Init /\ [][Next]_vars
=============================================================================
