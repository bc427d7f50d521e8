----------------------------- MODULE SlaveNode -----------------------------
(***************************************************************************)
(* One slave of rtu-core fed with frames, one at a time, as the caller of  *)
(* mb_slave_handle does it (InProcessRtu under its bus lock, or the port   *)
(* layer of a real device).                                                *)
(***************************************************************************)
EXTENDS ModbusSlave

CONSTANTS
  Addr,       \* the slave's unit id
  RegCount,   \* holding_count
  Frames,     \* the frames the bus may carry
  MaxFrames   \* bound: frames fed in one behaviour

ASSUME NodeAssumption ==
  /\ Addr \in Byte
  /\ RegCount \in U16 /\ RegCount > 0
  /\ Frames \subseteq RequestAdu
  /\ MaxFrames \in Nat

VARIABLES
  slave,  \* the mb_slave_t
  req,    \* the last frame fed, in a sequence (empty before the first)
  out,    \* what the last call returned: result code and response
  fed     \* frames fed so far

vars == <<slave, req, out, fed>>

Results == {"RESPOND", "SILENT", "BAD_CRC", "BAD_LENGTH"}

\* The states of one slave (mb_slave_t) and of the last call's outcome.
TypeOK ==
  /\ slave \in Slave(RegCount)
  /\ req \in Seq(Frames)
  /\ out \in [result : Results, resp : Seq(ResponseAdu)]
  /\ fed \in Nat

Init ==
  /\ slave = mb_slave_init(Addr, RegCount)
  /\ req = <<>>
  /\ out = [result |-> "SILENT", resp |-> <<>>]
  /\ fed = 0

Handle(f) ==
  /\ fed < MaxFrames
  /\ LET o == mb_slave_handle(slave, f)
     IN  /\ slave' = o.slave
         /\ out' = [result |-> o.result, resp |-> o.resp]
  /\ req' = <<f>>
  /\ fed' = fed + 1

Next == \E f \in Frames : Handle(f)

Spec == Init /\ [][Next]_vars

-----------------------------------------------------------------------------
(***************************************************************************)
(* The counters are the only visibility into the bus (modbus_slave.h:44).  *)
(* Over any run a broadcast is never answered and every answer belongs to  *)
(* a frame that was accepted, so answers and broadcasts are disjoint parts *)
(* of the accepted frames; and every exception is an answer.               *)
(***************************************************************************)
CountersAgree ==
  /\ slave.cnt_responses + slave.cnt_broadcast <= slave.cnt_frames_ok
  /\ slave.cnt_exceptions <= slave.cnt_responses

(***************************************************************************)
(* Every frame the slave answers fits the caller's buffer of MB_ADU_MAX    *)
(* bytes (modbus_slave.h:58), its one-byte byte count describes the words  *)
(* that follow, and it carries the slave's own address.                    *)
(***************************************************************************)
ReplyFits ==
  \A i \in DOMAIN out.resp :
    LET r == out.resp[i]
    IN  /\ Size(r) <= MB_ADU_MAX
        /\ r.pdu.fc = MB_FC_READ_HOLDING => r.pdu.code = 2 * Len(r.pdu.regs)
        /\ r.addr = slave.addr

\* The last call was acknowledged: answered, and not with an exception.
Acked == \E i \in DOMAIN out.resp : out.resp[i].pdu.fc < 128

(***************************************************************************)
(* An acknowledged write is in the registers, all of it: also where start  *)
(* + qty does not fit 16 bits, and at the quantity limits.                 *)
(***************************************************************************)
AckedWriteIsStored ==
  \A k \in DOMAIN req :
    LET p == req[k].pdu
    IN  /\ Acked /\ p.fc = MB_FC_WRITE_SINGLE =>
             p.a \in DOMAIN slave.holding /\ slave.holding[p.a] = p.b
        /\ Acked /\ p.fc = MB_FC_WRITE_MULTIPLE =>
             \A i \in 0 .. (p.b - 1) :
               /\ p.a + i \in DOMAIN slave.holding
               /\ slave.holding[p.a + i] = p.regs[i + 1]

(***************************************************************************)
(* A frame that is refused, discarded or not for this slave leaves every   *)
(* register alone; only an acknowledged write or a broadcast changes any.  *)
(***************************************************************************)
RefusedLeavesRegisters ==
  [][ slave'.holding # slave.holding =>
        Acked' \/ (\E k \in DOMAIN req' : req'[k].addr = MB_ADDR_BROADCAST)
    ]_vars

=============================================================================
