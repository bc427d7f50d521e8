---------------------------- MODULE ModbusSlave ----------------------------
(***************************************************************************)
(* The Modbus RTU slave core, rtu-core/modbus_slave.c: one function that   *)
(* turns a received ADU and the slave's state into a new state and, maybe, *)
(* a response ADU.                                                         *)
(*                                                                         *)
(* An ADU is a record, not bytes.  What the code tells apart is kept: the  *)
(* address byte, the function code, the length (every length check of the  *)
(* code is a check of this model), the two 16-bit words after the function *)
(* code, the byte count, the registers carried, and whether the CRC at the *)
(* end of the frame agrees with the rest.                                  *)
(***************************************************************************)
EXTENDS Integers, Sequences

\* A value that may be absent: <<>>, or <<v>> with v in S.
Optional(S) == { s \in Seq(S) : Len(s) <= 1 }

Byte == 0 .. 255
U16  == 0 .. 65535

MB_ADDR_BROADCAST == 0
MB_ADU_MAX        == 256
MB_ADU_MIN        == 4

MB_FC_READ_HOLDING   == 3
MB_FC_WRITE_SINGLE   == 6
MB_FC_WRITE_MULTIPLE == 16

MB_EX_ILLEGAL_FUNCTION == 1
MB_EX_ILLEGAL_ADDRESS  == 2
MB_EX_ILLEGAL_VALUE    == 3

MB_READ_QTY_MAX_Loose  == 126   \* defect: off by one
MB_READ_QTY_MAX        == 125
MB_WRITE_MULTI_QTY_MAX == 123

(***************************************************************************)
(* A request PDU of len bytes: the function code fc, the words a and b at  *)
(* offsets 1 and 3, the byte count bc at offset 5 and the whole words that *)
(* follow it.  A field that a PDU of that length does not reach is never   *)
(* looked at.  mb_slave_handle and mb_crc16 take the size of the ADU as a  *)
(* uint16_t, so a PDU has at most 65532 bytes (from TCP, at most 253).     *)
(***************************************************************************)
PduSize == 0 .. 65532

RequestPdu ==
  { p \in [fc : Byte, len : PduSize, a : U16, b : U16, bc : Byte, regs : Seq(U16)] :
      Len(p.regs) = IF p.len >= 6 THEN (p.len - 6) \div 2 ELSE 0 }

(***************************************************************************)
(* A response PDU of len bytes: fc, then one byte (a byte count, or an     *)
(* exception code; 0 where there is none), then 16-bit words.              *)
(***************************************************************************)
ResponsePdu == [fc : Byte, len : Nat, code : Byte, regs : Seq(U16)]

RequestAdu  == [addr : Byte, pdu : RequestPdu,  crc_ok : BOOLEAN]
ResponseAdu == [addr : Byte, pdu : ResponsePdu, crc_ok : BOOLEAN]

\* Bytes of an ADU on the wire: address, PDU, two CRC bytes.
Size(adu) == 1 + adu.pdu.len + 2

\* fc | 0x80
ExceptionFc(fc) == IF fc >= 128 THEN fc ELSE fc + 128

ExceptionPdu(fc, ex) ==
  [fc |-> ExceptionFc(fc), len |-> 2, code |-> ex, regs |-> <<>>]

-----------------------------------------------------------------------------
(***************************************************************************)
(* The slave's state, mb_slave_t, with n holding registers.                *)
(***************************************************************************)
Slave(n) ==
  [addr : Byte, holding_count : {n}, holding : [0 .. (n - 1) -> U16],
   cnt_frames_ok : Nat, cnt_crc_err : Nat, cnt_len_err : Nat,
   cnt_exceptions : Nat, cnt_responses : Nat, cnt_broadcast : Nat]

mb_slave_init(addr, n) ==
  [addr |-> addr, holding_count |-> n, holding |-> [i \in 0 .. (n - 1) |-> 0],
   cnt_frames_ok |-> 0, cnt_crc_err |-> 0, cnt_len_err |-> 0,
   cnt_exceptions |-> 0, cnt_responses |-> 0, cnt_broadcast |-> 0]

-----------------------------------------------------------------------------
(***************************************************************************)
(* What a call of mb_slave_handle returns: the slave after it, the result  *)
(* code and, when the result is RESPOND, the one response.                 *)
(***************************************************************************)
Silent(s) == [slave |-> s, result |-> "SILENT", resp |-> <<>>]

BadLength(s) ==
  [slave |-> [s EXCEPT !.cnt_len_err = @ + 1], result |-> "BAD_LENGTH",
   resp |-> <<>>]

BadCrc(s) ==
  [slave |-> [s EXCEPT !.cnt_crc_err = @ + 1], result |-> "BAD_CRC",
   resp |-> <<>>]

\* seal() appends the CRC of what precedes it, so the response's CRC agrees.
seal(addr, pdu) == [addr |-> addr, pdu |-> pdu, crc_ok |-> TRUE]

Respond(s, pdu) ==
  [slave |-> [s EXCEPT !.cnt_responses = @ + 1], result |-> "RESPOND",
   resp |-> << seal(s.addr, pdu) >>]

slave_make_exception(s, fc, ex) ==
  Respond([s EXCEPT !.cnt_exceptions = @ + 1], ExceptionPdu(fc, ex))

\* Defect: an error is answered even when the request was a broadcast.
Refuse_Loud(s, bcast, fc, ex) == slave_make_exception(s, fc, ex)

\* An error that is reported to a unicast sender and hidden from a broadcast.
Refuse(s, bcast, fc, ex) ==
  IF bcast THEN Silent(s) ELSE slave_make_exception(s, fc, ex)

-----------------------------------------------------------------------------
(***************************************************************************)
(* The cases of the switch on the function code.  s has already counted    *)
(* the frame, p is the request's PDU, bcast says it was sent to address 0. *)
(***************************************************************************)
read_holding(s, p, bcast) ==
  LET start == p.a
      qty   == p.b
  IN  IF p.len + 3 # 8 THEN BadLength(s)
      ELSE IF bcast THEN Silent(s)
      ELSE IF qty < 1 \/ qty > MB_READ_QTY_MAX
        THEN slave_make_exception(s, p.fc, MB_EX_ILLEGAL_VALUE)
      ELSE IF start + qty > s.holding_count
        THEN slave_make_exception(s, p.fc, MB_EX_ILLEGAL_ADDRESS)
      ELSE Respond(s, [fc   |-> p.fc, len |-> 2 + 2 * qty,
                       code |-> (2 * qty) % 256,
                       regs |-> [i \in 1 .. qty |-> s.holding[start + i - 1]]])

\* Defect: the first register outside passes the check, and is written.
write_single_OnePast(s, p, bcast) ==
  LET stored == [s EXCEPT !.holding = [i \in DOMAIN @ \cup {p.a} |->
                                         IF i = p.a THEN p.b ELSE @[i]]]
  IN  IF p.len + 3 # 8 THEN BadLength(s)
      ELSE IF p.a > s.holding_count
        THEN Refuse(s, bcast, p.fc, MB_EX_ILLEGAL_ADDRESS)
      ELSE IF bcast THEN Silent(stored)
      ELSE Respond(stored, [fc |-> p.fc, len |-> 5, code |-> 0,
                            regs |-> <<p.a, p.b>>])

write_single(s, p, bcast) ==
  LET reg    == p.a
      value  == p.b
      stored == [s EXCEPT !.holding = [@ EXCEPT ![reg] = value]]
  IN  IF p.len + 3 # 8 THEN BadLength(s)
      ELSE IF reg >= s.holding_count
        THEN Refuse(s, bcast, p.fc, MB_EX_ILLEGAL_ADDRESS)
      ELSE IF bcast THEN Silent(stored)
      ELSE Respond(stored, [fc |-> p.fc, len |-> 5, code |-> 0,
                            regs |-> <<reg, value>>])

\* Defect: the loop stops one register early.
StoreAll_Short(s, start, qty, vals) ==
  [s EXCEPT !.holding =
     [i \in DOMAIN s.holding |->
        IF start <= i /\ i < start + qty - 1 THEN vals[i - start + 1]
                                             ELSE s.holding[i]]]

\* The for loop of a multiple write: qty registers from start on.
StoreAll(s, start, qty, vals) ==
  [s EXCEPT !.holding =
     [i \in DOMAIN s.holding |->
        IF start <= i /\ i < start + qty THEN vals[i - start + 1]
                                         ELSE s.holding[i]]]

\* Defect: the registers are stored before the range is checked.
write_multiple_StoreFirst(s, p, bcast) ==
  LET start  == p.a
      qty    == p.b
      stored == StoreAll(s, start, qty, p.regs)
  IN  IF p.len + 3 < 9 THEN BadLength(s)
      ELSE IF p.len + 3 # 9 + p.bc THEN BadLength(s)
      ELSE IF qty < 1 \/ qty > MB_WRITE_MULTI_QTY_MAX \/ p.bc # 2 * qty
        THEN Refuse(s, bcast, p.fc, MB_EX_ILLEGAL_VALUE)
      ELSE IF start + qty > s.holding_count
        THEN Refuse(stored, bcast, p.fc, MB_EX_ILLEGAL_ADDRESS)
      ELSE IF bcast THEN Silent(stored)
      ELSE Respond(stored, [fc |-> p.fc, len |-> 5, code |-> 0,
                            regs |-> <<start, qty>>])

write_multiple(s, p, bcast) ==
  LET start  == p.a
      qty    == p.b
      stored == StoreAll(s, start, qty, p.regs)
  IN  IF p.len + 3 < 9 THEN BadLength(s)
      ELSE IF p.len + 3 # 9 + p.bc THEN BadLength(s)
      ELSE IF qty < 1 \/ qty > MB_WRITE_MULTI_QTY_MAX \/ p.bc # 2 * qty
        THEN Refuse(s, bcast, p.fc, MB_EX_ILLEGAL_VALUE)
      ELSE IF start + qty > s.holding_count
        THEN Refuse(s, bcast, p.fc, MB_EX_ILLEGAL_ADDRESS)
      ELSE IF bcast THEN Silent(stored)
      ELSE Respond(stored, [fc |-> p.fc, len |-> 5, code |-> 0,
                            regs |-> <<start, qty>>])

other_function(s, p, bcast) == Refuse(s, bcast, p.fc, MB_EX_ILLEGAL_FUNCTION)

\* Line 92 to 95: the frame is ours, count it.
CountFrame(s, bcast) ==
  [s EXCEPT !.cnt_frames_ok = @ + 1,
            !.cnt_broadcast = IF bcast THEN @ + 1 ELSE @]

mb_slave_handle(s, req) ==
  LET bcast == req.addr = MB_ADDR_BROADCAST
      ours  == CountFrame(s, bcast)
      p     == req.pdu
  IN  IF Size(req) < MB_ADU_MIN \/ Size(req) > MB_ADU_MAX THEN BadLength(s)
      ELSE IF ~ req.crc_ok THEN BadCrc(s)
      ELSE IF ~ bcast /\ req.addr # s.addr THEN Silent(s)
      ELSE IF p.fc = MB_FC_READ_HOLDING   THEN read_holding(ours, p, bcast)
      ELSE IF p.fc = MB_FC_WRITE_SINGLE   THEN write_single(ours, p, bcast)
      ELSE IF p.fc = MB_FC_WRITE_MULTIPLE THEN write_multiple(ours, p, bcast)
      ELSE other_function(ours, p, bcast)
=============================================================================
