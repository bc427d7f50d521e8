------------------------- MODULE ModbusSlaveProofs -------------------------
(***************************************************************************)
(* What every call of mb_slave_handle does, for every slave and every      *)
(* request: the facts the proofs about its callers rest on.                *)
(***************************************************************************)
EXTENDS ModbusSlave, TLAPS

(***************************************************************************)
(* The outcome o of a call on slave s is sound: the slave keeps its shape  *)
(* and its address, an answer is there exactly when the result is RESPOND, *)
(* it is sealed and carries the slave's address, no broadcast is answered, *)
(* and the counters still fit together (see Balanced).                     *)
(***************************************************************************)
Balanced(s) ==
  /\ s.cnt_responses + s.cnt_broadcast <= s.cnt_frames_ok
  /\ s.cnt_exceptions <= s.cnt_responses

\* Room for one more answer: the frame being handled was counted and is not
\* a broadcast.
Owed(s, bcast) ==
  /\ s.cnt_responses + s.cnt_broadcast <= s.cnt_frames_ok - (IF bcast THEN 0 ELSE 1)
  /\ s.cnt_exceptions <= s.cnt_responses

\* The same, where the answer may be an exception already counted as one.
OwedAnswer(s) ==
  /\ s.cnt_responses + s.cnt_broadcast <= s.cnt_frames_ok - 1
  /\ s.cnt_exceptions <= s.cnt_responses + 1

Shaped(n, addr, bcast, o) ==
  /\ o.slave \in Slave(n)
  /\ o.slave.addr = addr
  /\ o.resp \in Optional(ResponseAdu)
  /\ o.result \in {"RESPOND", "SILENT", "BAD_CRC", "BAD_LENGTH"}
  /\ o.result = "RESPOND" <=> o.resp # <<>>
  /\ o.result = "RESPOND" => ~ bcast /\ o.resp[1].addr = addr /\ o.resp[1].crc_ok

Sound(n, addr, bcast, o) ==
  Shaped(n, addr, bcast, o) /\ Balanced(o.slave)

\* A singleton is an optional value that is present.
LEMMA Present ==
  ASSUME NEW S, NEW v \in S
  PROVE  <<v>> \in Optional(S) /\ <<v>> # <<>> /\ <<v>>[1] = v
  BY DEF Optional

\* No value is an optional value.
LEMMA Absent ==
  ASSUME NEW S
  PROVE  <<>> \in Optional(S)
  BY DEF Optional

(***************************************************************************)
(* A slave's record with the sets of its fields left open: what updating   *)
(* one field does has nothing to do with what those sets are.              *)
(***************************************************************************)
SlaveRecord(A, C, H, N) ==
  [addr : A, holding_count : C, holding : H,
   cnt_frames_ok : N, cnt_crc_err : N, cnt_len_err : N,
   cnt_exceptions : N, cnt_responses : N, cnt_broadcast : N]

\* The record is made of its fields.
LEMMA RecordFields ==
  ASSUME NEW A, NEW C, NEW H, NEW N, NEW s \in SlaveRecord(A, C, H, N)
  PROVE  /\ s.addr \in A /\ s.holding_count \in C /\ s.holding \in H
         /\ s.cnt_frames_ok \in N /\ s.cnt_crc_err \in N /\ s.cnt_len_err \in N
         /\ s.cnt_exceptions \in N /\ s.cnt_responses \in N /\ s.cnt_broadcast \in N
         /\ s = [addr |-> s.addr, holding_count |-> s.holding_count, holding |-> s.holding,
                 cnt_frames_ok |-> s.cnt_frames_ok, cnt_crc_err |-> s.cnt_crc_err,
                 cnt_len_err |-> s.cnt_len_err, cnt_exceptions |-> s.cnt_exceptions,
                 cnt_responses |-> s.cnt_responses, cnt_broadcast |-> s.cnt_broadcast]
  BY DEF SlaveRecord

\* An update with a value of the field's set stays in the record's set.
LEMMA RecordUpdates ==
  ASSUME NEW A, NEW C, NEW H, NEW N, NEW s \in SlaveRecord(A, C, H, N)
  PROVE  /\ \A h \in H : [s EXCEPT !.holding = h] \in SlaveRecord(A, C, H, N)
         /\ \A v \in N : /\ [s EXCEPT !.cnt_frames_ok = v] \in SlaveRecord(A, C, H, N)
                         /\ [s EXCEPT !.cnt_crc_err = v] \in SlaveRecord(A, C, H, N)
                         /\ [s EXCEPT !.cnt_len_err = v] \in SlaveRecord(A, C, H, N)
                         /\ [s EXCEPT !.cnt_exceptions = v] \in SlaveRecord(A, C, H, N)
                         /\ [s EXCEPT !.cnt_responses = v] \in SlaveRecord(A, C, H, N)
                         /\ [s EXCEPT !.cnt_broadcast = v] \in SlaveRecord(A, C, H, N)
  BY DEF SlaveRecord

\* Both, for the sets of mb_slave_t.
LEMMA SlaveFields ==
  ASSUME NEW n, NEW s \in Slave(n)
  PROVE  /\ s.addr \in Byte /\ s.holding_count = n /\ s.holding \in [0 .. (n - 1) -> U16]
         /\ s.cnt_frames_ok \in Nat /\ s.cnt_crc_err \in Nat /\ s.cnt_len_err \in Nat
         /\ s.cnt_exceptions \in Nat /\ s.cnt_responses \in Nat /\ s.cnt_broadcast \in Nat
         /\ s = [addr |-> s.addr, holding_count |-> s.holding_count, holding |-> s.holding,
                 cnt_frames_ok |-> s.cnt_frames_ok, cnt_crc_err |-> s.cnt_crc_err,
                 cnt_len_err |-> s.cnt_len_err, cnt_exceptions |-> s.cnt_exceptions,
                 cnt_responses |-> s.cnt_responses, cnt_broadcast |-> s.cnt_broadcast]
<1> DEFINE H == [0 .. (n - 1) -> U16]
           C == {n}
<1>1. s \in SlaveRecord(Byte, C, H, Nat)
  BY Zenon DEF Slave, SlaveRecord
<1>2. \A x \in C : x = n
  OBVIOUS
<1> HIDE DEF H, C
<1>3. /\ s.addr \in Byte /\ s.holding_count \in C /\ s.holding \in H
      /\ s.cnt_frames_ok \in Nat /\ s.cnt_crc_err \in Nat /\ s.cnt_len_err \in Nat
      /\ s.cnt_exceptions \in Nat /\ s.cnt_responses \in Nat /\ s.cnt_broadcast \in Nat
      /\ s = [addr |-> s.addr, holding_count |-> s.holding_count, holding |-> s.holding,
              cnt_frames_ok |-> s.cnt_frames_ok, cnt_crc_err |-> s.cnt_crc_err,
              cnt_len_err |-> s.cnt_len_err, cnt_exceptions |-> s.cnt_exceptions,
              cnt_responses |-> s.cnt_responses, cnt_broadcast |-> s.cnt_broadcast]
  BY <1>1, RecordFields
<1> QED BY <1>2, <1>3, Zenon DEF H

\* A slave with one field changed is a slave.
LEMMA SlaveUpdates ==
  ASSUME NEW n, NEW s \in Slave(n)
  PROVE  /\ \A h \in [0 .. (n - 1) -> U16] : [s EXCEPT !.holding = h] \in Slave(n)
         /\ \A v \in Nat : /\ [s EXCEPT !.cnt_frames_ok = v] \in Slave(n)
                           /\ [s EXCEPT !.cnt_crc_err = v] \in Slave(n)
                           /\ [s EXCEPT !.cnt_len_err = v] \in Slave(n)
                           /\ [s EXCEPT !.cnt_exceptions = v] \in Slave(n)
                           /\ [s EXCEPT !.cnt_responses = v] \in Slave(n)
                           /\ [s EXCEPT !.cnt_broadcast = v] \in Slave(n)
<1> DEFINE H == [0 .. (n - 1) -> U16]
           C == {n}
           S == SlaveRecord(Byte, C, H, Nat)
<1>1. Slave(n) = S
  BY Zenon DEF Slave, SlaveRecord
<1> HIDE DEF H, C
<1>2. /\ \A h \in H : [s EXCEPT !.holding = h] \in S
      /\ \A v \in Nat : /\ [s EXCEPT !.cnt_frames_ok = v] \in S
                        /\ [s EXCEPT !.cnt_crc_err = v] \in S
                        /\ [s EXCEPT !.cnt_len_err = v] \in S
                        /\ [s EXCEPT !.cnt_exceptions = v] \in S
                        /\ [s EXCEPT !.cnt_responses = v] \in S
                        /\ [s EXCEPT !.cnt_broadcast = v] \in S
  <2>1. s \in SlaveRecord(Byte, C, H, Nat)
    BY <1>1
  <2> QED BY <2>1, RecordUpdates
<1> HIDE DEF S
<1> QED BY <1>1, <1>2, Zenon DEF H

\* What mb_slave_init leaves is a slave.
LEMMA InitIsSlave ==
  ASSUME NEW n \in Nat, NEW a \in Byte
  PROVE  mb_slave_init(a, n) \in Slave(n)
<1> DEFINE H == [0 .. (n - 1) -> U16]
           h == [i \in 0 .. (n - 1) |-> 0]
           C == {n}
<1>1. h \in H /\ n \in C /\ 0 \in Nat
  <2>1. 0 \in U16
    BY DEF U16
  <2> QED BY <2>1, Zenon
<1>2. Slave(n) = SlaveRecord(Byte, C, H, Nat)
  BY Zenon DEF Slave, SlaveRecord
<1>3. mb_slave_init(a, n) =
        [addr |-> a, holding_count |-> n, holding |-> h,
         cnt_frames_ok |-> 0, cnt_crc_err |-> 0, cnt_len_err |-> 0,
         cnt_exceptions |-> 0, cnt_responses |-> 0, cnt_broadcast |-> 0]
  BY Zenon DEF mb_slave_init
<1> HIDE DEF H, h, C
<1> QED BY <1>1, <1>2, <1>3 DEF SlaveRecord

\* Silence is sound, whatever the slave.
LEMMA SilentSound ==
  ASSUME NEW n \in Nat, NEW s \in Slave(n), NEW bcast \in BOOLEAN, Owed(s, bcast)
  PROVE  Sound(n, s.addr, bcast, Silent(s))
<1>1. Balanced(s)
  BY SlaveFields DEF Owed, Balanced
<1> QED BY <1>1, Absent DEF Sound, Shaped, Silent

\* Discarding a frame for its length or its CRC changes one counter that
\* Balanced does not look at.
LEMMA BadLengthKeeps ==
  ASSUME NEW n \in Nat, NEW s \in Slave(n), NEW bcast \in BOOLEAN, Balanced(s)
  PROVE  Sound(n, s.addr, bcast, BadLength(s))
<1> DEFINE t == [s EXCEPT !.cnt_len_err = s.cnt_len_err + 1]
<1>1. t \in Slave(n)
  <2>1. s.cnt_len_err + 1 \in Nat
    BY SlaveFields
  <2> QED BY <2>1, SlaveUpdates
<1>2. /\ t.addr = s.addr /\ t.cnt_responses = s.cnt_responses
      /\ t.cnt_broadcast = s.cnt_broadcast /\ t.cnt_frames_ok = s.cnt_frames_ok
      /\ t.cnt_exceptions = s.cnt_exceptions
  BY SlaveFields
<1>3. BadLength(s) = [slave |-> t, result |-> "BAD_LENGTH", resp |-> <<>>]
  BY DEF BadLength
<1> HIDE DEF t
<1>4. Balanced(t)
  BY <1>2 DEF Balanced
<1> QED BY <1>1, <1>2, <1>3, <1>4, Absent DEF Sound, Shaped

\* A frame with a wrong CRC is counted and leaves the slave sound.
LEMMA BadCrcKeeps ==
  ASSUME NEW n \in Nat, NEW s \in Slave(n), NEW bcast \in BOOLEAN, Balanced(s)
  PROVE  Sound(n, s.addr, bcast, BadCrc(s))
<1> DEFINE t == [s EXCEPT !.cnt_crc_err = s.cnt_crc_err + 1]
<1>1. t \in Slave(n)
  <2>1. s.cnt_crc_err + 1 \in Nat
    BY SlaveFields
  <2> QED BY <2>1, SlaveUpdates
<1>2. /\ t.addr = s.addr /\ t.cnt_responses = s.cnt_responses
      /\ t.cnt_broadcast = s.cnt_broadcast /\ t.cnt_frames_ok = s.cnt_frames_ok
      /\ t.cnt_exceptions = s.cnt_exceptions
  BY SlaveFields
<1>3. BadCrc(s) = [slave |-> t, result |-> "BAD_CRC", resp |-> <<>>]
  BY DEF BadCrc
<1> HIDE DEF t
<1>4. Balanced(t)
  BY <1>2 DEF Balanced
<1> QED BY <1>1, <1>2, <1>3, <1>4, Absent DEF Sound, Shaped

\* So is discarding a frame for its length.
LEMMA BadLengthSound ==
  ASSUME NEW n \in Nat, NEW s \in Slave(n), NEW bcast \in BOOLEAN, Owed(s, bcast)
  PROVE  Sound(n, s.addr, bcast, BadLength(s))
<1>1. Balanced(s)
  BY SlaveFields DEF Owed, Balanced
<1> QED BY <1>1, BadLengthKeeps

\* And answering a frame that was counted and is no broadcast.
LEMMA RespondSound ==
  ASSUME NEW n \in Nat, NEW s \in Slave(n), OwedAnswer(s), NEW p \in ResponsePdu
  PROVE  Sound(n, s.addr, FALSE, Respond(s, p))
<1> DEFINE a == seal(s.addr, p)
<1>1. a \in ResponseAdu /\ a.addr = s.addr /\ a.crc_ok
  BY SlaveFields DEF seal, ResponseAdu
<1>2. <<a>> \in Optional(ResponseAdu) /\ <<a>> # <<>> /\ <<a>>[1] = a
  BY <1>1, Present
<1>3. Respond(s, p).resp = <<a>> /\ Respond(s, p).result = "RESPOND"
      /\ Respond(s, p).slave = [s EXCEPT !.cnt_responses = @ + 1]
  BY DEF Respond
<1>4. Respond(s, p).slave \in Slave(n) /\ Respond(s, p).slave.addr = s.addr
  <2>1. s.cnt_responses + 1 \in Nat
    BY SlaveFields
  <2>2. [s EXCEPT !.cnt_responses = s.cnt_responses + 1] \in Slave(n)
    BY <2>1, SlaveUpdates
  <2>3. [s EXCEPT !.cnt_responses = s.cnt_responses + 1].addr = s.addr
    BY SlaveFields
  <2> QED BY <1>3, <2>2, <2>3
<1>5. Balanced(Respond(s, p).slave)
  <2>1. /\ s.cnt_responses \in Nat /\ s.cnt_broadcast \in Nat
        /\ s.cnt_frames_ok \in Nat /\ s.cnt_exceptions \in Nat
    BY SlaveFields
  <2>2. /\ s.cnt_responses + s.cnt_broadcast <= s.cnt_frames_ok - 1
        /\ s.cnt_exceptions <= s.cnt_responses + 1
    BY DEF OwedAnswer
  <2>3. LET t == Respond(s, p).slave
        IN  /\ t.cnt_responses = s.cnt_responses + 1
            /\ t.cnt_broadcast = s.cnt_broadcast
            /\ t.cnt_frames_ok = s.cnt_frames_ok
            /\ t.cnt_exceptions = s.cnt_exceptions
    BY <1>3, SlaveFields
  <2> QED BY <2>1, <2>2, <2>3 DEF Balanced
<1> HIDE DEF a
<1> QED BY <1>1, <1>2, <1>3, <1>4, <1>5 DEF Sound, Shaped

\* An exception answer is sound where an answer is owed.
LEMMA ExceptionSound ==
  ASSUME NEW n \in Nat, NEW s \in Slave(n), Owed(s, FALSE),
         NEW fc \in Byte, NEW ex \in Byte
  PROVE  Sound(n, s.addr, FALSE, slave_make_exception(s, fc, ex))
<1> DEFINE t == [s EXCEPT !.cnt_exceptions = @ + 1]
<1>1. t \in Slave(n) /\ t.addr = s.addr
  <2>1. s.cnt_exceptions + 1 \in Nat
    BY SlaveFields
  <2>2. t \in Slave(n)
    BY <2>1, SlaveUpdates
  <2> QED BY <2>2, SlaveFields
<1>2. OwedAnswer(t)
  <2>1. /\ s.cnt_responses \in Nat /\ s.cnt_broadcast \in Nat
        /\ s.cnt_frames_ok \in Nat /\ s.cnt_exceptions \in Nat
    BY SlaveFields
  <2>2. /\ s.cnt_responses + s.cnt_broadcast <= s.cnt_frames_ok - 1
        /\ s.cnt_exceptions <= s.cnt_responses
    BY DEF Owed
  <2>3. /\ t.cnt_responses = s.cnt_responses
        /\ t.cnt_broadcast = s.cnt_broadcast
        /\ t.cnt_frames_ok = s.cnt_frames_ok
        /\ t.cnt_exceptions = s.cnt_exceptions + 1
    BY SlaveFields
  <2> QED BY <2>1, <2>2, <2>3 DEF OwedAnswer
<1>3. ExceptionPdu(fc, ex) \in ResponsePdu
  <2>1. ExceptionFc(fc) \in Byte
    BY DEF ExceptionFc, Byte
  <2>2. <<>> \in Seq(U16)
    OBVIOUS
  <2> QED BY <2>1, <2>2 DEF ExceptionPdu, ResponsePdu
<1> HIDE DEF t
<1>4. Sound(n, t.addr, FALSE, Respond(t, ExceptionPdu(fc, ex)))
  BY <1>1, <1>2, <1>3, RespondSound
<1> QED BY <1>1, <1>4 DEF slave_make_exception, t

\* An error is reported to a unicast sender and hidden from a broadcast.
LEMMA RefuseSound ==
  ASSUME NEW n \in Nat, NEW s \in Slave(n), NEW bcast \in BOOLEAN, Owed(s, bcast),
         NEW fc \in Byte, NEW ex \in Byte
  PROVE  Sound(n, s.addr, bcast, Refuse(s, bcast, fc, ex))
<1>1. CASE bcast
  BY <1>1, SilentSound DEF Refuse
<1>2. CASE ~ bcast
  <2>1. Owed(s, FALSE) /\ bcast = FALSE
    BY <1>2
  <2> QED BY <1>2, <2>1, ExceptionSound DEF Refuse
<1> QED BY <1>1, <1>2

\* The exception codes are bytes.
LEMMA Codes ==
  /\ MB_EX_ILLEGAL_FUNCTION \in Byte
  /\ MB_EX_ILLEGAL_ADDRESS \in Byte
  /\ MB_EX_ILLEGAL_VALUE \in Byte
  BY DEF MB_EX_ILLEGAL_FUNCTION, MB_EX_ILLEGAL_ADDRESS, MB_EX_ILLEGAL_VALUE, Byte

-----------------------------------------------------------------------------
\* The size of a PDU is a natural number.
LEMMA SizeIsNat == \A l \in PduSize : l \in Nat
<1> DEFINE k == 65532
<1>1. k \in Nat /\ PduSize = 0 .. k
  BY DEF PduSize
<1> HIDE DEF k
<1> QED BY <1>1

\* The fields of a request PDU.
LEMMA PduFields ==
  ASSUME NEW p \in RequestPdu
  PROVE  /\ p.fc \in Byte /\ p.len \in Nat /\ p.a \in U16 /\ p.b \in U16
         /\ p.bc \in Byte /\ p.regs \in Seq(U16)
         /\ Len(p.regs) = IF p.len >= 6 THEN (p.len - 6) \div 2 ELSE 0
<1>1. /\ p.fc \in Byte /\ p.len \in PduSize /\ p.a \in U16 /\ p.b \in U16
      /\ p.bc \in Byte /\ p.regs \in Seq(U16)
      /\ Len(p.regs) = IF p.len >= 6 THEN (p.len - 6) \div 2 ELSE 0
  BY DEF RequestPdu
<1>2. p.len \in Nat
  BY <1>1, SizeIsNat
<1> QED BY <1>1, <1>2

\* A word is a natural number.
LEMMA WordIsNat == \A w \in U16 : w \in Nat
<1> DEFINE k == 65535
<1>1. k \in Nat /\ U16 = 0 .. k
  BY DEF U16
<1> HIDE DEF k
<1> QED BY <1>1

\* A function on 1 .. k is a sequence.
LEMMA FunctionIsSeq ==
  ASSUME NEW S, NEW k \in Nat, NEW f \in [1 .. k -> S]
  PROVE  f \in Seq(S) /\ Len(f) = k
  OBVIOUS

\* Changing the registers keeps a slave a slave and its counters.
LEMMA StoredShape ==
  ASSUME NEW n \in Nat, NEW s \in Slave(n), NEW h \in [0 .. (n - 1) -> U16],
         NEW bcast \in BOOLEAN, Owed(s, bcast)
  PROVE  LET t == [s EXCEPT !.holding = h]
         IN  t \in Slave(n) /\ t.addr = s.addr /\ Owed(t, bcast)
<1> DEFINE t == [s EXCEPT !.holding = h]
<1>1. t \in Slave(n) /\ t.addr = s.addr
  <2>1. t \in Slave(n)
    BY SlaveUpdates
  <2> QED BY <2>1, SlaveFields
<1>2. /\ t.cnt_responses = s.cnt_responses /\ t.cnt_broadcast = s.cnt_broadcast
      /\ t.cnt_frames_ok = s.cnt_frames_ok /\ t.cnt_exceptions = s.cnt_exceptions
  BY SlaveFields
<1> HIDE DEF t
<1>3. Owed(t, bcast)
  BY <1>2 DEF Owed
<1> QED BY <1>1, <1>3 DEF t

\* Where an answer is owed, an acknowledgement may be sent.
LEMMA OwedIsOwedAnswer ==
  ASSUME NEW n \in Nat, NEW s \in Slave(n), Owed(s, FALSE)
  PROVE  OwedAnswer(s)
<1>1. s.cnt_responses \in Nat /\ s.cnt_exceptions \in Nat
  BY DEF Slave
<1>2. /\ s.cnt_responses + s.cnt_broadcast <= s.cnt_frames_ok - 1
      /\ s.cnt_exceptions <= s.cnt_responses
  BY DEF Owed
<1> QED BY <1>1, <1>2 DEF OwedAnswer

\* Two words are a sequence of words.
LEMMA TwoWords ==
  ASSUME NEW v \in U16, NEW w \in U16
  PROVE  <<v, w>> \in Seq(U16)
  OBVIOUS

\* Function 3: case MB_FC_READ_HOLDING is sound.
LEMMA ReadSound ==
  ASSUME NEW n \in Nat, NEW s \in Slave(n), NEW p \in RequestPdu,
         NEW bcast \in BOOLEAN, Owed(s, bcast)
  PROVE  Sound(n, s.addr, bcast, read_holding(s, p, bcast))
<1> DEFINE regs == [i \in 1 .. p.b |-> s.holding[p.a + i - 1]]
           ack  == [fc |-> p.fc, len |-> 2 + 2 * p.b, code |-> (2 * p.b) % 256, regs |-> regs]
<1>0. p.fc \in Byte /\ p.len \in Nat /\ p.a \in Nat /\ p.b \in Nat
  BY PduFields, WordIsNat
<1>h. s.holding_count = n /\ s.holding \in [0 .. (n - 1) -> U16]
  BY SlaveFields
<1>1. CASE p.len + 3 # 8
  BY <1>1, BadLengthSound DEF read_holding
<1>2. CASE p.len + 3 = 8 /\ bcast
  BY <1>2, SilentSound DEF read_holding
<1>3. CASE /\ p.len + 3 = 8 /\ ~ bcast
           /\ p.b < 1 \/ p.b > MB_READ_QTY_MAX
  <2>1. Owed(s, FALSE) /\ bcast = FALSE
    BY <1>3
  <2> QED BY <1>0, <1>3, <2>1, ExceptionSound, Codes DEF read_holding
<1>4. CASE /\ p.len + 3 = 8 /\ ~ bcast
           /\ ~ (p.b < 1 \/ p.b > MB_READ_QTY_MAX)
           /\ p.a + p.b > s.holding_count
  <2>1. Owed(s, FALSE) /\ bcast = FALSE
    BY <1>4
  <2> QED BY <1>0, <1>4, <2>1, ExceptionSound, Codes DEF read_holding
<1>5. CASE /\ p.len + 3 = 8 /\ ~ bcast
           /\ ~ (p.b < 1 \/ p.b > MB_READ_QTY_MAX)
           /\ ~ (p.a + p.b > s.holding_count)
  <2>1. Owed(s, FALSE) /\ bcast = FALSE
    BY <1>5
  <2>2. regs \in Seq(U16)
    <3>0. p.a \in Nat /\ p.b \in Nat /\ p.a + p.b <= n
      BY <1>0, <1>5, <1>h
    <3>1. ASSUME NEW i \in 1 .. p.b PROVE s.holding[p.a + i - 1] \in U16
      <4>1. p.a + i - 1 \in 0 .. (n - 1)
        BY <3>0
      <4> QED BY <1>h, <4>1
    <3>2. regs \in [1 .. p.b -> U16]
      BY <3>1, Zenon
    <3> HIDE DEF regs
    <3> QED BY <1>0, <3>2, FunctionIsSeq
  <2>3. ack \in ResponsePdu
    <3>1. (2 * p.b) % 256 \in Byte
      BY <1>0 DEF Byte
    <3>2. 2 + 2 * p.b \in Nat
      BY <1>0
    <3> HIDE DEF regs
    <3> QED BY <1>0, <2>2, <3>1, <3>2 DEF ResponsePdu
  <2>4. read_holding(s, p, bcast) = Respond(s, ack)
    BY <1>5 DEF read_holding
  <2> HIDE DEF ack
  <2> QED BY <2>1, <2>3, <2>4, RespondSound, OwedIsOwedAnswer
<1> QED BY <1>1, <1>2, <1>3, <1>4, <1>5

\* Function 6: case MB_FC_WRITE_SINGLE is sound.
LEMMA WriteSingleSound ==
  ASSUME NEW n \in Nat, NEW s \in Slave(n), NEW p \in RequestPdu,
         NEW bcast \in BOOLEAN, Owed(s, bcast)
  PROVE  Sound(n, s.addr, bcast, write_single(s, p, bcast))
<1> DEFINE h   == [s.holding EXCEPT ![p.a] = p.b]
           t   == [s EXCEPT !.holding = h]
           ack == [fc |-> p.fc, len |-> 5, code |-> 0, regs |-> <<p.a, p.b>>]
<1>0. p.fc \in Byte /\ p.len \in Nat /\ p.a \in U16 /\ p.b \in U16 /\ p.a \in Nat
  BY PduFields, WordIsNat
<1>h. s.holding_count = n /\ s.holding \in [0 .. (n - 1) -> U16]
  BY SlaveFields
<1>t. [s EXCEPT !.holding = [@ EXCEPT ![p.a] = p.b]] = t
  OBVIOUS
<1>1. CASE p.len + 3 # 8
  BY <1>1, BadLengthSound DEF write_single
<1>2. CASE p.len + 3 = 8 /\ p.a >= s.holding_count
  BY <1>0, <1>2, RefuseSound, Codes DEF write_single
<1>3. CASE p.len + 3 = 8 /\ ~ (p.a >= s.holding_count)
  <2>1. h \in [0 .. (n - 1) -> U16]
    BY <1>0, <1>3, <1>h
  <2>2. t \in Slave(n) /\ t.addr = s.addr /\ Owed(t, bcast)
    <3> HIDE DEF h
    <3> QED BY <2>1, StoredShape
  <2>3. CASE bcast
    <3>1. write_single(s, p, bcast) = Silent(t)
      BY <1>3, <2>3, <1>t DEF write_single
    <3> HIDE DEF t
    <3> QED BY <2>2, <3>1, SilentSound
  <2>4. CASE ~ bcast
    <3>1. write_single(s, p, bcast) = Respond(t, ack)
      BY <1>3, <2>4, <1>t DEF write_single
    <3>2. ack \in ResponsePdu
      <4>1. <<p.a, p.b>> \in Seq(U16)
        BY <1>0, TwoWords
      <4> QED BY <1>0, <4>1 DEF ResponsePdu, Byte
    <3>3. Owed(t, FALSE) /\ bcast = FALSE
      BY <2>2, <2>4
    <3> HIDE DEF t, ack
    <3> QED BY <2>2, <3>1, <3>2, <3>3, RespondSound, OwedIsOwedAnswer
  <2> QED BY <2>3, <2>4
<1> QED BY <1>1, <1>2, <1>3

\* The store loop stays inside the register file, and writes words.
LEMMA StoreAllShape ==
  ASSUME NEW n \in Nat, NEW s \in Slave(n), NEW start \in Nat, NEW qty \in Nat,
         NEW vals \in Seq(U16), Len(vals) = qty,
         NEW bcast \in BOOLEAN, Owed(s, bcast)
  PROVE  LET t == StoreAll(s, start, qty, vals)
         IN  t \in Slave(n) /\ t.addr = s.addr /\ Owed(t, bcast)
<1> DEFINE h == [i \in DOMAIN s.holding |->
                   IF start <= i /\ i < start + qty THEN vals[i - start + 1]
                                                    ELSE s.holding[i]]
<1>1. s.holding \in [0 .. (n - 1) -> U16] /\ DOMAIN s.holding = 0 .. (n - 1)
  BY DEF Slave
<1>2. \A i \in 0 .. (n - 1) :
        start <= i /\ i < start + qty => vals[i - start + 1] \in U16
  <2> SUFFICES ASSUME NEW i \in 0 .. (n - 1), start <= i, i < start + qty
               PROVE  vals[i - start + 1] \in U16
    OBVIOUS
  <2>1. i - start + 1 \in 1 .. Len(vals)
    OBVIOUS
  <2> QED BY <2>1
<1>3. h \in [0 .. (n - 1) -> U16]
  BY <1>1, <1>2
<1>4. StoreAll(s, start, qty, vals) = [s EXCEPT !.holding = h]
  BY DEF StoreAll
<1> HIDE DEF h
<1> QED BY <1>3, <1>4, StoredShape

\* Function 16: case MB_FC_WRITE_MULTIPLE is sound.
LEMMA WriteMultipleSound ==
  ASSUME NEW n \in Nat, NEW s \in Slave(n), NEW p \in RequestPdu,
         NEW bcast \in BOOLEAN, Owed(s, bcast)
  PROVE  Sound(n, s.addr, bcast, write_multiple(s, p, bcast))
<1> DEFINE t     == StoreAll(s, p.a, p.b, p.regs)
           ack   == [fc |-> p.fc, len |-> 5, code |-> 0, regs |-> <<p.a, p.b>>]
           short == p.len + 3 < 9 \/ p.len + 3 # 9 + p.bc
           value == p.b < 1 \/ p.b > MB_WRITE_MULTI_QTY_MAX \/ p.bc # 2 * p.b
           range == p.a + p.b > s.holding_count
<1>0. /\ p.fc \in Byte /\ p.len \in Nat /\ p.a \in U16 /\ p.b \in U16
      /\ p.a \in Nat /\ p.b \in Nat /\ p.regs \in Seq(U16)
      /\ Len(p.regs) = IF p.len >= 6 THEN (p.len - 6) \div 2 ELSE 0
  BY PduFields, WordIsNat
<1>1. CASE short
  BY <1>1, BadLengthSound DEF write_multiple
<1>2. CASE ~ short /\ value
  BY <1>0, <1>2, RefuseSound, Codes DEF write_multiple
<1>3. CASE ~ short /\ ~ value /\ range
  BY <1>0, <1>3, RefuseSound, Codes DEF write_multiple
<1>4. CASE ~ short /\ ~ value /\ ~ range
  <2>1. Len(p.regs) = p.b
    <3>0. p.bc \in Byte
      BY PduFields
    <3>1. p.bc \in Nat
      BY <3>0 DEF Byte
    <3>a. p.len \in Nat /\ p.b \in Nat /\ p.len + 3 = 9 + p.bc /\ p.bc = 2 * p.b
      BY <1>0, <1>4
    <3>2. p.len = 6 + p.bc /\ p.bc = 2 * p.b
      BY <3>1, <3>a
    <3>3. p.len >= 6 /\ p.len - 6 = 2 * p.b
      BY <3>1, <3>2, <3>a
    <3>4. Len(p.regs) = (2 * p.b) \div 2
      BY <1>0, <3>3
    <3> QED BY <3>a, <3>4
  <2>2. t \in Slave(n) /\ t.addr = s.addr /\ Owed(t, bcast)
    <3>1. p.a \in Nat /\ p.b \in Nat /\ p.regs \in Seq(U16)
      BY <1>0
    <3> QED BY <2>1, <3>1, StoreAllShape
  <2>3. CASE bcast
    <3>1. write_multiple(s, p, bcast) = Silent(t)
      BY <1>4, <2>3 DEF write_multiple
    <3> HIDE DEF t
    <3> QED BY <2>2, <3>1, SilentSound
  <2>4. CASE ~ bcast
    <3>1. write_multiple(s, p, bcast) = Respond(t, ack)
      BY <1>4, <2>4 DEF write_multiple
    <3>2. ack \in ResponsePdu
      <4>1. <<p.a, p.b>> \in Seq(U16)
        BY <1>0, TwoWords
      <4> QED BY <1>0, <4>1 DEF ResponsePdu, Byte
    <3>3. Owed(t, FALSE) /\ bcast = FALSE
      BY <2>2, <2>4
    <3> HIDE DEF t, ack
    <3> QED BY <2>2, <3>1, <3>2, <3>3, RespondSound, OwedIsOwedAnswer
  <2> QED BY <2>3, <2>4
<1> HIDE DEF short, value, range
<1> QED BY <1>1, <1>2, <1>3, <1>4

-----------------------------------------------------------------------------
\* A counter that is set to a number leaves a slave a slave.
LEMMA CountBroadcastShape ==
  ASSUME NEW n \in Nat, NEW s \in Slave(n), NEW v \in Nat
  PROVE  /\ [s EXCEPT !.cnt_broadcast = v] \in Slave(n)
         /\ [s EXCEPT !.cnt_broadcast = v].addr = s.addr
<1>1. [s EXCEPT !.cnt_broadcast = v] \in Slave(n)
  BY SlaveUpdates
<1> QED BY <1>1, SlaveFields

\* Counting a frame makes room for its answer.
LEMMA CountFrameShape ==
  ASSUME NEW n \in Nat, NEW s \in Slave(n), Balanced(s), NEW bcast \in BOOLEAN
  PROVE  LET t == CountFrame(s, bcast)
         IN  t \in Slave(n) /\ t.addr = s.addr /\ Owed(t, bcast)
<1> DEFINE t == CountFrame(s, bcast)
<1>0. /\ s.cnt_responses \in Nat /\ s.cnt_broadcast \in Nat
      /\ s.cnt_frames_ok \in Nat /\ s.cnt_exceptions \in Nat
  BY SlaveFields
<1>1. t \in Slave(n) /\ t.addr = s.addr
  <2> DEFINE ok == s.cnt_frames_ok + 1
             bc == IF bcast THEN s.cnt_broadcast + 1 ELSE s.cnt_broadcast
  <2>1. ok \in Nat /\ bc \in Nat
    BY <1>0
  <2>2. t = [s EXCEPT !.cnt_frames_ok = ok, !.cnt_broadcast = bc]
    BY DEF CountFrame
  <2> HIDE DEF ok, bc, t
  <2> DEFINE u == [s EXCEPT !.cnt_frames_ok = ok]
  <2>3. u \in Slave(n) /\ u.addr = s.addr
    <3>1. u \in Slave(n)
      BY <2>1, SlaveUpdates
    <3> QED BY <3>1, SlaveFields
  <2>4. t = [u EXCEPT !.cnt_broadcast = bc]
    BY <2>2
  <2> HIDE DEF u
  <2>5. [u EXCEPT !.cnt_broadcast = bc] \in Slave(n)
        /\ [u EXCEPT !.cnt_broadcast = bc].addr = u.addr
    BY <2>1, <2>3, CountBroadcastShape
  <2> QED BY <2>3, <2>4, <2>5
<1>2. /\ t.cnt_responses = s.cnt_responses /\ t.cnt_exceptions = s.cnt_exceptions
      /\ t.cnt_frames_ok = s.cnt_frames_ok + 1
      /\ t.cnt_broadcast = IF bcast THEN s.cnt_broadcast + 1 ELSE s.cnt_broadcast
  BY SlaveFields DEF CountFrame
<1> HIDE DEF t
<1>3. Owed(t, bcast)
  BY <1>0, <1>2 DEF Owed, Balanced
<1> QED BY <1>1, <1>3 DEF t

(***************************************************************************)
(* mb_slave_handle, whatever it is given: the slave keeps its shape and    *)
(* its counters their balance, an answer is sealed, carries the address    *)
(* that was asked, and is never given to a broadcast.                      *)
(***************************************************************************)
THEOREM HandleSound ==
  ASSUME NEW n \in Nat, NEW s \in Slave(n), Balanced(s), NEW q \in RequestAdu
  PROVE  /\ Sound(n, s.addr, q.addr = MB_ADDR_BROADCAST, mb_slave_handle(s, q))
         /\ mb_slave_handle(s, q).result = "RESPOND" => s.addr = q.addr
<1> DEFINE bcast == q.addr = MB_ADDR_BROADCAST
           ours  == CountFrame(s, bcast)
           o     == mb_slave_handle(s, q)
           bad   == Size(q) < MB_ADU_MIN \/ Size(q) > MB_ADU_MAX
           other == ~ bcast /\ q.addr # s.addr
<1>0. q.pdu \in RequestPdu /\ q.addr \in Byte /\ q.pdu.fc \in Byte
  BY PduFields DEF RequestAdu
<1>b. bcast \in BOOLEAN
  OBVIOUS
<1>1. CASE bad
  <2>1. o = BadLength(s)
    BY <1>1 DEF mb_slave_handle
  <2>2. Sound(n, s.addr, bcast, BadLength(s))
    BY <1>b, BadLengthKeeps
  <2>3. BadLength(s).result # "RESPOND"
    BY DEF BadLength
  <2> QED BY <2>1, <2>2, <2>3
<1>2. CASE ~ bad /\ ~ q.crc_ok
  <2>1. o = BadCrc(s)
    BY <1>2 DEF mb_slave_handle
  <2>2. Sound(n, s.addr, bcast, BadCrc(s))
    BY <1>b, BadCrcKeeps
  <2>3. BadCrc(s).result # "RESPOND"
    BY DEF BadCrc
  <2> QED BY <2>1, <2>2, <2>3
<1>3. CASE ~ bad /\ q.crc_ok /\ other
  <2>1. o = Silent(s)
    BY <1>3 DEF mb_slave_handle
  <2>2. Sound(n, s.addr, bcast, Silent(s))
    BY Absent DEF Sound, Shaped, Silent
  <2>3. Silent(s).result # "RESPOND"
    BY DEF Silent
  <2> QED BY <2>1, <2>2, <2>3
<1>4. CASE ~ bad /\ q.crc_ok /\ ~ other
  <2>1. ours \in Slave(n) /\ ours.addr = s.addr /\ Owed(ours, bcast)
    BY <1>b, CountFrameShape
  <2>2. o = IF q.pdu.fc = MB_FC_READ_HOLDING THEN read_holding(ours, q.pdu, bcast)
            ELSE IF q.pdu.fc = MB_FC_WRITE_SINGLE THEN write_single(ours, q.pdu, bcast)
            ELSE IF q.pdu.fc = MB_FC_WRITE_MULTIPLE THEN write_multiple(ours, q.pdu, bcast)
            ELSE other_function(ours, q.pdu, bcast)
    BY <1>4 DEF mb_slave_handle
  <2> HIDE DEF ours, o
  <2>b. bcast \in BOOLEAN
    BY <1>b
  <2>3. Sound(n, s.addr, bcast, read_holding(ours, q.pdu, bcast))
    BY <1>0, <2>b, <2>1, ReadSound
  <2>4. Sound(n, s.addr, bcast, write_single(ours, q.pdu, bcast))
    BY <1>0, <2>b, <2>1, WriteSingleSound
  <2>5. Sound(n, s.addr, bcast, write_multiple(ours, q.pdu, bcast))
    BY <1>0, <2>b, <2>1, WriteMultipleSound
  <2>6. Sound(n, s.addr, bcast, other_function(ours, q.pdu, bcast))
    BY <1>0, <2>b, <2>1, RefuseSound, Codes DEF other_function
  <2>7. Sound(n, s.addr, bcast, o)
    BY <2>2, <2>3, <2>4, <2>5, <2>6
  <2>8. o.result = "RESPOND" => s.addr = q.addr
    BY <1>4, <2>7 DEF Sound, Shaped
  <2> QED BY <2>7, <2>8 DEF o
<1> QED BY <1>1, <1>2, <1>3, <1>4

-----------------------------------------------------------------------------
(***************************************************************************)
(* What a call does to the registers, and what its answer says of them.    *)
(***************************************************************************)
Acknowledges(o) == o.resp # <<>> /\ o.resp[1].pdu.fc < 128

\* The answer is a frame, fits the caller's buffer, and its byte count describes
\* the words that follow it.
Fits(o) ==
  o.resp # <<>> =>
    /\ MB_ADU_MIN <= Size(o.resp[1]) /\ Size(o.resp[1]) <= MB_ADU_MAX
    /\ o.resp[1].pdu.fc = MB_FC_READ_HOLDING =>
         o.resp[1].pdu.code = 2 * Len(o.resp[1].pdu.regs)

\* What p asks to have written is in h.
Stores(p, h) ==
  /\ p.fc = MB_FC_WRITE_SINGLE => p.a \in DOMAIN h /\ h[p.a] = p.b
  /\ p.fc = MB_FC_WRITE_MULTIPLE =>
       \A i \in 0 .. (p.b - 1) : p.a + i \in DOMAIN h /\ h[p.a + i] = p.regs[i + 1]

Effect(s, p, bcast, o) ==
  /\ Fits(o)
  /\ Acknowledges(o) => Stores(p, o.slave.holding)
  /\ o.slave.holding # s.holding => bcast \/ Acknowledges(o)

\* Counting leaves the registers alone, and storing stores.
LEMMA RecordHolding ==
  ASSUME NEW A, NEW C, NEW H, NEW N, NEW s \in SlaveRecord(A, C, H, N), NEW v
  PROVE  /\ [s EXCEPT !.cnt_len_err = v].holding = s.holding
         /\ [s EXCEPT !.cnt_crc_err = v].holding = s.holding
         /\ [s EXCEPT !.cnt_exceptions = v].holding = s.holding
         /\ [s EXCEPT !.cnt_responses = v].holding = s.holding
         /\ [s EXCEPT !.holding = v].holding = v
  BY DEF SlaveRecord

\* Counting leaves the registers alone, of a slave.
LEMMA SlaveHolding ==
  ASSUME NEW n, NEW s \in Slave(n), NEW v
  PROVE  /\ [s EXCEPT !.cnt_len_err = v].holding = s.holding
         /\ [s EXCEPT !.cnt_crc_err = v].holding = s.holding
         /\ [s EXCEPT !.cnt_exceptions = v].holding = s.holding
         /\ [s EXCEPT !.cnt_responses = v].holding = s.holding
         /\ [s EXCEPT !.holding = v].holding = v
<1> DEFINE H == [0 .. (n - 1) -> U16]
           C == {n}
<1>1. s \in SlaveRecord(Byte, C, H, Nat)
  BY Zenon DEF Slave, SlaveRecord
<1> HIDE DEF H, C
<1> QED BY <1>1, RecordHolding

\* A call that answers nothing and changes no register.
LEMMA QuietEffect ==
  ASSUME NEW s, NEW p, NEW bcast \in BOOLEAN, NEW o, o.resp = <<>>,
         o.slave.holding = s.holding
  PROVE  Effect(s, p, bcast, o)
  BY DEF Effect, Fits, Acknowledges

\* The three ways to be quiet.
LEMMA QuietOutcomes ==
  ASSUME NEW n \in Nat, NEW s \in Slave(n), NEW p, NEW bcast \in BOOLEAN
  PROVE  /\ Effect(s, p, bcast, Silent(s)) /\ Effect(s, p, bcast, BadLength(s))
         /\ Effect(s, p, bcast, BadCrc(s))
<1> DEFINE u == [s EXCEPT !.cnt_len_err = s.cnt_len_err + 1]
           w == [s EXCEPT !.cnt_crc_err = s.cnt_crc_err + 1]
<1>1. /\ Silent(s) = [slave |-> s, result |-> "SILENT", resp |-> <<>>]
      /\ BadLength(s) = [slave |-> u, result |-> "BAD_LENGTH", resp |-> <<>>]
      /\ BadCrc(s) = [slave |-> w, result |-> "BAD_CRC", resp |-> <<>>]
  BY DEF Silent, BadLength, BadCrc
<1>5. u.holding = s.holding /\ w.holding = s.holding
  BY SlaveHolding
<1> HIDE DEF u, w
<1>2. Silent(s).resp = <<>> /\ Silent(s).slave.holding = s.holding
  BY <1>1
<1>3. BadLength(s).resp = <<>> /\ BadLength(s).slave.holding = s.holding
  BY <1>1, <1>5
<1>4. BadCrc(s).resp = <<>> /\ BadCrc(s).slave.holding = s.holding
  BY <1>1, <1>5
<1> QED BY <1>2, <1>3, <1>4, QuietEffect

\* The parts of an answer.
LEMMA RespondParts ==
  ASSUME NEW n \in Nat, NEW t \in Slave(n), NEW pdu
  PROVE  /\ Respond(t, pdu).slave.holding = t.holding
         /\ Respond(t, pdu).resp # <<>> /\ Respond(t, pdu).resp[1].pdu = pdu
         /\ Size(Respond(t, pdu).resp[1]) = 1 + pdu.len + 2
<1>1. [t EXCEPT !.cnt_responses = t.cnt_responses + 1].holding = t.holding
  BY SlaveHolding
<1>2. Respond(t, pdu).resp = <<seal(t.addr, pdu)>> /\ seal(t.addr, pdu).pdu = pdu
  BY DEF Respond, seal
<1>3. Respond(t, pdu).slave = [t EXCEPT !.cnt_responses = t.cnt_responses + 1]
  BY DEF Respond
<1>4. Respond(t, pdu).resp # <<>> /\ Respond(t, pdu).resp[1].pdu = pdu
  BY <1>2
<1> QED BY <1>1, <1>3, <1>4 DEF Size

\* An exception is short, is not an acknowledgement, and changes no register.
LEMMA ExceptionEffect ==
  ASSUME NEW n \in Nat, NEW s \in Slave(n), NEW p, NEW bcast \in BOOLEAN,
         NEW fc \in Byte, NEW ex
  PROVE  Effect(s, p, bcast, slave_make_exception(s, fc, ex))
<1> DEFINE t == [s EXCEPT !.cnt_exceptions = s.cnt_exceptions + 1]
           e == ExceptionPdu(fc, ex)
           o == Respond(t, e)
<1>1. t \in Slave(n) /\ t.holding = s.holding
  <2>1. s.cnt_exceptions + 1 \in Nat
    BY SlaveFields
  <2> DEFINE x == s.cnt_exceptions + 1
  <2> HIDE DEF x
  <2>2. [s EXCEPT !.cnt_exceptions = x] \in Slave(n)
        /\ [s EXCEPT !.cnt_exceptions = x].holding = s.holding
    BY <2>1, SlaveUpdates, SlaveHolding DEF x
  <2> QED BY <2>2 DEF x
<1>2. e.len = 2 /\ e.fc >= 128 /\ e.fc \in Nat
  BY DEF ExceptionPdu, ExceptionFc, Byte
<1>3. slave_make_exception(s, fc, ex) = o
  BY DEF slave_make_exception
<1> HIDE DEF t, e
<1>4. /\ o.slave.holding = t.holding /\ o.resp[1].pdu = e /\ Size(o.resp[1]) = 1 + e.len + 2
  <2>1. o.slave.holding = t.holding
    BY <1>1, RespondParts, Zenon
  <2>2. o.resp[1].pdu = e
    BY <1>1, RespondParts, Zenon
  <2>3. Size(o.resp[1]) = 1 + e.len + 2
    BY <1>1, RespondParts, Zenon
  <2> QED BY <2>1, <2>2, <2>3
<1> HIDE DEF o
<1>5. ~ Acknowledges(o) /\ Fits(o)
  BY <1>2, <1>4 DEF Acknowledges, Fits, MB_ADU_MIN, MB_ADU_MAX, MB_FC_READ_HOLDING
<1> QED BY <1>1, <1>3, <1>4, <1>5 DEF Effect

\* A refusal: an exception, or silence.
LEMMA RefuseEffect ==
  ASSUME NEW n \in Nat, NEW s \in Slave(n), NEW p, NEW bcast \in BOOLEAN,
         NEW fc \in Byte, NEW ex
  PROVE  Effect(s, p, bcast, Refuse(s, bcast, fc, ex))
<1>1. CASE bcast
  BY <1>1, QuietOutcomes DEF Refuse
<1>2. CASE ~ bcast
  BY <1>2, ExceptionEffect DEF Refuse
<1> QED BY <1>1, <1>2

\* A broadcast changes registers and is not answered.
LEMMA StoredSilently ==
  ASSUME NEW s, NEW t, NEW p
  PROVE  Effect(s, p, TRUE, Silent(t))
  BY DEF Effect, Fits, Acknowledges, Silent

\* An acknowledgement of p by the slave t, which has stored what p asks for.
LEMMA AckEffect ==
  ASSUME NEW n \in Nat, NEW s, NEW t \in Slave(n), NEW p, NEW bcast \in BOOLEAN, NEW ack,
         ack.fc = p.fc, p.fc \in Nat, p.fc < 128, MB_ADU_MIN <= 1 + ack.len + 2,
         1 + ack.len + 2 <= MB_ADU_MAX,
         ack.fc = MB_FC_READ_HOLDING => ack.code = 2 * Len(ack.regs),
         Stores(p, t.holding)
  PROVE  Effect(s, p, bcast, Respond(t, ack))
<1> DEFINE o == Respond(t, ack)
<1>1. /\ o.slave.holding = t.holding /\ o.resp # <<>> /\ o.resp[1].pdu = ack
      /\ Size(o.resp[1]) = 1 + ack.len + 2
  BY RespondParts
<1> HIDE DEF o
<1>2. Acknowledges(o) /\ Fits(o)
  BY <1>1 DEF Acknowledges, Fits
<1> QED BY <1>1, <1>2 DEF Effect, o

\* The longest answer to a read: 125 words, whose byte count fits a byte.
LEMMA ReadLimits ==
  ASSUME NEW q \in Nat, ~ (q < 1 \/ q > MB_READ_QTY_MAX)
  PROVE  /\ (2 * q) % 256 = 2 * q
         /\ MB_ADU_MIN <= 1 + (2 + 2 * q) + 2 /\ 1 + (2 + 2 * q) + 2 <= MB_ADU_MAX
<1>1. q \in 1 .. 125
  BY DEF MB_READ_QTY_MAX
<1> QED BY <1>1 DEF MB_ADU_MIN, MB_ADU_MAX

\* Function 3 changes nothing, and its answer fits up to the quantity limit.
LEMMA ReadEffect ==
  ASSUME NEW n \in Nat, NEW s \in Slave(n), NEW p \in RequestPdu, p.fc = MB_FC_READ_HOLDING,
         NEW bcast \in BOOLEAN
  PROVE  Effect(s, p, bcast, read_holding(s, p, bcast))
<1> DEFINE regs == [i \in 1 .. p.b |-> s.holding[p.a + i - 1]]
           ack  == [fc |-> p.fc, len |-> 2 + 2 * p.b, code |-> (2 * p.b) % 256, regs |-> regs]
           range == p.a + p.b > s.holding_count
           value == p.b < 1 \/ p.b > MB_READ_QTY_MAX
<1>0. p.fc \in Byte /\ p.len \in Nat /\ p.b \in Nat
  BY PduFields, WordIsNat
<1>1. CASE p.len + 3 # 8
  BY <1>1, QuietOutcomes DEF read_holding
<1>2. CASE p.len + 3 = 8 /\ bcast
  BY <1>2, QuietOutcomes DEF read_holding
<1>3. CASE p.len + 3 = 8 /\ ~ bcast /\ (value \/ range)
  BY <1>0, <1>3, ExceptionEffect DEF read_holding
<1>4. CASE p.len + 3 = 8 /\ ~ bcast /\ ~ value /\ ~ range
  <2>1. read_holding(s, p, bcast) = Respond(s, ack)
    BY <1>4 DEF read_holding
  <2>3. /\ (2 * p.b) % 256 = 2 * p.b
        /\ MB_ADU_MIN <= 1 + (2 + 2 * p.b) + 2 /\ 1 + (2 + 2 * p.b) + 2 <= MB_ADU_MAX
    BY <1>0, <1>4, ReadLimits
  <2>4. Len(regs) = p.b
    BY <1>0
  <2> DEFINE len  == 2 + 2 * p.b
             code == (2 * p.b) % 256
  <2> HIDE DEF regs
  <2>5. /\ ack.fc = p.fc /\ MB_ADU_MIN <= 1 + ack.len + 2 /\ 1 + ack.len + 2 <= MB_ADU_MAX
        /\ ack.code = 2 * Len(ack.regs)
    <3>1. MB_ADU_MIN <= 1 + len + 2 /\ 1 + len + 2 <= MB_ADU_MAX /\ code = 2 * Len(regs)
      BY <2>3, <2>4
    <3>2. ack = [fc |-> p.fc, len |-> len, code |-> code, regs |-> regs]
      OBVIOUS
    <3> HIDE DEF ack, len, code
    <3> QED BY <3>1, <3>2
  <2> HIDE DEF ack
  <2>6. Stores(p, s.holding) /\ p.fc \in Nat /\ p.fc < 128
    BY DEF Stores, MB_FC_READ_HOLDING, MB_FC_WRITE_SINGLE, MB_FC_WRITE_MULTIPLE
  <2> QED BY <2>1, <2>5, <2>6, AckEffect
<1> HIDE DEF range, value
<1> QED BY <1>1, <1>2, <1>3, <1>4

\* Function 6 stores its value, or nothing.
LEMMA WriteSingleEffect ==
  ASSUME NEW n \in Nat, NEW s \in Slave(n), NEW p \in RequestPdu, p.fc = MB_FC_WRITE_SINGLE,
         NEW bcast \in BOOLEAN
  PROVE  Effect(s, p, bcast, write_single(s, p, bcast))
<1> DEFINE h   == [s.holding EXCEPT ![p.a] = p.b]
           t   == [s EXCEPT !.holding = h]
           ack == [fc |-> p.fc, len |-> 5, code |-> 0, regs |-> <<p.a, p.b>>]
<1>0. p.fc \in Byte /\ p.len \in Nat /\ p.a \in Nat /\ p.b \in U16
  BY PduFields, WordIsNat
<1>h. s.holding_count = n /\ s.holding \in [0 .. (n - 1) -> U16]
  BY SlaveFields
<1>t. [s EXCEPT !.holding = [@ EXCEPT ![p.a] = p.b]] = t
  OBVIOUS
<1>1. CASE p.len + 3 # 8
  BY <1>1, QuietOutcomes DEF write_single
<1>2. CASE p.len + 3 = 8 /\ p.a >= s.holding_count
  BY <1>0, <1>2, RefuseEffect DEF write_single
<1>3. CASE p.len + 3 = 8 /\ ~ (p.a >= s.holding_count) /\ bcast
  <2>1. write_single(s, p, bcast) = Silent(t) /\ bcast = TRUE
    BY <1>3, <1>t DEF write_single
  <2> HIDE DEF t
  <2> QED BY <2>1, StoredSilently
<1>4. CASE p.len + 3 = 8 /\ ~ (p.a >= s.holding_count) /\ ~ bcast
  <2>1. write_single(s, p, bcast) = Respond(t, ack)
    BY <1>4, <1>t DEF write_single
  <2>2. h \in [0 .. (n - 1) -> U16] /\ p.a \in DOMAIN h /\ h[p.a] = p.b
    BY <1>0, <1>4, <1>h
  <2>3. ack.fc = p.fc /\ ack.len = 5 /\ MB_ADU_MIN <= 1 + 5 + 2 /\ 1 + 5 + 2 <= MB_ADU_MAX
    BY DEF MB_ADU_MIN, MB_ADU_MAX
  <2> HIDE DEF h, ack
  <2>4. t \in Slave(n) /\ t.holding = h
    BY <2>2, SlaveUpdates, SlaveHolding
  <2> HIDE DEF t
  <2>5. /\ Stores(p, t.holding) /\ p.fc \in Nat /\ p.fc < 128
        /\ p.fc # MB_FC_READ_HOLDING
    BY <2>2, <2>4 DEF Stores, MB_FC_WRITE_SINGLE, MB_FC_WRITE_MULTIPLE, MB_FC_READ_HOLDING
  <2> QED BY <2>1, <2>3, <2>4, <2>5, AckEffect
<1> QED BY <1>1, <1>2, <1>3, <1>4

\* The store loop stores every word.
LEMMA StoreAllStores ==
  ASSUME NEW n \in Nat, NEW s \in Slave(n), NEW start \in Nat, NEW qty \in Nat, NEW vals,
         start + qty <= n
  PROVE  LET t == StoreAll(s, start, qty, vals)
         IN  /\ DOMAIN t.holding = 0 .. (n - 1)
             /\ \A i \in 0 .. (qty - 1) : /\ start + i \in 0 .. (n - 1)
                                         /\ t.holding[start + i] = vals[i + 1]
<1> DEFINE t == StoreAll(s, start, qty, vals)
           h == [i \in DOMAIN s.holding |->
                   IF start <= i /\ i < start + qty THEN vals[i - start + 1]
                                                    ELSE s.holding[i]]
<1>1. t.holding = h
  <2>1. t = [s EXCEPT !.holding = h]
    BY DEF StoreAll
  <2> HIDE DEF h, t
  <2> QED BY <2>1, SlaveHolding
<1>2. DOMAIN s.holding = 0 .. (n - 1)
  BY SlaveFields
<1>3. DOMAIN h = 0 .. (n - 1)
  BY <1>2
<1>4. ASSUME NEW i \in 0 .. (qty - 1)
      PROVE  start + i \in 0 .. (n - 1) /\ h[start + i] = vals[i + 1]
  <2>1. /\ start + i \in 0 .. (n - 1) /\ start <= start + i /\ start + i < start + qty
        /\ start + i - start + 1 = i + 1
    BY <1>4
  <2> DEFINE j == start + i
  <2>2. h[start + i] = vals[start + i - start + 1]
    <3>1. j \in DOMAIN s.holding /\ start <= j /\ j < start + qty
      BY <1>2, <2>1
    <3> HIDE DEF j
    <3>2. h[j] = vals[j - start + 1]
      BY <3>1
    <3> QED BY <3>2 DEF j
  <2> QED BY <2>1, <2>2
<1> HIDE DEF h, t
<1> QED BY <1>1, <1>3, <1>4 DEF t

\* Function 16 stores all its words, or none.
LEMMA WriteMultipleEffect ==
  ASSUME NEW n \in Nat, NEW s \in Slave(n), NEW p \in RequestPdu, p.fc = MB_FC_WRITE_MULTIPLE,
         NEW bcast \in BOOLEAN, Owed(s, bcast)
  PROVE  Effect(s, p, bcast, write_multiple(s, p, bcast))
<1> DEFINE t     == StoreAll(s, p.a, p.b, p.regs)
           ack   == [fc |-> p.fc, len |-> 5, code |-> 0, regs |-> <<p.a, p.b>>]
           short == p.len + 3 < 9 \/ p.len + 3 # 9 + p.bc
           value == p.b < 1 \/ p.b > MB_WRITE_MULTI_QTY_MAX \/ p.bc # 2 * p.b
           range == p.a + p.b > s.holding_count
<1>0. /\ p.fc \in Byte /\ p.len \in Nat /\ p.bc \in Byte
      /\ p.a \in Nat /\ p.b \in Nat /\ p.regs \in Seq(U16)
      /\ Len(p.regs) = IF p.len >= 6 THEN (p.len - 6) \div 2 ELSE 0
  BY PduFields, WordIsNat
<1>h. s.holding_count = n /\ s.holding \in [0 .. (n - 1) -> U16]
  BY SlaveFields
<1>1. CASE short
  BY <1>1, QuietOutcomes DEF write_multiple
<1>2. CASE ~ short /\ (value \/ range)
  BY <1>0, <1>2, RefuseEffect DEF write_multiple
<1>3. CASE ~ short /\ ~ value /\ ~ range /\ bcast
  <2>1. write_multiple(s, p, bcast) = Silent(t) /\ bcast = TRUE
    BY <1>3 DEF write_multiple
  <2> HIDE DEF t
  <2> QED BY <2>1, StoredSilently
<1>4. CASE ~ short /\ ~ value /\ ~ range /\ ~ bcast
  <2>1. write_multiple(s, p, bcast) = Respond(t, ack)
    BY <1>4 DEF write_multiple
  <2>2. Len(p.regs) = p.b /\ p.a + p.b <= n
    <3>0. p.bc \in Byte
      BY PduFields
    <3>1. p.bc \in Nat
      BY <3>0 DEF Byte
    <3>2. p.len \in Nat /\ p.b \in Nat /\ p.len + 3 = 9 + p.bc /\ p.bc = 2 * p.b
      BY <1>0, <1>4
    <3>5. p.a + p.b <= n
      <4>1. p.a \in Nat /\ p.b \in Nat /\ ~ (p.a + p.b > n)
        BY <1>0, <1>4, <1>h
      <4> QED BY <4>1
    <3>3. p.len >= 6 /\ p.len - 6 = 2 * p.b
      BY <3>1, <3>2
    <3>4. Len(p.regs) = (2 * p.b) \div 2
      BY <1>0, <3>3
    <3> QED BY <3>2, <3>4, <3>5
  <2>n. p.a \in Nat /\ p.b \in Nat /\ p.regs \in Seq(U16)
    BY <1>0
  <2>3. t \in Slave(n)
    BY <2>n, <2>2, StoreAllShape
  <2>4. /\ DOMAIN t.holding = 0 .. (n - 1)
        /\ \A i \in 0 .. (p.b - 1) : /\ p.a + i \in 0 .. (n - 1)
                                     /\ t.holding[p.a + i] = p.regs[i + 1]
    <3> DEFINE Stored(st, q, v, u) ==
                 /\ DOMAIN u.holding = 0 .. (n - 1)
                 /\ \A i \in 0 .. (q - 1) : /\ st + i \in 0 .. (n - 1)
                                            /\ u.holding[st + i] = v[i + 1]
    <3>1. \A st, q \in Nat : \A v : st + q <= n => Stored(st, q, v, StoreAll(s, st, q, v))
      BY StoreAllStores, Zenon
    <3> HIDE DEF Stored
    <3>2. Stored(p.a, p.b, p.regs, t)
      BY <2>n, <2>2, <3>1, Zenon
    <3> QED BY <3>2 DEF Stored
  <2>5. ack.fc = p.fc /\ ack.len = 5 /\ MB_ADU_MIN <= 1 + 5 + 2 /\ 1 + 5 + 2 <= MB_ADU_MAX
    BY DEF MB_ADU_MIN, MB_ADU_MAX
  <2> HIDE DEF t, ack
  <2>7. /\ Stores(p, t.holding) /\ p.fc \in Nat /\ p.fc < 128
        /\ p.fc # MB_FC_READ_HOLDING
    BY <2>4 DEF Stores, MB_FC_WRITE_SINGLE, MB_FC_WRITE_MULTIPLE, MB_FC_READ_HOLDING
  <2> QED BY <2>1, <2>3, <2>5, <2>7, AckEffect
<1> HIDE DEF short, value, range
<1> QED BY <1>1, <1>2, <1>3, <1>4

(***************************************************************************)
(* mb_slave_handle, whatever it is given: its answer is a frame of at most *)
(* MB_ADU_MAX bytes that counts its words right, an acknowledged write is  *)
(* in the registers, and nothing but such a write or a broadcast changes a *)
(* register.                                                               *)
(***************************************************************************)
THEOREM HandleEffect ==
  ASSUME NEW n \in Nat, NEW s \in Slave(n), Balanced(s), NEW q \in RequestAdu
  PROVE  Effect(s, q.pdu, q.addr = MB_ADDR_BROADCAST, mb_slave_handle(s, q))
<1> DEFINE bcast == q.addr = MB_ADDR_BROADCAST
           ours  == CountFrame(s, bcast)
           o     == mb_slave_handle(s, q)
           bad   == Size(q) < MB_ADU_MIN \/ Size(q) > MB_ADU_MAX
           other == ~ bcast /\ q.addr # s.addr
           p     == q.pdu
<1>0. p \in RequestPdu /\ p.fc \in Byte
  BY PduFields DEF RequestAdu
<1>b. bcast \in BOOLEAN
  OBVIOUS
<1>1. CASE bad \/ ~ q.crc_ok \/ other
  <2>1. o \in {BadLength(s), BadCrc(s), Silent(s)}
    BY <1>1 DEF mb_slave_handle
  <2> HIDE DEF o, p
  <2> QED BY <1>b, <2>1, QuietOutcomes DEF o, p
<1>2. CASE ~ bad /\ q.crc_ok /\ ~ other
  <2>1. ours \in Slave(n) /\ Owed(ours, bcast)
    BY <1>b, CountFrameShape
  <2>2. ours.holding = s.holding
    BY SlaveFields DEF CountFrame
  <2>3. o = IF p.fc = MB_FC_READ_HOLDING THEN read_holding(ours, p, bcast)
            ELSE IF p.fc = MB_FC_WRITE_SINGLE THEN write_single(ours, p, bcast)
            ELSE IF p.fc = MB_FC_WRITE_MULTIPLE THEN write_multiple(ours, p, bcast)
            ELSE other_function(ours, p, bcast)
    BY <1>2 DEF mb_slave_handle
  <2> HIDE DEF ours, o, p, bcast
  <2>4. Effect(ours, p, bcast, o)
    BY <1>0, <1>b, <2>1, <2>3, ReadEffect, WriteSingleEffect, WriteMultipleEffect,
       RefuseEffect DEF other_function
  <2> QED BY <2>2, <2>4 DEF Effect, p, o, bcast
<1> QED BY <1>1, <1>2
=============================================================================
