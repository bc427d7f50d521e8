-------------------------- MODULE SlaveNodeProofs --------------------------
(***************************************************************************)
(* A slave of rtu-core, fed with any frames, for any address and number of *)
(* registers: its type, its counters, its answers and its registers, from  *)
(* what HandleSound and HandleEffect say of one call.                      *)
(***************************************************************************)
EXTENDS SlaveNode, ModbusSlaveProofs, SequenceTheorems

\* The inductive invariant: CountersAgree needs only the slave's type, and the
\* other two are about the last call alone, of a slave that has this type.
NodeInv == TypeOK /\ CountersAgree /\ ReplyFits /\ AckedWriteIsStored

\* The constants, without the bound of RegCount, which no step needs.
LEMMA NodeConstants == RegCount \in Nat /\ Addr \in Byte /\ Frames \subseteq RequestAdu
  BY NodeAssumption, WordIsNat

\* The slave mb_slave_init leaves is sound.
LEMMA NodeInit == Init => NodeInv
<1> SUFFICES ASSUME Init PROVE NodeInv
  BY Zenon
<1>1. RegCount \in Nat /\ Addr \in Byte
  BY NodeConstants
<1>2. slave \in Slave(RegCount)
  BY <1>1, InitIsSlave DEF Init
<1>3. CountersAgree
  BY SMT DEF Init, mb_slave_init, CountersAgree
<1>4. <<>> \in Seq(Frames) /\ <<>> \in Seq(ResponseAdu)
  OBVIOUS
<1>5. ReplyFits /\ AckedWriteIsStored
  BY EmptySeq DEF Init, ReplyFits, AckedWriteIsStored
<1> QED BY <1>2, <1>3, <1>4, <1>5 DEF NodeInv, TypeOK, Init, Results

\* One call, as HandleSound and HandleEffect have it.
LEMMA NodeCall ==
  ASSUME NodeInv, NEW f \in Frames, Handle(f)
  PROVE  LET o == mb_slave_handle(slave, f)
             b == f.addr = MB_ADDR_BROADCAST
         IN  /\ Sound(RegCount, slave.addr, b, o) /\ Effect(slave, f.pdu, b, o)
             /\ slave' = o.slave /\ req' = <<f>> /\ fed' = fed + 1
             /\ out' = [result |-> o.result, resp |-> o.resp]
<1>1. /\ RegCount \in Nat /\ slave \in Slave(RegCount) /\ Balanced(slave)
      /\ f \in RequestAdu
  BY NodeConstants DEF NodeInv, TypeOK, CountersAgree, Balanced
<1>2. /\ Sound(RegCount, slave.addr, f.addr = MB_ADDR_BROADCAST, mb_slave_handle(slave, f))
      /\ Effect(slave, f.pdu, f.addr = MB_ADDR_BROADCAST, mb_slave_handle(slave, f))
  BY <1>1, HandleSound, HandleEffect
<1> QED BY <1>2 DEF Handle

\* The one answer of a call, if there is one.
LEMMA OneAnswer ==
  ASSUME NEW o \in Optional(ResponseAdu)
  PROVE  /\ o = <<>> => DOMAIN o = {}
         /\ o # <<>> => DOMAIN o = {1}
<1>1. o \in Seq(ResponseAdu) /\ Len(o) <= 1
  BY DEF Optional
<1>2. Len(o) \in Nat /\ DOMAIN o = 1 .. Len(o) /\ (Len(o) = 0 <=> o = <<>>)
  BY <1>1, LenProperties, EmptySeq
<1> QED BY <1>1, <1>2

\* What the last call acknowledged, in terms of its outcome.
LEMMA LastCall ==
  ASSUME NEW o, o.resp \in Optional(ResponseAdu),
         out' = [result |-> o.result, resp |-> o.resp]
  PROVE  Acked' <=> Acknowledges(o)
<1>1. out'.resp = o.resp
  OBVIOUS
<1>2. /\ o.resp = <<>> => DOMAIN o.resp = {}
      /\ o.resp # <<>> => DOMAIN o.resp = {1}
  BY OneAnswer
<1> QED BY <1>1, <1>2 DEF Acked, Acknowledges

\* And every frame keeps it so.
LEMMA NodeStep == NodeInv /\ [Next]_vars => NodeInv'
<1> SUFFICES ASSUME NodeInv, [Next]_vars PROVE NodeInv'
  OBVIOUS
<1>1. CASE UNCHANGED vars
  BY <1>1 DEF vars, NodeInv, TypeOK, CountersAgree, ReplyFits, AckedWriteIsStored, Acked
<1>2. CASE Next
  <2>1. PICK f \in Frames : Handle(f)
    BY <1>2 DEF Next
  <2> DEFINE o == mb_slave_handle(slave, f)
             b == f.addr = MB_ADDR_BROADCAST
  <2>2. /\ Sound(RegCount, slave.addr, b, o) /\ Effect(slave, f.pdu, b, o)
        /\ slave' = o.slave /\ req' = <<f>> /\ fed' = fed + 1
        /\ out' = [result |-> o.result, resp |-> o.resp]
    BY <2>1, NodeCall
  <2> HIDE DEF o, b
  <2>3. slave' \in Slave(RegCount) /\ Balanced(slave') /\ slave'.addr = slave.addr
    BY <2>2 DEF Sound, Shaped
  <2>4. /\ out' \in [result : Results, resp : Seq(ResponseAdu)]
        /\ o.resp \in Optional(ResponseAdu)
    BY <2>2 DEF Sound, Shaped, Results, Optional
  <2>5. req' \in Seq(Frames) /\ fed' \in Nat
    BY <2>2 DEF NodeInv, TypeOK
  <2>6. ReplyFits'
    <3>1. out'.resp = o.resp
      BY <2>2
    <3>2. o.resp # <<>> => o.resp[1].addr = slave'.addr
      BY <2>2, <2>3 DEF Sound, Shaped
    <3>3. \A i \in DOMAIN o.resp : o.resp # <<>> /\ i = 1
      BY <2>4, OneAnswer
    <3> QED BY <2>2, <3>1, <3>2, <3>3 DEF ReplyFits, Effect, Fits
  <2>7. AckedWriteIsStored'
    <3>1. Acked' <=> Acknowledges(o)
      BY <2>2, <2>4, LastCall
    <3>2. DOMAIN req' = {1} /\ req'[1] = f
      BY <2>2
    <3> QED BY <2>2, <3>1, <3>2 DEF AckedWriteIsStored, Effect, Stores
  <2> QED BY <2>3, <2>4, <2>5, <2>6, <2>7 DEF NodeInv, TypeOK, CountersAgree, Balanced
<1> QED BY <1>1, <1>2

(***************************************************************************)
(* The slave's state and the outcome of every call keep their type.        *)
(***************************************************************************)
THEOREM NodeTypeCorrect == Spec => []TypeOK
<1>1. NodeInv => TypeOK
  BY DEF NodeInv
<1> QED BY <1>1, NodeInit, NodeStep, PTL DEF Spec

(***************************************************************************)
(* The diagnostic counters agree with each other after any frames at all:  *)
(* answers and broadcasts are disjoint parts of the accepted frames.       *)
(***************************************************************************)
THEOREM CountersAlwaysAgree == Spec => []CountersAgree
<1>1. NodeInv => CountersAgree
  BY DEF NodeInv
<1> QED BY <1>1, NodeInit, NodeStep, PTL DEF Spec

(***************************************************************************)
(* No answer, to any frame, is longer than the caller's buffer, carries a  *)
(* byte count that is not that of its words, or another unit's address.    *)
(***************************************************************************)
THEOREM RepliesFit == Spec => []ReplyFits
<1>1. NodeInv => ReplyFits
  BY DEF NodeInv
<1> QED BY <1>1, NodeInit, NodeStep, PTL DEF Spec

(***************************************************************************)
(* An acknowledged write is in the registers, all of it, for any start,    *)
(* quantity and number of registers: the range check does not wrap.        *)
(***************************************************************************)
THEOREM AckedWritesStored == Spec => []AckedWriteIsStored
<1>1. NodeInv => AckedWriteIsStored
  BY DEF NodeInv
<1> QED BY <1>1, NodeInit, NodeStep, PTL DEF Spec

(***************************************************************************)
(* Only an acknowledged write or a broadcast changes a register.           *)
(***************************************************************************)
THEOREM RefusedKeepsRegisters == Spec => RefusedLeavesRegisters
<1> DEFINE Change == slave'.holding # slave.holding =>
             Acked' \/ (\E k \in DOMAIN req' : req'[k].addr = MB_ADDR_BROADCAST)
<1>1. NodeInv /\ [Next]_vars => [Change]_vars
  <2> SUFFICES ASSUME NodeInv, NEW f \in Frames, Handle(f) PROVE Change
    BY DEF Next
  <2> DEFINE o == mb_slave_handle(slave, f)
             b == f.addr = MB_ADDR_BROADCAST
  <2>1. /\ Sound(RegCount, slave.addr, b, o) /\ Effect(slave, f.pdu, b, o)
        /\ slave' = o.slave /\ req' = <<f>> /\ out' = [result |-> o.result, resp |-> o.resp]
    BY NodeCall
  <2> HIDE DEF o
  <2>2. Acked' <=> Acknowledges(o)
    BY <2>1, LastCall DEF Sound, Shaped
  <2>3. 1 \in DOMAIN req' /\ req'[1] = f
    BY <2>1
  <2> QED BY <2>1, <2>2, <2>3 DEF Effect
<1> QED BY <1>1, NodeInit, NodeStep, PTL DEF Spec, RefusedLeavesRegisters
=============================================================================
