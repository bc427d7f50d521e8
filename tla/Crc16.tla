------------------------------- MODULE Crc16 --------------------------------
(***************************************************************************)
(* The checksum of an RTU frame: mb_crc16 (rtu-core/modbus_crc.c), bit by  *)
(* bit, as the sender of a frame runs it and appends the result, and as    *)
(* the receiver runs it over what came down the line.  The other modules   *)
(* keep one bit of all this, whether the CRC agrees.                       *)
(*                                                                         *)
(* A slave compares the CRC of all bytes but the last two with those two   *)
(* (rtu-core/modbus_slave.c), the gateway wants the CRC of all bytes to be *)
(* zero (src/gateway.cpp); the loop over all bytes passes the slave's      *)
(* value on its way.                                                       *)
(***************************************************************************)
EXTENDS Integers, Sequences, FiniteSets, Bitwise

CONSTANTS
  Bodies,  \* frames without their CRC: sequences of bytes
  Bursts   \* damage: bytes to be xored to consecutive bytes of a frame

ASSUME CrcAssumption ==
  /\ Bodies \subseteq Seq(0 .. 255) /\ << >> \notin Bodies
  /\ Bursts \subseteq Seq(0 .. 255)

VARIABLES
  phase,  \* "send", "line", "receive", "done"
  buf,    \* the bytes, buf of mb_crc16
  i, bit, \* its loop counters; bit is 8 between two bytes
  crc,
  sent,   \* the frame that was sent
  calc    \* the CRC of all but the last two bytes received

vars == <<phase, buf, i, bit, crc, sent, calc>>

Init ==
  /\ phase = "send" /\ buf \in Bodies
  /\ i = 0 /\ bit = 8 /\ crc = 65535
  /\ sent = << >> /\ calc = 0

-----------------------------------------------------------------------------
Running == phase \in {"send", "receive"}

\* crc ^= buf[i]
NextByte ==
  /\ Running /\ bit = 8 /\ i < Len(buf)
  /\ crc' = crc ^^ buf[i + 1]
  /\ i' = i + 1 /\ bit' = 0
  /\ UNCHANGED <<phase, buf, sent, calc>>

\* Defect: the polynomial of another CRC-16 (CCITT).
Shift_Ccitt ==
  /\ Running /\ bit < 8
  /\ crc' = IF crc % 2 = 1 THEN (crc \div 2) ^^ 33800 ELSE crc \div 2
  /\ bit' = bit + 1
  /\ calc' = IF bit' = 8 /\ phase = "receive" /\ i = Len(buf) - 2 THEN crc' ELSE calc
  /\ UNCHANGED <<phase, buf, i, sent>>

\* One bit of the inner loop; 40961 is 0xA001.
Shift ==
  /\ Running /\ bit < 8
  /\ crc' = IF crc % 2 = 1 THEN (crc \div 2) ^^ 40961 ELSE crc \div 2
  /\ bit' = bit + 1
  /\ calc' = IF bit' = 8 /\ phase = "receive" /\ i = Len(buf) - 2 THEN crc' ELSE calc
  /\ UNCHANGED <<phase, buf, i, sent>>

AtEnd == bit = 8 /\ i = Len(buf)

\* Defect: high byte first.
Append_HighFirst ==
  /\ phase = "send" /\ AtEnd
  /\ buf' = buf \o << crc \div 256, crc % 256 >>
  /\ sent' = buf' /\ phase' = "line"
  /\ UNCHANGED <<i, bit, crc, calc>>

\* tcp_to_rtu, seal: low byte first.
AppendCrc ==
  /\ phase = "send" /\ AtEnd
  /\ buf' = buf \o << crc % 256, crc \div 256 >>
  /\ sent' = buf' /\ phase' = "line"
  /\ UNCHANGED <<i, bit, crc, calc>>

\* The line leaves the frame alone, or damages it in one place.
Deliver ==
  /\ phase = "line"
  /\ \/ UNCHANGED buf
     \/ \E b \in Bursts, k \in 0 .. Len(buf) - 1 :
          /\ k + Len(b) <= Len(buf)
          /\ buf' = [n \in DOMAIN buf |-> IF n - k \in DOMAIN b THEN buf[n] ^^ b[n - k]
                                                                ELSE buf[n]]
  /\ i' = 0 /\ bit' = 8 /\ crc' = 65535
  /\ phase' = "receive"
  /\ UNCHANGED <<sent, calc>>

Received ==
  /\ phase = "receive" /\ AtEnd
  /\ phase' = "done"
  /\ UNCHANGED <<buf, i, bit, crc, sent, calc>>

Next == NextByte \/ Shift \/ AppendCrc \/ Deliver \/ Received

Spec == Init /\ [][Next]_vars

-----------------------------------------------------------------------------
(***************************************************************************)
(* The reference: polynomials over two elements, as the sets of their      *)
(* exponents.  Residue[k] is x^k modulo x^16 + x^15 + x^2 + 1.             *)
(***************************************************************************)
Plus(p, q) == (p \ q) \cup (q \ p)

Residue[k \in Nat] ==
  IF k < 16 THEN {k}
  ELSE LET up == { e + 1 : e \in Residue[k - 1] }
       IN IF 16 \in up THEN Plus(up \ {16}, {0, 2, 15}) ELSE up

\* The remainder of a polynomial: x^e is in it if an odd number of terms have it.
Remainder(p) ==
  { e \in 0 .. 15 : Cardinality({ k \in p : e \in Residue[k] }) % 2 = 1 }

\* The bits of w below 2^n, the first on the line (bit 0) as the highest power.
Bits(w, n) == { n - 1 - t : t \in { u \in 0 .. n - 1 : (w \div 2^u) % 2 = 1 } }

Times(p, k) == { e + k : e \in p }

\* n bytes as a polynomial.
Message(bytes) ==
  UNION { Times(Bits(bytes[j], 8), 8 * (Len(bytes) - j)) : j \in DOMAIN bytes }

\* The message times x^16, with the first sixteen bits inverted.
Reference(bytes) ==
  Remainder(Plus(Times(Message(bytes), 16), Times(0 .. 15, 8 * Len(bytes))))

(***************************************************************************)
(* modbus_crc.h: "CRC-16/MODBUS: poly 0xA001 (reflected 0x8005), init      *)
(* 0xFFFF": after every byte, what mb_crc16 has computed is the remainder  *)
(* of the bytes so far, times x^16, by the polynomial 0x8005.              *)
(***************************************************************************)
CrcIsRemainder ==
  Running /\ bit = 8 => Bits(crc, 16) = Reference(SubSeq(buf, 1, i))

(***************************************************************************)
(* rtu_transport.hpp:130: "Single bit flip; the CRC must catch it".  The   *)
(* slave and the gateway, with their two different tests, accept the same  *)
(* frames, and those are the ones that came as they were sent: no burst,   *)
(* in the CRC itself either, goes unnoticed.                               *)
(***************************************************************************)
DamageIsDetected ==
  LET n == Len(buf)
      slaveAccepts   == calc = buf[n - 1] + 256 * buf[n]
      gatewayAccepts == crc = 0
  IN phase = "done" => (slaveAccepts <=> buf = sent) /\ (gatewayAccepts <=> buf = sent)
=============================================================================
