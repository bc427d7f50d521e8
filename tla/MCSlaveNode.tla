---------------------------- MODULE MCSlaveNode ----------------------------
(***************************************************************************)
(* A slave with 130 registers, more than one read may ask for, fed with    *)
(* frames at every limit the code tests: quantities around 1, 125 and 123, *)
(* ranges that end at, cross and wrap around the register file, lengths    *)
(* that disagree with the function code or with the byte count.            *)
(***************************************************************************)
EXTENDS SlaveNode

Words(n) == [i \in 1 .. n |-> 1000 + i]

Short(fc, len, a, b) ==
  [fc |-> fc, len |-> len, a |-> a, b |-> b, bc |-> 0, regs |-> <<>>]

Multi(a, qty, bc) ==
  [fc |-> 16, len |-> 6 + bc, a |-> a, b |-> qty, bc |-> bc,
   regs |-> Words(bc \div 2)]

Reads  == { Short(3, 5, a, q) : a \in {0, 5, 129, 65535},
                                q \in {0, 1, 2, 125, 126, 130} }
Writes == { Short(6, 5, a, v) : a \in {0, 129, 130, 65535}, v \in {7, 65535} }
Multis == { Multi(a, q, 2 * q) : a \in {0, 7, 128, 129, 65535},
                                 q \in {1, 2, 123} }
Odd    == { Short(1, 1, 0, 0), Short(131, 5, 0, 0),   \* unknown functions
            Short(3, 4, 0, 1), Short(6, 6, 0, 1),     \* wrong length
            Short(16, 5, 0, 1),                       \* no byte count
            Multi(0, 0, 0), Multi(0, 124, 246), Multi(0, 2, 2),
            [Multi(0, 2, 4) EXCEPT !.bc = 3],         \* count and length differ
            Short(3, 0, 0, 0), Short(3, 254, 0, 0) }  \* ADU of 3 and 257 bytes

Pdus == Reads \cup Writes \cup Multis \cup
        { IF p.len >= 6 THEN [p EXCEPT !.regs = Words((p.len - 6) \div 2)] ELSE p :
            p \in Odd }

MCFrames ==
  [addr : {0, 17}, pdu : Pdus, crc_ok : {TRUE}] \cup
  [addr : {34}, pdu : Writes, crc_ok : {TRUE}] \cup
  [addr : {17}, pdu : Writes, crc_ok : {FALSE}]
=============================================================================
