-------------------------------- MODULE Mbap --------------------------------
(***************************************************************************)
(* The Modbus TCP framing of src/mbap.cpp, on bytes: a header of seven     *)
(* bytes (transaction id, protocol id, length, unit id; words big-endian)  *)
(* and a PDU of at most 253.  The length field counts the unit id and the  *)
(* PDU, and is all that tells where the next frame of a stream begins.     *)
(***************************************************************************)
EXTENDS Integers, Sequences

MbapByte == 0 .. 255
MbapWord == 0 .. 65535

MBAP_HEADER_LEN == 7
MAX_PDU         == 253

MbapFrame ==
  [transaction_id : MbapWord, protocol_id : MbapWord, unit_id : MbapByte,
   pdu : Seq(MbapByte)]

DecodeError == {"NeedMoreData", "BadProtocolId", "LengthTooSmall", "LengthTooLarge"}

\* (data[i] << 8) | data[i + 1]
Word(s, i) == 256 * s[i] + s[i + 1]

-----------------------------------------------------------------------------
\* A DecodeResult: <<frame>> and the bytes it takes, or <<>> and why not.
Failed(e) == [frame |-> <<>>, error |-> e, consumed |-> 0]

Decoded(f, n) == [frame |-> <<f>>, error |-> "NeedMoreData", consumed |-> n]

\* Bytes of a frame whose length field is n: six precede what it counts.
Total(n) == 6 + n

\* Defect: waits for a frame's bytes before it looks at the length.
decode_LengthLast(s) ==
  IF Len(s) < MBAP_HEADER_LEN THEN Failed("NeedMoreData")
  ELSE IF Word(s, 3) # 0 THEN Failed("BadProtocolId")
  ELSE IF Len(s) < Total(Word(s, 5)) THEN Failed("NeedMoreData")
  ELSE IF Word(s, 5) < 2 THEN Failed("LengthTooSmall")
  ELSE IF Word(s, 5) > 1 + MAX_PDU THEN Failed("LengthTooLarge")
  ELSE Decoded([transaction_id |-> Word(s, 1), protocol_id |-> Word(s, 3),
                unit_id |-> s[7],
                pdu |-> SubSeq(s, MBAP_HEADER_LEN + 1, Total(Word(s, 5)))],
               Total(Word(s, 5)))

decode(s) ==
  IF Len(s) < MBAP_HEADER_LEN THEN Failed("NeedMoreData")
  ELSE IF Word(s, 3) # 0 THEN Failed("BadProtocolId")
  ELSE IF Word(s, 5) < 2 THEN Failed("LengthTooSmall")
  ELSE IF Word(s, 5) > 1 + MAX_PDU THEN Failed("LengthTooLarge")
  ELSE IF Len(s) < Total(Word(s, 5)) THEN Failed("NeedMoreData")
  ELSE Decoded([transaction_id |-> Word(s, 1), protocol_id |-> Word(s, 3),
                unit_id |-> s[7],
                pdu |-> SubSeq(s, MBAP_HEADER_LEN + 1, Total(Word(s, 5)))],
               Total(Word(s, 5)))

Header(txn, proto, length, unit) ==
  << txn \div 256, txn % 256, proto \div 256, proto % 256,
     length \div 256, length % 256, unit >>

\* The length is cut to 16 bits.
encode(f) ==
  Header(f.transaction_id, f.protocol_id, (Len(f.pdu) + 1) % 65536, f.unit_id)
    \o f.pdu
=============================================================================
