--------------------------- MODULE MCStreamServer ---------------------------
(***************************************************************************)
(* Masters that send up to three items, the bytes of several in one        *)
(* segment or of one in many.                                              *)
(***************************************************************************)
EXTENDS StreamServer

MCFrame(txn, unit, pdu) ==
  [transaction_id |-> txn, protocol_id |-> 0, unit_id |-> unit, pdu |-> pdu]

FrameItem(f) == [kind |-> "frame", bytes |-> encode(f)]
Bad(bytes)   == [kind |-> "bad", bytes |-> bytes]
Unfinished(f, n)   == [kind |-> "tail", bytes |-> SubSeq(encode(f), 1, n)]

Shortest == MCFrame(258, 17, <<7>>)
Longest  == MCFrame(7, 255, [i \in 1 .. MAX_PDU |-> 256 - i])
Longer   == MCFrame(65535, 0, <<3, 0, 1>>)

\* Wrong protocol, lengths 0, 1 and 255.
BadItems ==
  { Bad(Header(1, 256, 2, 17)), Bad(Header(2, 0, 0, 17)),
    Bad(Header(3, 0, 1, 17)), Bad(Header(4, 0, 255, 17) \o <<3>>) }

Frames == { FrameItem(Shortest), FrameItem(Longer) }
Tails  == { Unfinished(Shortest, 5), Unfinished(Longer, 9) }

MCSent ==
  { <<a>> : a \in Frames \cup BadItems \cup Tails } \cup
  { <<a, b>> : a \in Frames, b \in Frames \cup BadItems \cup Tails } \cup
  { << FrameItem(Longest), FrameItem(Shortest) >> } \cup
  { <<a, b, c>> : a \in Frames \cup BadItems, b \in Frames, c \in Frames }

MCAnswerPdus == { <<131, 11>>, <<6, 0, 1>> }
=============================================================================
