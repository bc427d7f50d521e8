---------------------------- MODULE StreamServer ----------------------------
(***************************************************************************)
(* One connection of the TCP server: serve_client of src/main.cpp.  The    *)
(* master's bytes arrive in pieces cut anywhere; the thread assembles them *)
(* in buf, decodes every frame that is complete, hands it to the gateway   *)
(* and sends the answer, possibly in several pieces, before it drops the   *)
(* frame's bytes from buf.                                                 *)
(*                                                                         *)
(* The gateway is its promise: handle answers a frame with the frame's own *)
(* transaction id and unit (RoutingInvariant of InProcessGateway) and one  *)
(* of a few PDUs.                                                          *)
(***************************************************************************)
EXTENDS Mbap

CONSTANTS
  Sent,        \* what masters may send: sequences of items (see Item)
  AnswerPdus,  \* the PDUs the gateway may answer with
  ChunkSize,   \* sizeof(chunk)
  SendSize     \* the most send() takes at once

(***************************************************************************)
(* A master sends items.  A good one is a frame: a header of protocol 0    *)
(* and the number of bytes its length field says.  Anything else has a     *)
(* header the decoder must refuse, or is the beginning of a frame that the *)
(* master never finishes.  Every sequence of bytes can be cut into such    *)
(* items, up to what follows the first bad one.                            *)
(***************************************************************************)
Lengths == 2 .. 1 + MAX_PDU

WholeFrame(b) == Len(b) > MBAP_HEADER_LEN /\ Word(b, 3) = 0
                 /\ Word(b, 5) \in Lengths /\ Len(b) = 6 + Word(b, 5)

BadHeader(b) == Len(b) >= MBAP_HEADER_LEN /\ (Word(b, 3) # 0 \/ Word(b, 5) \notin Lengths)

CutShort(b) ==
  Len(b) >= MBAP_HEADER_LEN =>
    Word(b, 3) = 0 /\ Word(b, 5) \in Lengths /\ Len(b) < 6 + Word(b, 5)

Item ==
  { it \in [kind : {"frame", "bad", "tail"}, bytes : Seq(MbapByte)] :
      /\ it.kind = "frame" => WholeFrame(it.bytes)
      /\ it.kind = "bad"   => BadHeader(it.bytes)
      /\ it.kind = "tail"  => CutShort(it.bytes) }

ASSUME StreamAssumption ==
  /\ Sent \subseteq Seq(Item)
  /\ \A its \in Sent : \A k \in DOMAIN its : its[k].kind = "tail" => k = Len(its)
  /\ AnswerPdus \subseteq Seq(MbapByte)
  /\ ChunkSize \in Nat \ {0} /\ SendSize \in Nat \ {0}

VARIABLES
  items,     \* what this master sends
  arrived,   \* how many of them recv has returned
  buf,       \* the stream assembler
  out,       \* the answer being sent
  sent,      \* how much of it send() has taken
  consumed,  \* r.consumed of the frame being answered
  pc,        \* "while", "recv", "drain", "send", "closed"
  peer,      \* the master's end: "open", "eof" (sends no more), "gone"
  running,   \* g_running
  malformed, \* this connection's share of stats.malformed
  answered,  \* history: the frames handed to the gateway, as they were decoded
  replies,   \* history: the bytes of all answers so far
  wire       \* history: the bytes send() has taken so far

reply   == <<out, sent, consumed>>
world   == <<items, peer, running>>
history == <<answered, replies, wire>>
vars    == <<items, peer, running, arrived, buf, out, sent, consumed, pc,
             malformed, answered, replies, wire>>

\* The bytes of a sequence of items, one after the other.
Bytes(its) ==
  LET upto[k \in 0 .. Len(its)] ==
        IF k = 0 THEN <<>> ELSE upto[k - 1] \o its[k].bytes
  IN  upto[Len(its)]

Stream == Bytes(items)

Init ==
  /\ items \in Sent
  /\ arrived = 0
  /\ buf = <<>> /\ out = <<>> /\ sent = 0 /\ consumed = 0
  /\ pc = "while" /\ peer = "open" /\ running = TRUE
  /\ malformed = 0
  /\ answered = <<>> /\ replies = <<>> /\ wire = <<>>

-----------------------------------------------------------------------------
(***************************************************************************)
(* The environment: the master stops sending or goes away, and a signal    *)
(* handler clears g_running.                                               *)
(***************************************************************************)
PeerFinishes ==
  /\ peer = "open" /\ arrived = Len(Stream)
  /\ peer' = "eof"
  /\ UNCHANGED <<items, arrived, buf, pc, running, malformed, reply, history>>

PeerGone ==
  /\ peer # "gone" /\ pc # "closed"
  /\ peer' = "gone"
  /\ UNCHANGED <<items, arrived, buf, pc, running, malformed, reply, history>>

on_signal ==
  /\ running /\ pc # "closed"
  /\ running' = FALSE
  /\ UNCHANGED <<items, arrived, buf, pc, peer, malformed, reply, history>>

-----------------------------------------------------------------------------
\* while (g_running)
WhileRunning ==
  /\ pc = "while"
  /\ pc' = IF running THEN "recv" ELSE "closed"
  /\ UNCHANGED <<arrived, buf, malformed, world, reply, history>>

\* Defect: a fresh buffer for every recv, one segment taken for one frame.
Recv_Fresh ==
  /\ pc = "recv"
  /\ \E n \in 1 .. ChunkSize :
       /\ arrived + n <= Len(Stream)
       /\ buf' = SubSeq(Stream, arrived + 1, arrived + n)
       /\ arrived' = arrived + n
  /\ pc' = "drain"
  /\ UNCHANGED <<malformed, world, reply, history>>

\* recv returns n > 0 bytes.  Bytes may be there to read after the peer went.
Recv ==
  /\ pc = "recv"
  /\ \E n \in 1 .. ChunkSize :
       /\ arrived + n <= Len(Stream)
       /\ buf' = buf \o SubSeq(Stream, arrived + 1, arrived + n)
       /\ arrived' = arrived + n
  /\ pc' = "drain"
  /\ UNCHANGED <<malformed, world, reply, history>>

\* Defect: a recv that returns 0 is tried again.
RecvEnds_Retry ==
  /\ pc = "recv" /\ peer # "open"
  /\ pc' = "while"
  /\ UNCHANGED <<arrived, buf, malformed, world, reply, history>>

\* recv returns 0 or -1: break, close.
RecvEnds ==
  /\ pc = "recv" /\ peer # "open"
  /\ pc' = "closed"
  /\ UNCHANGED <<arrived, buf, malformed, world, reply, history>>

\* The frame is not complete: out of the for loop.
DrainNeedsMore ==
  /\ pc = "drain"
  /\ decode(buf).frame = <<>> /\ decode(buf).error = "NeedMoreData"
  /\ pc' = "while"
  /\ UNCHANGED <<arrived, buf, malformed, world, reply, history>>

\* Defect: a framing error is counted and the stream read on.
DrainFramingError_GoOn ==
  /\ pc = "drain"
  /\ decode(buf).frame = <<>> /\ decode(buf).error # "NeedMoreData"
  /\ malformed' = malformed + 1
  /\ pc' = "while"
  /\ UNCHANGED <<arrived, buf, world, reply, history>>

\* A framing error: counted, closed.
DrainFramingError ==
  /\ pc = "drain"
  /\ decode(buf).frame = <<>> /\ decode(buf).error # "NeedMoreData"
  /\ malformed' = malformed + 1
  /\ pc' = "closed"
  /\ UNCHANGED <<arrived, buf, world, reply, history>>

\* gw.handle(*r.frame), encode.
DrainFrame ==
  /\ pc = "drain"
  /\ decode(buf).frame # <<>>
  /\ \E pdu \in AnswerPdus :
       LET f   == decode(buf).frame[1]
           rsp == [transaction_id |-> f.transaction_id, protocol_id |-> 0,
                   unit_id |-> f.unit_id, pdu |-> pdu]
       IN  /\ out' = encode(rsp)
           /\ replies' = replies \o encode(rsp)
           /\ answered' = Append(answered, f)
  /\ sent' = 0
  /\ consumed' = decode(buf).consumed
  /\ pc' = "send"
  /\ UNCHANGED <<arrived, buf, malformed, wire, world>>

\* Defect: the next send starts over.
Send_Again ==
  /\ pc = "send" /\ sent < Len(out) /\ peer # "gone"
  /\ \E w \in 1 .. SendSize :
       /\ sent + w <= Len(out)
       /\ wire' = wire \o SubSeq(out, 1, w)
       /\ sent' = sent + w
  /\ UNCHANGED <<arrived, buf, out, consumed, pc, malformed, answered, replies, world>>

\* send takes w > 0 bytes.  It is assumed to return: the master reads its
\* answers, or is gone (Server has the send that blocks).
Send ==
  /\ pc = "send" /\ sent < Len(out) /\ peer # "gone"
  /\ \E w \in 1 .. SendSize :
       /\ sent + w <= Len(out)
       /\ wire' = wire \o SubSeq(out, sent + 1, sent + w)
       /\ sent' = sent + w
  /\ UNCHANGED <<arrived, buf, out, consumed, pc, malformed, answered, replies, world>>

\* Defect: the -1 of a failed send is added up.
SendFails_Unchecked ==
  /\ pc = "send" /\ sent < Len(out) /\ peer = "gone"
  /\ sent' = sent - 1
  /\ UNCHANGED <<arrived, buf, out, consumed, pc, malformed, world, history>>

\* send fails: close.
SendFails ==
  /\ pc = "send" /\ sent < Len(out) /\ peer = "gone"
  /\ pc' = "closed"
  /\ UNCHANGED <<arrived, buf, malformed, world, reply, history>>

\* Defect: the whole buffer is dropped, pipelined requests with it.
Erase_All ==
  /\ pc = "send" /\ sent = Len(out)
  /\ buf' = <<>>
  /\ pc' = "drain"
  /\ UNCHANGED <<arrived, malformed, world, reply, history>>

\* Defect: one frame for each recv.
Erase_One ==
  /\ pc = "send" /\ sent = Len(out)
  /\ buf' = SubSeq(buf, consumed + 1, Len(buf))
  /\ pc' = "while"
  /\ UNCHANGED <<arrived, malformed, world, reply, history>>

\* The answer is out: buf.erase, and round the for loop again.
Erase ==
  /\ pc = "send" /\ sent = Len(out)
  /\ buf' = SubSeq(buf, consumed + 1, Len(buf))
  /\ pc' = "drain"
  /\ UNCHANGED <<arrived, malformed, world, reply, history>>

ServeStep ==
  \/ WhileRunning \/ Recv \/ RecvEnds
  \/ DrainNeedsMore \/ DrainFramingError \/ DrainFrame
  \/ Send \/ SendFails \/ Erase

Next == ServeStep \/ PeerFinishes \/ PeerGone \/ on_signal

\* The thread runs; the peer and the operator do as they like.
Spec == Init /\ [][Next]_vars /\ WF_vars(ServeStep)

-----------------------------------------------------------------------------
\* The connection's state.
TypeOK ==
  /\ items \in Sent /\ arrived \in 0 .. Len(Stream)
  /\ buf \in Seq(MbapByte) /\ out \in Seq(MbapByte)
  /\ sent \in 0 .. Len(out) /\ consumed \in Nat
  /\ pc \in {"while", "recv", "drain", "send", "closed"}
  /\ peer \in {"open", "eof", "gone"} /\ running \in BOOLEAN
  /\ malformed \in Nat
  /\ answered \in Seq(MbapFrame)
  /\ replies \in Seq(MbapByte) /\ wire \in Seq(MbapByte)

\* The first k items, and how many the thread is through with.
First(k) == SubSeq(items, 1, k)
Through  == Len(answered) - (IF pc = "send" THEN 1 ELSE 0)

(***************************************************************************)
(* mbap.hpp:79: however TCP cuts the stream, the frames handed to the      *)
(* gateway are the frames the master sent, in its order, none twice, none  *)
(* skipped and none out of the bytes of two; and none that follows bytes   *)
(* the decoder refused.                                                    *)
(***************************************************************************)
AnswersTheFramesSent ==
  /\ Len(answered) <= Len(items)
  /\ \A k \in DOMAIN answered :
       items[k].kind = "frame" /\ encode(answered[k]) = items[k].bytes

(***************************************************************************)
(* The assembler of serve_client loses and repeats nothing: the frames it  *)
(* is through with and the bytes in buf are all the bytes recv returned.   *)
(***************************************************************************)
BufferIsTheRest ==
  pc # "closed" => Bytes(First(Through)) \o buf = SubSeq(Stream, 1, arrived)

(***************************************************************************)
(* When serve_client goes back to wait for the master, what it has         *)
(* received holds no complete frame (a pipelining master would wait for    *)
(* ever) and no complete bad header (the master would never be told).      *)
(***************************************************************************)
NothingLeftBehind ==
  LET k == Len(answered) + 1
  IN  pc \in {"while", "recv"} /\ k \in DOMAIN items =>
        /\ items[k].kind = "frame" => arrived < Len(Bytes(First(k)))
        /\ items[k].kind = "bad" =>
             arrived < Len(Bytes(First(k - 1))) + MBAP_HEADER_LEN

(***************************************************************************)
(* The send loop: the master receives the answers whole, one after the     *)
(* other, however send() cuts them; only the end of the connection may cut *)
(* the last one short.                                                     *)
(***************************************************************************)
AnswersArriveWhole ==
  /\ Len(wire) <= Len(replies) /\ wire = SubSeq(replies, 1, Len(wire))
  /\ pc \in {"while", "recv", "drain"} => wire = replies

(***************************************************************************)
(* malformed counts framing errors: one for a connection that was closed   *)
(* because of one, with every frame before the bad bytes answered, and     *)
(* none for a master that just leaves in the middle of a frame.            *)
(***************************************************************************)
MalformedIsTheBadItem ==
  malformed # 0 =>
    /\ malformed = 1 /\ pc = "closed"
    /\ Len(answered) + 1 \in DOMAIN items
    /\ items[Len(answered) + 1].kind = "bad"

\* The items before the first that is no frame.
Good == { k \in DOMAIN items : \A j \in 1 .. k : items[j].kind = "frame" }

(***************************************************************************)
(* A master that stays connected has all the frames it completed answered, *)
(* as long as no signal stops the gateway.  It has to read its answers:    *)
(* Send assumes that.                                                      *)
(***************************************************************************)
EveryFrameAnswered ==
  <>( peer # "open" \/ ~ running \/ \A k \in Good : k \in DOMAIN answered )

(***************************************************************************)
(* A connection whose master has left ends: the worker does not outlive it.*)
(* A master that only closed its sending side still reads its answers.     *)
(***************************************************************************)
EndsWithThePeer == (peer # "open") ~> (pc = "closed")
=============================================================================
