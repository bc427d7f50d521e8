--------------------------- MODULE SerialGateway ---------------------------
(***************************************************************************)
(* The gateway over a serial line, src/serial_rtu.hpp.  SerialRtu keeps    *)
(* one descriptor, opened when it is first needed and again, after a       *)
(* backoff, when it was lost; a transaction flushes the input, writes the  *)
(* request and reads until the line is silent.                             *)
(*                                                                         *)
(* The devices and the tty are the environment.  A device answers each     *)
(* request it hears with a reading of its own, or not at all, in one piece *)
(* or in two, garbled or not, and, when MayBeLate, after the gateway has   *)
(* given up on it.  The adapter may be pulled out and put back.            *)
(***************************************************************************)
EXTENDS Gateway

CONSTANTS
  Devices,     \* the unit ids that answer
  MayBeLate,   \* bytes may be slower than the timeouts allow for
  MayBabble,   \* there may be noise on the line
  NoiseSize,   \* bytes in a burst of it
  MaxUnplugs,  \* bound: times the adapter is pulled out
  MaxTicks     \* bound: times a backoff is waited for

ASSUME SerialAssumption ==
  /\ Devices \subseteq 1 .. 255
  /\ MayBeLate \in BOOLEAN /\ MayBabble \in BOOLEAN
  /\ NoiseSize \in 1 .. 256
  /\ MaxUnplugs \in Nat /\ MaxTicks \in Nat

VARIABLES
  bus,      \* the threads that hold bus_
  fd,       \* fd_: "closed", "live", or "dead" once the adapter behind it went
  since,    \* time since last_attempt_: "never", "recent" (in the backoff), "old"
  rx,       \* the holder's rsp vector, as the fragments read into it
  books,    \* requests_, replies_, timeouts_, io_errors_, reconnects_
  plugged,  \* the adapter is there
  pend,     \* fragments on their way from the devices
  line,     \* fragments in the tty's input queue
  unplugs, ticks,
  flushes,  \* history: calls of tcflush so far
  asked,    \* history: the requests written, whose they were
  attempts, \* history: calls of open
  stale     \* history: a transaction has begun on this descriptor when dead

portVars  == <<bus, fd, since, rx, books>>
worldVars == <<plugged, pend, line, unplugs, ticks>>
history   == <<flushes, asked, attempts, stale>>
vars == <<pc, req, rsp, stats, log, bus, fd, since, rx, books, plugged, pend, line,
          unplugs, ticks, flushes, asked, attempts, stale>>

BookKeys == {"requests", "replies", "timeouts", "io_errors", "reconnects"}

Init ==
  /\ GatewayInit
  /\ bus = {} /\ fd = "closed" /\ since = "never" /\ rx = <<>>
  /\ books = [k \in BookKeys |-> 0]
  /\ plugged \in BOOLEAN /\ pend = <<>> /\ line = <<>>
  /\ unplugs = 0 /\ ticks = 0
  /\ flushes = 0 /\ asked = <<>> /\ attempts = 0 /\ stale = FALSE

-----------------------------------------------------------------------------
(***************************************************************************)
(* What is on the wire: an answer, whole or its first or second part, or   *)
(* noise.  at is the number of flushes there had been when the fragment    *)
(* reached the input queue.                                                *)
(***************************************************************************)
Noise == [addr |-> 0, pdu |-> [fc |-> 0, len |-> 1, code |-> 0, regs |-> <<>>],
          crc_ok |-> FALSE]

Fragment(adu, part, size) == [adu |-> adu, part |-> part, size |-> size, at |-> 0]

Whole(adu) == Fragment(adu, "whole", Size(adu))
Front(adu) == Fragment(adu, "front", 3)
Back(adu)  == Fragment(adu, "back", Size(adu) - 3)
Burst      == Fragment(Noise, "noise", NoiseSize)

\* The n-th request is answered with the reading n.
Reading(adu, n) ==
  [addr |-> adu.addr, pdu |-> [fc |-> adu.pdu.fc, len |-> 4, code |-> 2, regs |-> <<n>>],
   crc_ok |-> TRUE]

\* What the addressed device may put on the wire.
DeviceAnswers(adu, n) ==
  LET a == Reading(adu, n)
  IN  IF adu.addr \notin Devices THEN { <<>> }
      ELSE { <<>>, <<Whole(a)>>, <<Whole([a EXCEPT !.crc_ok = FALSE])>>,
             <<Front(a), Back(a)>> }

\* The bytes in rx are one answer; anything else fails the CRC.
Assembled ==
  IF Len(rx) = 1 /\ rx[1].part = "whole" THEN rx[1].adu
  ELSE IF /\ Len(rx) = 2 /\ rx[1].part = "front" /\ rx[2].part = "back"
          /\ rx[1].adu = rx[2].adu
    THEN rx[1].adu
  ELSE Noise

BytesOf(s) ==
  LET upto[k \in 0 .. Len(s)] == IF k = 0 THEN 0 ELSE upto[k - 1] + s[k].size
  IN  upto[Len(s)]

-----------------------------------------------------------------------------
\* The environment.
Unplug ==
  /\ plugged /\ unplugs < MaxUnplugs
  /\ plugged' = FALSE /\ unplugs' = unplugs + 1
  /\ fd' = IF fd = "live" THEN "dead" ELSE fd
  /\ pend' = <<>> /\ line' = <<>>
  /\ UNCHANGED <<gatewayVars, bus, since, rx, books, ticks, history>>

Plug ==
  /\ ~ plugged
  /\ plugged' = TRUE
  /\ UNCHANGED <<gatewayVars, portVars, pend, line, unplugs, ticks, history>>

\* The backoff passes.
Tick ==
  /\ since = "recent" /\ ticks < MaxTicks
  /\ since' = "old" /\ ticks' = ticks + 1
  /\ UNCHANGED <<gatewayVars, bus, fd, rx, books, plugged, pend, line, unplugs, history>>

\* The next fragment reaches the tty; nobody keeps it if the port is closed.
Arrive ==
  /\ pend # <<>>
  /\ pend' = Tail(pend)
  /\ line' = IF fd = "live" THEN Append(line, [Head(pend) EXCEPT !.at = flushes])
                            ELSE line
  /\ UNCHANGED <<gatewayVars, portVars, plugged, unplugs, ticks, history>>

\* Noise, while a transaction is past its flush (the flush takes any other).
Babble ==
  /\ MayBabble /\ fd = "live" /\ line = <<>>
  /\ \E c \in Clients : pc[c] \in {"write", "poll"}
  /\ line' = << [Burst EXCEPT !.at = flushes] >>
  /\ UNCHANGED <<gatewayVars, portVars, plugged, pend, unplugs, ticks, history>>

-----------------------------------------------------------------------------
\* SerialRtu::transact, one step between two points where the line may act.
Goto(c, l) == pc' = [pc EXCEPT ![c] = l]

Count(k) == books' = [books EXCEPT ![k] = @ + 1]

\* Defect: bus_ is not taken.
Lock_None(c) ==
  /\ pc[c] = "transact"
  /\ bus' = bus \cup {c}
  /\ Goto(c, "open")
  /\ UNCHANGED <<req, rsp, stats, log, fd, since, rx, books, worldVars, history>>

Lock(c) ==
  /\ pc[c] = "transact" /\ bus = {}
  /\ bus' = {c}
  /\ Goto(c, "open")
  /\ UNCHANGED <<req, rsp, stats, log, fd, since, rx, books, worldVars, history>>

\* transact returns x and lets go of bus_.
Return(c, x) == TransactReturns(c, x) /\ bus' = bus \ {c}

\* ensure_open: there is a descriptor, good or not.
AlreadyOpen(c) ==
  /\ pc[c] = "open" /\ fd # "closed"
  /\ stale' = (fd = "dead")
  /\ Goto(c, "flush")
  /\ UNCHANGED <<req, rsp, stats, log, portVars, worldVars, flushes, asked, attempts>>

\* ensure_open: too soon after the last attempt.
BackOff(c) ==
  /\ pc[c] = "open" /\ fd = "closed" /\ since = "recent"
  /\ Return(c, <<>>)
  /\ UNCHANGED <<req, stats, log, fd, since, rx, books, worldVars, history>>

\* Defect: a successful attempt is not remembered.
Open_Unstamped(c) ==
  /\ pc[c] = "open" /\ fd = "closed" /\ since # "recent" /\ plugged
  /\ attempts' = attempts + 1
  /\ fd' = "live" /\ stale' = FALSE /\ line' = <<>>
  /\ Count("reconnects")
  /\ Goto(c, "flush")
  /\ UNCHANGED <<req, rsp, stats, log, bus, since, rx, plugged, pend, unplugs, ticks,
                 flushes, asked>>

\* ensure_open: the attempt.
Open(c) ==
  /\ pc[c] = "open" /\ fd = "closed" /\ since # "recent" /\ plugged
  /\ since' = "recent" /\ attempts' = attempts + 1
  /\ fd' = "live" /\ stale' = FALSE /\ line' = <<>>
  /\ Count("reconnects")
  /\ Goto(c, "flush")
  /\ UNCHANGED <<req, rsp, stats, log, bus, rx, plugged, pend, unplugs, ticks,
                 flushes, asked>>

\* Defect: the early return forgets the mutex.
OpenFails_KeepsLock(c) ==
  /\ pc[c] = "open" /\ fd = "closed" /\ since # "recent"
  /\ since' = "recent" /\ attempts' = attempts + 1
  /\ TransactReturns(c, <<>>)
  /\ UNCHANGED <<req, stats, log, bus, fd, rx, books, worldVars, flushes, asked, stale>>

\* ensure_open: open fails, or one of the calls that set the port up does.
OpenFails(c) ==
  /\ pc[c] = "open" /\ fd = "closed" /\ since # "recent"
  /\ since' = "recent" /\ attempts' = attempts + 1
  /\ Return(c, <<>>)
  /\ UNCHANGED <<req, stats, log, fd, rx, books, worldVars, flushes, asked, stale>>

\* Defect: the stale input is left in the queue.
Flush_None(c) ==
  /\ pc[c] = "flush"
  /\ flushes' = flushes + 1
  /\ Goto(c, "write")
  /\ UNCHANGED <<req, rsp, stats, log, portVars, worldVars, asked, attempts, stale>>

\* tcflush(fd_, TCIFLUSH).
Flush(c) ==
  /\ pc[c] = "flush"
  /\ line' = <<>>
  /\ flushes' = flushes + 1
  /\ Goto(c, "write")
  /\ UNCHANGED <<req, rsp, stats, log, portVars, plugged, pend, unplugs, ticks, asked,
                 attempts, stale>>

\* The request is on the wire and the addressed device hears it.
Write(c) ==
  /\ pc[c] = "write" /\ fd = "live"
  /\ asked' = Append(asked, [client |-> c, call |-> Len(log[c]) + 1,
                             unit |-> RtuReq(c).addr])
  /\ \E a \in DeviceAnswers(RtuReq(c), Len(asked')) : pend' = pend \o a
  /\ Count("requests")
  /\ rx' = <<>>
  /\ Goto(c, "poll")
  /\ UNCHANGED <<req, rsp, stats, log, bus, fd, since, plugged, line, unplugs, ticks,
                 flushes, attempts, stale>>

\* io_errors_++; close_port(); return false.
IoError(c) ==
  /\ Count("io_errors")
  /\ fd' = "closed"
  /\ rx' = <<>>
  /\ Return(c, <<>>)

\* Defect: the dead descriptor is kept.
WriteFails_NoClose(c) ==
  /\ pc[c] = "write" /\ fd = "dead"
  /\ Count("io_errors")
  /\ Return(c, <<>>)
  /\ UNCHANGED <<req, stats, log, fd, rx, since, worldVars, history>>

WriteFails(c) ==
  /\ pc[c] = "write" /\ fd = "dead"
  /\ IoError(c)
  /\ UNCHANGED <<req, stats, log, since, worldVars, history>>

\* Defect: an empty answer is booked as a reply.
LoopEnds_AllReplies(c, got) ==
  /\ rx' = <<>>
  /\ Count("replies")
  /\ Return(c, got)

\* The end of the loop: nothing came, or what came is the answer.
LoopEnds(c, got) ==
  /\ rx' = <<>>
  /\ IF got = <<>> THEN Count("timeouts") ELSE Count("replies")
  /\ Return(c, got)

\* poll says there is input, and read takes it.
Read(c) ==
  /\ pc[c] = "poll" /\ line # <<>>
  /\ rx' = rx \o line
  /\ line' = <<>>
  /\ Goto(c, IF BytesOf(rx') >= MB_ADU_MAX THEN "full" ELSE "poll")
  /\ UNCHANGED <<req, rsp, stats, log, bus, fd, since, books, plugged, pend, unplugs,
                 ticks, history>>

\* rsp.size() >= MB_ADU_MAX: no more is read.
ReadFull(c) ==
  /\ pc[c] = "full"
  /\ LoopEnds(c, <<Assembled>>)
  /\ UNCHANGED <<req, stats, log, fd, since, worldVars, history>>

\* Silence: for the response timeout before the first byte, for the frame
\* gap after it.
Silence(c) ==
  /\ pc[c] = "poll" /\ fd = "live" /\ line = <<>>
  /\ MayBeLate \/ pend = <<>>
  /\ LoopEnds(c, IF rx = <<>> THEN <<>> ELSE <<Assembled>>)
  /\ UNCHANGED <<req, stats, log, fd, since, worldVars, history>>

\* The adapter went while the thread waited: read returns 0 ...
HangUp(c) ==
  /\ pc[c] = "poll" /\ fd = "dead"
  /\ LoopEnds(c, IF rx = <<>> THEN <<>> ELSE <<Assembled>>)
  /\ UNCHANGED <<req, stats, log, fd, since, worldVars, history>>

\* ... or poll or read fails.
ReadFails(c) ==
  /\ pc[c] = "poll" /\ fd = "dead"
  /\ IoError(c)
  /\ UNCHANGED <<req, stats, log, since, worldVars, history>>

TransportStep(c) ==
  \/ Lock(c) \/ AlreadyOpen(c) \/ BackOff(c) \/ Open(c) \/ OpenFails(c)
  \/ Flush(c) \/ Write(c) \/ WriteFails(c)
  \/ Read(c) \/ ReadFull(c) \/ Silence(c) \/ HangUp(c) \/ ReadFails(c)

CallStep(c) ==
  /\ \E r \in Requests : HandleEmpty(c, r) \/ HandleCall(c, r)
  /\ UNCHANGED <<portVars, worldVars, history>>

\* serve_client gives a connection up, between two calls.
CloseStep(c) ==
  /\ FramingError(c)
  /\ UNCHANGED <<portVars, worldVars, history>>

LeaveStep(c) ==
  /\ HandleTimeout(c) \/ HandleCrcFailure(c) \/ HandleResponse(c)
  /\ UNCHANGED <<portVars, worldVars, history>>

Progress(c) == TransportStep(c) \/ LeaveStep(c)

Environment == Unplug \/ Plug \/ Tick \/ Arrive \/ Babble

Next == (\E c \in Clients : CallStep(c) \/ CloseStep(c) \/ Progress(c)) \/ Environment

\* Threads keep running, and bytes on the wire arrive.
Fairness == (\A c \in Clients : WF_vars(Progress(c))) /\ WF_vars(Arrive)

Spec == Init /\ [][Next]_vars /\ Fairness

-----------------------------------------------------------------------------
\* What comes off the wire.  A reading is the number of a request, and there
\* may be more requests than words.
AnswerPdu == [fc : Byte, len : Nat, code : Byte, regs : Seq(Nat)]
Answer    == [addr : Byte, pdu : AnswerPdu, crc_ok : BOOLEAN]
Forward   == [transaction_id : U16, unit_id : Byte, pdu : AnswerPdu]
Fragments == [adu : Answer, part : {"whole", "front", "back", "noise"},
              size : 1 .. MB_ADU_MAX, at : Nat]

CallersOK ==
  /\ pc \in [Clients -> {"idle", "transact", "open", "flush", "write", "poll",
                         "full", "return", "closed"}]
  /\ req \in [Clients -> Optional(Requests)] /\ rsp \in [Clients -> Optional(Answer)]
  /\ stats \in [Counters -> Nat]
  /\ log \in [Clients -> Seq([req : Requests, rsp : Forward])]

PortOK ==
  /\ bus \subseteq Clients /\ Cardinality(bus) <= 1
  /\ fd \in {"closed", "live", "dead"} /\ since \in {"never", "recent", "old"}
  /\ rx \in Seq(Fragments) /\ books \in [BookKeys -> Nat]

LineOK ==
  /\ plugged \in BOOLEAN /\ pend \in Seq(Fragments) /\ line \in Seq(Fragments)
  /\ unplugs \in 0 .. MaxUnplugs /\ ticks \in 0 .. MaxTicks

HistoryOK ==
  /\ flushes \in Nat /\ attempts \in Nat /\ stale \in BOOLEAN
  /\ asked \in Seq([client : Clients, call : Nat, unit : Byte])

\* The threads, the port, what is on the wire, and the counters.
TypeOK == CallersOK /\ PortOK /\ LineOK /\ HistoryOK

(***************************************************************************)
(* serial_rtu.hpp:55: what was in the input queue when a transaction began *)
(* is never read as part of its answer.                                    *)
(***************************************************************************)
InputIsFresh == \A k \in DOMAIN rx : rx[k].at = flushes

\* The calls that got an answer off the wire, as <<client, index>>, and the
\* number of the request each answer was sent for.
Forwarded ==
  { ci \in Clients \X (1 .. MaxCalls) :
      ci[2] \in DOMAIN log[ci[1]] /\ log[ci[1]][ci[2]].rsp.pdu.fc < 128 }

SentFor(ci) == log[ci[1]][ci[2]].rsp.pdu.regs[1]

(***************************************************************************)
(* serial_rtu.hpp:30, on a line that is late, cut, noisy and unplugged:    *)
(* every answer a master gets is one a device sent, complete, under the    *)
(* unit id of that device, and no answer goes to two calls.                *)
(***************************************************************************)
OnlyWholeAnswers ==
  /\ \A ci \in Forwarded :
       /\ Len(log[ci[1]][ci[2]].rsp.pdu.regs) = 1
       /\ SentFor(ci) \in DOMAIN asked
       /\ log[ci[1]][ci[2]].rsp.unit_id = asked[SentFor(ci)].unit
  /\ \A ci, dj \in Forwarded : SentFor(ci) = SentFor(dj) => ci = dj

(***************************************************************************)
(* Where the line keeps the timing the gateway is configured for, the      *)
(* answer a call gets was sent for that very call.                         *)
(***************************************************************************)
AnswersOwnRequest ==
  \A ci \in Forwarded :
    asked[SentFor(ci)] = [client |-> ci[1], call |-> ci[2],
                          unit |-> log[ci[1]][ci[2]].req.unit_id]

Waiting(none) == { c \in Clients : pc[c] = "return" /\ (rsp[c] = <<>>) = none }

(***************************************************************************)
(* The counters of the two layers, which an operator compares to tell a    *)
(* dead device from a dead adapter (main.cpp:271): a reply on the bus is a *)
(* response or a CRC failure of the gateway, a request on the bus ends as  *)
(* a reply, a timeout or an I/O error, and each of those is a timeout of   *)
(* the gateway.                                                            *)
(***************************************************************************)
BooksAgree ==
  LET polling == Cardinality({ c \in Clients : pc[c] \in {"poll", "full"} })
  IN  /\ books["replies"] = stats["responses"] + stats["crc_failures"]
                            + Cardinality(Waiting(FALSE))
      /\ books["timeouts"] + books["io_errors"]
           <= stats["timeouts"] + Cardinality(Waiting(TRUE))
      /\ books["requests"] - polling - books["replies"] - books["timeouts"]
           \in 0 .. books["io_errors"]

(***************************************************************************)
(* serial_rtu.hpp:62, 90: a descriptor whose adapter went fails at most    *)
(* the call that was using it and the next one; then it is closed, and the *)
(* port can be opened again.                                               *)
(***************************************************************************)
DeadPortIsDropped == bus = {} /\ fd = "dead" => ~ stale

(***************************************************************************)
(* serial_rtu.hpp:127: open is tried once for each backoff that has        *)
(* passed, and once at the start, no matter how many calls fail meanwhile. *)
(***************************************************************************)
BacksOff == attempts <= ticks + 1
=============================================================================
