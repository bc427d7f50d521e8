------------------------ MODULE SerialGatewayProofs ------------------------
(***************************************************************************)
(* The gateway over a serial line, for any number of threads, devices,     *)
(* requests and calls, late or not, noisy or not, with the adapter pulled  *)
(* out any number of times.                                                *)
(*                                                                         *)
(* First the port and the books (Inv), then whose answers the masters get  *)
(* on any line (Routed), then on a line that keeps its timing (Prompt).    *)
(***************************************************************************)
EXTENDS SerialGateway, GatewayProofs

-----------------------------------------------------------------------------
(***************************************************************************)
(* The inductive invariant.                                                *)
(***************************************************************************)
Places == {"idle", "transact", "open", "flush", "write", "poll", "full", "return",
           "closed"}

\* bus_ is held by the one thread that is past the lock in transact.
Inside == { c \in Clients : pc[c] \in {"open", "flush", "write", "poll", "full"} }
Holds == bus = Inside /\ \A c, d \in bus : c = d

\* After the flush the queue holds only what came since; rsp is filled only
\* by the thread that polls.
Fresh ==
  /\ (\E c \in Clients : pc[c] \in {"write", "poll", "full"}) =>
       \A k \in DOMAIN line : line[k].at = flushes
  /\ (\A c \in Clients : pc[c] \notin {"poll", "full"}) => rx = <<>>
  /\ InputIsFresh

\* A transaction that has begun on a dead descriptor has not read from it.
Dropping ==
  /\ stale => fd # "live"
  /\ stale /\ fd = "dead" => \E c \in Clients : pc[c] \in {"flush", "write"}

\* Each attempt to open was paid for by a backoff, except the first.
Paid ==
  /\ since = "never" => attempts = 0
  /\ since = "recent" => attempts <= ticks + 1
  /\ since = "old" => attempts <= ticks

Inv ==
  /\ TypeOK /\ HasRequest /\ Holds /\ Fresh /\ Dropping /\ Paid /\ BooksAgree

-----------------------------------------------------------------------------
\* TypeOK's part on the callers, in the terms of GatewayProofs.
LEMMA CallersTyped ==
  /\ CallersOK <=> Typed(Places, Answer, Forward)
  /\ CallersOK' <=> Typed(Places, Answer, Forward)'
  BY DEF CallersOK, Typed, Places

\* The gateway's own exceptions are among the frames forwarded.
LEMMA ExceptionsForwarded == ResponseFrame \subseteq Forward
<1>1. Seq(U16) \subseteq Seq(Nat)
  <2>1. U16 \subseteq Nat
    BY DEF U16
  <2> SUFFICES ASSUME NEW q \in Seq(U16) PROVE q \in Seq(Nat)
    OBVIOUS
  <2>2. Len(q) \in Nat /\ q \in [1 .. Len(q) -> U16]
    BY LenProperties
  <2>3. q \in [1 .. Len(q) -> Nat]
    BY <2>1, <2>2
  <2> QED BY <2>2, <2>3, FunctionIsSeq
<1>2. ResponsePdu \subseteq AnswerPdu
  BY <1>1 DEF ResponsePdu, AnswerPdu
<1> HIDE DEF ResponsePdu
<1> QED BY <1>2 DEF ResponseFrame, Forward

\* What the wire carries.
LEMMA FragmentFields ==
  ASSUME NEW f \in Fragments
  PROVE  /\ f.adu \in Answer /\ f.part \in {"whole", "front", "back", "noise"}
         /\ f.size \in 1 .. MB_ADU_MAX /\ f.at \in Nat
         /\ \A n \in Nat : /\ [f EXCEPT !.at = n] \in Fragments
                           /\ [f EXCEPT !.at = n].at = n
                           /\ [f EXCEPT !.at = n].adu = f.adu
                           /\ [f EXCEPT !.at = n].part = f.part
                           /\ [f EXCEPT !.at = n].size = f.size
  BY DEF Fragments

\* Noise is an answer whose CRC is wrong.
LEMMA NoiseTyped == Noise \in Answer /\ Noise.crc_ok = FALSE
  BY DEF Noise, Answer, AnswerPdu, Byte

\* A burst of it is a fragment.
LEMMA BurstTyped == Burst \in Fragments
<1>1. NoiseSize \in 1 .. MB_ADU_MAX
  BY SerialAssumption DEF MB_ADU_MAX
<1> QED BY <1>1, NoiseTyped DEF Burst, Fragment, Fragments

\* A reading is an intact answer of the addressed unit.
LEMMA ReadingTyped ==
  ASSUME NEW adu \in RequestAdu, NEW n \in Nat
  PROVE  /\ Reading(adu, n) \in Answer /\ Reading(adu, n).addr = adu.addr
         /\ Reading(adu, n).pdu.regs = <<n>> /\ Size(Reading(adu, n)) = 7
         /\ [Reading(adu, n) EXCEPT !.crc_ok = FALSE] \in Answer
<1>1. adu.addr \in Byte /\ adu.pdu.fc \in Byte /\ 2 \in Byte
  BY PduFields DEF RequestAdu, Byte
<1> DEFINE p == [fc |-> adu.pdu.fc, len |-> 4, code |-> 2, regs |-> <<n>>]
<1>2. <<n>> \in Seq(Nat)
  OBVIOUS
<1>3. p \in AnswerPdu /\ p.len = 4 /\ p.regs = <<n>>
  BY <1>1, <1>2 DEF AnswerPdu
<1>4. Reading(adu, n) = [addr |-> adu.addr, pdu |-> p, crc_ok |-> TRUE]
  BY DEF Reading
<1> HIDE DEF p
<1>5. Reading(adu, n) \in Answer /\ Reading(adu, n).addr = adu.addr /\ Reading(adu, n).pdu = p
  BY <1>1, <1>3, <1>4 DEF Answer
<1>6. \A a \in Answer : [a EXCEPT !.crc_ok = FALSE] \in Answer
  BY DEF Answer
<1>7. Size(Reading(adu, n)) = 7
  BY <1>3, <1>5 DEF Size
<1> QED BY <1>3, <1>5, <1>6, <1>7

\* What a device puts on the wire are fragments.
LEMMA AnswersTyped ==
  ASSUME NEW adu \in RequestAdu, NEW n \in Nat, NEW a \in DeviceAnswers(adu, n)
  PROVE  a \in Seq(Fragments)
<1> DEFINE r == Reading(adu, n)
           b == [r EXCEPT !.crc_ok = FALSE]
<1>1. r \in Answer /\ b \in Answer /\ Size(r) = 7 /\ Size(b) = 7
  BY ReadingTyped DEF Size
<1>2. a \in { <<>>, <<Whole(r)>>, <<Whole(b)>>, <<Front(r), Back(r)>> }
  BY DEF DeviceAnswers
<1> HIDE DEF r, b
<1>3. /\ Whole(r) \in Fragments /\ Whole(b) \in Fragments
      /\ Front(r) \in Fragments /\ Back(r) \in Fragments
  BY <1>1 DEF Whole, Front, Back, Fragment, Fragments, MB_ADU_MAX
<1>4. \A f, g \in Fragments : <<f>> \in Seq(Fragments) /\ <<f, g>> \in Seq(Fragments)
  OBVIOUS
<1>5. <<>> \in Seq(Fragments)
  BY EmptySeq
<1> QED BY <1>2, <1>3, <1>4, <1>5, Zenon

\* What transact makes of its bytes is an answer.
LEMMA AssembledTyped ==
  ASSUME rx \in Seq(Fragments)
  PROVE  Assembled \in Answer
<1>1. CASE Len(rx) >= 1
  <2>1. rx[1] \in Fragments
    BY <1>1, ElementOfSeq, LenProperties
  <2> QED BY <2>1, FragmentFields, NoiseTyped DEF Assembled
<1>2. CASE ~ (Len(rx) >= 1)
  BY <1>2, LenProperties, NoiseTyped DEF Assembled
<1> QED BY <1>1, <1>2

\* The elements of a sequence with one more at its end.
LEMMA Appended ==
  ASSUME NEW S, NEW q \in Seq(S), NEW v \in S
  PROVE  /\ Append(q, v) \in Seq(S) /\ DOMAIN Append(q, v) = 1 .. Len(q) + 1
         /\ Append(q, v)[Len(q) + 1] = v
         /\ \A k \in DOMAIN q : k \in DOMAIN Append(q, v) /\ Append(q, v)[k] = q[k]
         /\ \A k \in DOMAIN Append(q, v) :
              \/ k = Len(q) + 1 /\ Append(q, v)[k] = v
              \/ k \in DOMAIN q /\ Append(q, v)[k] = q[k]
<1>1. Len(q) \in Nat /\ DOMAIN q = 1 .. Len(q)
  BY LenProperties
<1>2. /\ Append(q, v) \in Seq(S) /\ Len(Append(q, v)) = Len(q) + 1
      /\ \A i \in 1 .. Len(q) : Append(q, v)[i] = q[i]
      /\ Append(q, v)[Len(q) + 1] = v
  BY AppendProperties
<1>3. DOMAIN Append(q, v) = 1 .. Len(q) + 1
  BY <1>2, LenProperties
<1> HIDE DEF Append
<1> QED BY <1>1, <1>2, <1>3

-----------------------------------------------------------------------------
\* No more than one thread is on the bus.
LEMMA AtMostOne ==
  ASSUME NEW S \in SUBSET Clients, \A c, d \in S : c = d
  PROVE  Cardinality(S) <= 1
<1>1. CASE S = {}
  BY <1>1, FS_EmptySet
<1>2. ASSUME NEW c \in S PROVE Cardinality(S) <= 1
  <2>1. S = {c}
    BY <1>2
  <2> QED BY <2>1, FS_Singleton
<1> QED BY <1>1, <1>2

-----------------------------------------------------------------------------
\* BooksAgree, as a relation between two sets of counters and three numbers of
\* threads: with an answer in hand, without one, and polling.
WithAnswer == Waiting(FALSE)
WithoutOne == Waiting(TRUE)
Polling == { c \in Clients : pc[c] \in {"poll", "full"} }

Sums(requests, replies, late, errors, responses, crc, none_came, some, none, polling) ==
  /\ replies = responses + crc + some
  /\ late + errors <= none_came + none
  /\ polling + replies + late <= requests
  /\ requests <= polling + replies + late + errors

Agree(b, s, some, none, polling) ==
  Sums(b["requests"], b["replies"], b["timeouts"], b["io_errors"],
       s["responses"], s["crc_failures"], s["timeouts"], some, none, polling)

\* The three numbers.
LEMMA WaitingCounted ==
  /\ Cardinality(WithAnswer) \in Nat /\ Cardinality(WithoutOne) \in Nat
  /\ Cardinality(Polling) \in Nat /\ Cardinality(Polling') \in Nat
<1>1. /\ WithAnswer \in SUBSET Clients /\ WithoutOne \in SUBSET Clients
      /\ Polling \in SUBSET Clients /\ Polling' \in SUBSET Clients
  BY DEF Waiting, WithAnswer, WithoutOne, Polling
<1>2. \A S \in SUBSET Clients : Cardinality(S) \in Nat
  <2> TAKE S \in SUBSET Clients
  <2>1. IsFiniteSet(S)
    BY GatewayAssumption, FS_Subset
  <2> QED BY <2>1, FS_CardinalityType
<1> QED BY <1>1, <1>2

\* A difference within bounds, as two sums.
LEMMA Between ==
  ASSUME NEW b \in [BookKeys -> Nat], NEW p \in Nat
  PROVE  b["requests"] - p - b["replies"] - b["timeouts"] \in 0 .. b["io_errors"]
         <=> /\ p + b["replies"] + b["timeouts"] <= b["requests"]
             /\ b["requests"] <= p + b["replies"] + b["timeouts"] + b["io_errors"]
<1>1. /\ b["requests"] \in Nat /\ b["replies"] \in Nat /\ b["timeouts"] \in Nat
      /\ b["io_errors"] \in Nat
  BY DEF BookKeys
<1> QED BY <1>1

\* BooksAgree as a relation of the books, before and after a step.
LEMMA AgreeForm ==
  /\ books \in [BookKeys -> Nat] =>
       (BooksAgree <=> Agree(books, stats, Cardinality(WithAnswer),
                             Cardinality(WithoutOne), Cardinality(Polling)))
  /\ books' \in [BookKeys -> Nat] =>
       (BooksAgree' <=> Agree(books', stats', Cardinality(WithAnswer'),
                              Cardinality(WithoutOne'), Cardinality(Polling')))
<1>1. BooksAgree <=>
        /\ books["replies"] = stats["responses"] + stats["crc_failures"]
                              + Cardinality(WithAnswer)
        /\ books["timeouts"] + books["io_errors"]
             <= stats["timeouts"] + Cardinality(WithoutOne)
        /\ books["requests"] - Cardinality(Polling) - books["replies"] - books["timeouts"]
             \in 0 .. books["io_errors"]
  BY DEF BooksAgree, Polling, WithAnswer, WithoutOne
<1>2. BooksAgree' <=>
        /\ books'["replies"] = stats'["responses"] + stats'["crc_failures"]
                              + Cardinality(WithAnswer')
        /\ books'["timeouts"] + books'["io_errors"]
             <= stats'["timeouts"] + Cardinality(WithoutOne')
        /\ books'["requests"] - Cardinality(Polling') - books'["replies"] - books'["timeouts"]
             \in 0 .. books'["io_errors"]
  BY DEF BooksAgree, Polling, WithAnswer, WithoutOne
<1>3. Cardinality(Polling) \in Nat /\ Cardinality(Polling') \in Nat
  BY WaitingCounted
<1>4. ASSUME books \in [BookKeys -> Nat]
      PROVE  BooksAgree <=> Agree(books, stats, Cardinality(WithAnswer),
                                  Cardinality(WithoutOne), Cardinality(Polling))
  <2>1. books["requests"] - Cardinality(Polling) - books["replies"] - books["timeouts"]
          \in 0 .. books["io_errors"]
        <=> /\ Cardinality(Polling) + books["replies"] + books["timeouts"] <= books["requests"]
            /\ books["requests"] <= Cardinality(Polling) + books["replies"]
                                    + books["timeouts"] + books["io_errors"]
    BY <1>3, <1>4, Between
  <2> QED BY <1>1, <2>1, Zenon DEF Agree, Sums
<1>5. ASSUME books' \in [BookKeys -> Nat]
      PROVE  BooksAgree' <=> Agree(books', stats', Cardinality(WithAnswer'),
                                   Cardinality(WithoutOne'), Cardinality(Polling'))
  <2>1. books'["requests"] - Cardinality(Polling') - books'["replies"] - books'["timeouts"]
          \in 0 .. books'["io_errors"]
        <=> /\ Cardinality(Polling') + books'["replies"] + books'["timeouts"]
                 <= books'["requests"]
            /\ books'["requests"] <= Cardinality(Polling') + books'["replies"]
                                     + books'["timeouts"] + books'["io_errors"]
    BY <1>3, <1>5, Between
  <2> QED BY <1>2, <2>1, Zenon DEF Agree, Sums
<1> QED BY <1>4, <1>5

\* What BooksAgree says of the numbers, and that they are numbers.
LEMMA BookNumbers ==
  ASSUME Inv
  PROVE  /\ Agree(books, stats, Cardinality(WithAnswer), Cardinality(WithoutOne),
                  Cardinality(Polling))
         /\ books \in [BookKeys -> Nat]
         /\ books["requests"] \in Nat /\ books["replies"] \in Nat /\ books["timeouts"] \in Nat
         /\ books["io_errors"] \in Nat /\ stats["responses"] \in Nat
         /\ stats["timeouts"] \in Nat /\ stats["crc_failures"] \in Nat
<1>1. stats \in [Counters -> Nat] /\ books \in [BookKeys -> Nat]
  BY DEF Inv, TypeOK, CallersOK, PortOK
<1>2. Agree(books, stats, Cardinality(WithAnswer), Cardinality(WithoutOne),
            Cardinality(Polling))
  BY <1>1, AgreeForm DEF Inv
<1> QED BY <1>1, <1>2 DEF Counters, BookKeys

\* How the numbers move: a request is written; a transaction ends before that,
\* with an I/O error, with a reply, or with a timeout; handle books a timeout, a
\* response or a CRC failure.
LEMMA SumsMove ==
  ASSUME Inv
  PROVE  LET rq == books["requests"]
             rp == books["replies"]
             to == books["timeouts"]
             io == books["io_errors"]
             rs == stats["responses"]
             cf == stats["crc_failures"]
             ts == stats["timeouts"]
             some == Cardinality(WithAnswer)
             none == Cardinality(WithoutOne)
             p == Cardinality(Polling)
         IN  /\ Sums(rq + 1, rp, to, io, rs, cf, ts, some, none, p + 1)
             /\ Sums(rq, rp, to, io, rs, cf, ts, some, none + 1, p)
             /\ Sums(rq, rp, to, io + 1, rs, cf, ts, some, none + 1, p)
             /\ Sums(rq, rp, to, io + 1, rs, cf, ts, some, none + 1, p - 1)
             /\ Sums(rq, rp + 1, to, io, rs, cf, ts, some + 1, none, p - 1)
             /\ Sums(rq, rp, to + 1, io, rs, cf, ts, some, none + 1, p - 1)
             /\ Sums(rq, rp, to, io, rs, cf, ts + 1, some, none - 1, p)
             /\ Sums(rq, rp, to, io, rs + 1, cf, ts, some - 1, none, p)
             /\ Sums(rq, rp, to, io, rs, cf + 1, ts, some - 1, none, p)
<1>1. /\ Sums(books["requests"], books["replies"], books["timeouts"], books["io_errors"],
              stats["responses"], stats["crc_failures"], stats["timeouts"],
              Cardinality(WithAnswer), Cardinality(WithoutOne), Cardinality(Polling))
      /\ books["requests"] \in Nat /\ books["replies"] \in Nat /\ books["timeouts"] \in Nat
      /\ books["io_errors"] \in Nat /\ stats["responses"] \in Nat
      /\ stats["timeouts"] \in Nat /\ stats["crc_failures"] \in Nat
      /\ Cardinality(WithAnswer) \in Nat /\ Cardinality(WithoutOne) \in Nat
      /\ Cardinality(Polling) \in Nat
  BY BookNumbers, WaitingCounted, Zenon DEF Agree
<1> QED BY <1>1 DEF Sums

-----------------------------------------------------------------------------
\* The thread on the bus is alone there.
LEMMA Alone ==
  ASSUME Inv, NEW c \in Clients, pc[c] \in {"open", "flush", "write", "poll", "full"}
  PROVE  /\ bus = {c}
         /\ \A d \in Clients : d # c => pc[d] \notin {"open", "flush", "write", "poll", "full"}
  BY DEF Inv, Holds, Inside

\* It goes on: nobody gets on or off the bus, and no answer changes hands.
LEMMA GotoKeeps ==
  ASSUME Inv, NEW c \in Clients, pc[c] \in {"open", "flush", "write", "poll", "full"},
         NEW l \in {"open", "flush", "write", "poll", "full"}, Goto(c, l),
         UNCHANGED <<req, rsp, stats, log, bus>>
  PROVE  /\ CallersOK' /\ HasRequest' /\ Holds'
         /\ \A d \in Clients : pc'[d] = IF d = c THEN l ELSE pc[d]
         /\ WithoutOne' = WithoutOne /\ WithAnswer' = WithAnswer
<1>1. pc \in [Clients -> Places] /\ Typed(Places, Answer, Forward) /\ HasRequest
  BY CallersTyped DEF Inv, TypeOK, CallersOK, Places
<1>2. pc' = [pc EXCEPT ![c] = l] /\ l \in Places
  BY DEF Goto, Places
<1>3. \A d \in Clients : pc'[d] = IF d = c THEN l ELSE pc[d]
  BY <1>1, <1>2
<1>4. CallersOK' /\ HasRequest'
  <2>1. <<>> \in Optional(Answer)
    BY Absent
  <2> QED BY <1>1, <1>2, <2>1, MoveTyped, CallersTyped
<1>5. Holds'
  BY <1>3 DEF Inv, Holds, Inside
<1>6. WithoutOne' = WithoutOne /\ WithAnswer' = WithAnswer
  BY <1>3 DEF Waiting, WithAnswer, WithoutOne
<1> QED BY <1>3, <1>4, <1>5, <1>6

\* It returns x, and the bus is free.
LEMMA ReturnKeeps ==
  ASSUME Inv, NEW c \in Clients, pc[c] \in {"open", "flush", "write", "poll", "full"},
         NEW x \in Optional(Answer), Return(c, x), UNCHANGED <<req, stats, log>>
  PROVE  /\ CallersOK' /\ HasRequest' /\ Holds' /\ bus' = {} /\ Cardinality(bus') <= 1
         /\ \A d \in Clients : pc'[d] \notin {"open", "flush", "write", "poll", "full"}
         /\ Polling' = Polling \ {c} /\ c \notin WithoutOne /\ c \notin WithAnswer
         /\ x = <<>> => WithoutOne' = WithoutOne \cup {c} /\ WithAnswer' = WithAnswer
         /\ x # <<>> => WithAnswer' = WithAnswer \cup {c} /\ WithoutOne' = WithoutOne
<1>1. /\ pc \in [Clients -> Places] /\ Typed(Places, Answer, Forward) /\ HasRequest
      /\ rsp \in [Clients -> Optional(Answer)]
  BY CallersTyped DEF Inv, TypeOK, CallersOK, Places
<1>2. /\ pc' = [pc EXCEPT ![c] = "return"] /\ "return" \in Places
      /\ rsp' = [rsp EXCEPT ![c] = x] /\ bus' = bus \ {c}
  BY DEF Return, TransactReturns, Places
<1>3. /\ \A d \in Clients : pc'[d] = IF d = c THEN "return" ELSE pc[d]
      /\ \A d \in Clients : rsp'[d] = IF d = c THEN x ELSE rsp[d]
  BY <1>1, <1>2
<1>4. CallersOK' /\ HasRequest'
  BY <1>1, <1>2, MoveTyped, CallersTyped
<1>5. bus' = {} /\ \A d \in Clients : pc'[d] \notin {"open", "flush", "write", "poll", "full"}
  BY <1>2, <1>3, Alone
<1>6. Holds' /\ Cardinality(bus') <= 1
  BY <1>5, FS_EmptySet DEF Holds, Inside
<1>7. Polling' = Polling \ {c} /\ c \notin WithoutOne /\ c \notin WithAnswer
  BY <1>3 DEF Polling, Waiting, WithAnswer, WithoutOne
<1>8. x = <<>> => WithoutOne' = WithoutOne \cup {c} /\ WithAnswer' = WithAnswer
  BY <1>3 DEF Waiting, WithAnswer, WithoutOne
<1>9. x # <<>> => WithAnswer' = WithAnswer \cup {c} /\ WithoutOne' = WithoutOne
  BY <1>3 DEF Waiting, WithAnswer, WithoutOne
<1> QED BY <1>4, <1>5, <1>6, <1>7, <1>8, <1>9

\* The books are typed, whatever is counted.
LEMMA CountKeeps ==
  ASSUME Inv, NEW k \in BookKeys, Count(k)
  PROVE  /\ books' \in [BookKeys -> Nat]
         /\ \A j \in BookKeys : books'[j] = IF j = k THEN books[j] + 1 ELSE books[j]
  BY DEF Inv, TypeOK, PortOK, Count

-----------------------------------------------------------------------------
\* What a step leaves alone.
LEMMA Kept ==
  ASSUME Inv
  PROVE  /\ UNCHANGED gatewayVars => CallersOK'
         /\ UNCHANGED portVars => PortOK'
         /\ UNCHANGED worldVars => LineOK'
         /\ UNCHANGED history => HistoryOK'
         /\ UNCHANGED <<pc, req>> => HasRequest'
         /\ UNCHANGED <<pc, bus>> => Holds'
         /\ UNCHANGED <<pc, line, rx, flushes>> => Fresh'
         /\ UNCHANGED <<pc, fd, stale>> => Dropping'
         /\ UNCHANGED <<since, attempts, ticks>> => Paid'
         /\ UNCHANGED <<pc, rsp, books, stats>> => BooksAgree'
<1>1. UNCHANGED gatewayVars => CallersOK'
  BY DEF Inv, TypeOK, CallersOK, gatewayVars
<1>2. UNCHANGED portVars => PortOK'
  BY DEF Inv, TypeOK, PortOK, portVars
<1>3. UNCHANGED worldVars => LineOK'
  BY DEF Inv, TypeOK, LineOK, worldVars
<1>4. UNCHANGED history => HistoryOK'
  BY DEF Inv, TypeOK, HistoryOK, history
<1>5. UNCHANGED <<pc, req>> => HasRequest'
  BY DEF Inv, HasRequest
<1>6. UNCHANGED <<pc, bus>> => Holds'
  BY DEF Inv, Holds, Inside
<1>7. UNCHANGED <<pc, line, rx, flushes>> => Fresh'
  BY DEF Inv, Fresh, InputIsFresh
<1>8. UNCHANGED <<pc, fd, stale>> => Dropping'
  BY DEF Inv, Dropping
<1>9. UNCHANGED <<since, attempts, ticks>> => Paid'
  BY DEF Inv, Paid
<1>10. UNCHANGED <<pc, rsp, books, stats>> => BooksAgree'
  <2> SUFFICES ASSUME UNCHANGED <<pc, rsp, books, stats>> PROVE BooksAgree'
    OBVIOUS
  <2>1. WithoutOne' = WithoutOne /\ WithAnswer' = WithAnswer /\ Polling' = Polling
    BY DEF Waiting, WithAnswer, WithoutOne, Polling
  <2> QED BY <2>1, AgreeForm, BookNumbers
<1> QED BY <1>1, <1>2, <1>3, <1>4, <1>5, <1>6, <1>7, <1>8, <1>9, <1>10

-----------------------------------------------------------------------------
\* Initially the port is closed and nothing is counted.
LEMMA InitInv == Init => Inv
<1> SUFFICES ASSUME Init PROVE Inv
  OBVIOUS
<1> USE DEF Init, GatewayInit
<1>1. CallersOK
  <2>1. /\ <<>> \in Optional(Requests) /\ <<>> \in Optional(Answer)
        /\ <<>> \in Seq([req : Requests, rsp : Forward])
    BY Absent, EmptySeq
  <2> QED BY <2>1 DEF CallersOK
<1>2. PortOK
  BY EmptySeq, FS_EmptySet DEF PortOK
<1>3. LineOK /\ HistoryOK
  <2>1. <<>> \in Seq(Fragments) /\ <<>> \in Seq([client : Clients, call : Nat, unit : Byte])
    BY EmptySeq
  <2>2. 0 \in 0 .. MaxUnplugs /\ 0 \in 0 .. MaxTicks
    BY SerialAssumption
  <2> QED BY <2>1, <2>2 DEF LineOK, HistoryOK
<1>4. HasRequest /\ Holds /\ Fresh /\ Dropping /\ Paid
  BY DEF HasRequest, Holds, Inside, Fresh, InputIsFresh, Dropping, Paid
<1>5. BooksAgree
  <2>1. WithoutOne = {} /\ WithAnswer = {} /\ Polling = {}
    BY DEF Waiting, WithAnswer, WithoutOne, Polling
  <2>2. books["requests"] = 0 /\ books["replies"] = 0 /\ books["timeouts"] = 0
        /\ books["io_errors"] = 0 /\ stats["responses"] = 0 /\ stats["crc_failures"] = 0
        /\ stats["timeouts"] = 0
    BY DEF BookKeys, Counters
  <2>3. Sums(0, 0, 0, 0, 0, 0, 0, 0, 0, 0)
    BY DEF Sums
  <2>4. Agree(books, stats, 0, 0, 0)
    BY <2>2, <2>3 DEF Agree
  <2> QED BY <1>2, <2>1, <2>4, FS_EmptySet, AgreeForm DEF PortOK
<1> QED BY <1>1, <1>2, <1>3, <1>4, <1>5 DEF Inv, TypeOK

-----------------------------------------------------------------------------
\* The environment: it cannot touch a thread, only the port under it.

\* The adapter goes, and with it what was on the wire and in the queue.
LEMMA UnplugKeeps ==
  ASSUME Inv, Unplug
  PROVE  Inv'
<1> USE DEF Unplug, gatewayVars, history
<1>1. PortOK' /\ LineOK'
  <2>1. <<>> \in Seq(Fragments)
    BY EmptySeq
  <2>2. unplugs' \in 0 .. MaxUnplugs
    BY SerialAssumption DEF Inv, TypeOK, LineOK
  <2> QED BY <2>1, <2>2 DEF Inv, TypeOK, PortOK, LineOK
<1>2. TypeOK'
  BY <1>1, Kept DEF TypeOK
<1>3. Fresh' /\ Dropping'
  BY DEF Inv, Fresh, InputIsFresh, Dropping
<1> QED BY <1>2, <1>3, Kept DEF Inv

\* It comes back.
LEMMA PlugKeeps ==
  ASSUME Inv, Plug
  PROVE  Inv'
<1> USE DEF Plug, gatewayVars, portVars, history
<1>1. LineOK'
  BY DEF Inv, TypeOK, LineOK
<1>2. TypeOK'
  BY <1>1, Kept DEF TypeOK
<1> QED BY <1>2, Kept DEF Inv

\* A backoff passes, and pays for the next attempt.
LEMMA TickKeeps ==
  ASSUME Inv, Tick
  PROVE  Inv'
<1> USE DEF Tick, gatewayVars, history
<1>1. ticks' \in 0 .. MaxTicks /\ ticks \in Nat
  BY SerialAssumption DEF Inv, TypeOK, LineOK
<1>2. PortOK' /\ LineOK'
  BY <1>1 DEF Inv, TypeOK, PortOK, LineOK
<1>3. TypeOK'
  BY <1>2, Kept DEF TypeOK
<1>4. Paid'
  BY <1>1 DEF Inv, TypeOK, HistoryOK, Paid
<1> QED BY <1>3, <1>4, Kept DEF Inv

\* A fragment reaches the queue, stamped with the flushes so far.
LEMMA ArriveKeeps ==
  ASSUME Inv, Arrive
  PROVE  Inv'
<1> USE DEF Arrive, gatewayVars, portVars, history
<1> DEFINE f == [Head(pend) EXCEPT !.at = flushes]
<1>1. Head(pend) \in Fragments /\ pend' \in Seq(Fragments)
  BY HeadTailProperties DEF Inv, TypeOK, LineOK
<1>2. f \in Fragments /\ f.at = flushes
  BY <1>1, FragmentFields DEF Inv, TypeOK, HistoryOK
<1> HIDE DEF f
<1>3. line' \in {line, Append(line, f)} /\ line \in Seq(Fragments)
  BY DEF Inv, TypeOK, LineOK, f
<1>4. /\ line' \in Seq(Fragments)
      /\ \A k \in DOMAIN line' : line'[k] = f \/ (k \in DOMAIN line /\ line'[k] = line[k])
  <2> DEFINE longer == Append(line, f)
  <2>1. /\ longer \in Seq(Fragments)
        /\ \A k \in DOMAIN longer : longer[k] = f \/ (k \in DOMAIN line /\ longer[k] = line[k])
    BY <1>2, <1>3, Appended
  <2> HIDE DEF longer
  <2>2. line' = line \/ line' = longer
    BY <1>3 DEF longer
  <2> QED BY <1>3, <2>1, <2>2
<1>5. LineOK'
  BY <1>1, <1>4 DEF Inv, TypeOK, LineOK
<1>6. TypeOK'
  BY <1>5, Kept DEF TypeOK
<1>7. Fresh'
  BY <1>2, <1>4 DEF Inv, Fresh, InputIsFresh
<1> QED BY <1>6, <1>7, Kept DEF Inv

\* Noise is stamped as well.
LEMMA BabbleKeeps ==
  ASSUME Inv, Babble
  PROVE  Inv'
<1> USE DEF Babble, gatewayVars, portVars, history
<1> DEFINE f == [Burst EXCEPT !.at = flushes]
<1>1. f \in Fragments /\ f.at = flushes
  BY BurstTyped, FragmentFields DEF Inv, TypeOK, HistoryOK
<1>2. line' = <<f>>
  OBVIOUS
<1> HIDE DEF f
<1>3. line' \in Seq(Fragments) /\ DOMAIN line' = {1} /\ line'[1] = f
  BY <1>1, <1>2
<1>4. LineOK'
  BY <1>3 DEF Inv, TypeOK, LineOK
<1>5. TypeOK'
  BY <1>4, Kept DEF TypeOK
<1>6. Fresh'
  BY <1>1, <1>3 DEF Inv, Fresh, InputIsFresh
<1> QED BY <1>5, <1>6, Kept DEF Inv

-----------------------------------------------------------------------------
\* Before and after the transport.

\* handle is called: the thread is outside transact still.
LEMMA CallKeeps ==
  ASSUME Inv, NEW c \in Clients, CallStep(c)
  PROVE  Inv'
<1> USE DEF CallStep
<1>1. PICK r \in Requests : HandleEmpty(c, r) \/ HandleCall(c, r)
  OBVIOUS
<1>2. Typed(Places, Answer, Forward) /\ HasRequest /\ "transact" \in Places
  BY CallersTyped DEF Inv, TypeOK, Places
<1>3. CallersOK' /\ HasRequest'
  BY <1>1, <1>2, CallTyped, EmptyTyped, ExceptionsForwarded, CallersTyped
<1>4. TypeOK'
  BY <1>3, Kept DEF TypeOK
<1>5. pc' \in {pc, [pc EXCEPT ![c] = "transact"]} /\ pc[c] = "idle"
      /\ rsp' \in {rsp, [rsp EXCEPT ![c] = <<>>]}
  BY <1>1 DEF HandleEmpty, HandleCall
<1>6. \A d \in Clients : pc'[d] # pc[d] => pc[d] = "idle" /\ pc'[d] = "transact"
  BY <1>2, <1>5 DEF Typed
<1>7. Holds'
  BY <1>6 DEF Inv, Holds, Inside, portVars
<1>8. Fresh' /\ Dropping'
  BY <1>6 DEF Inv, Fresh, InputIsFresh, Dropping, portVars, worldVars, history
<1>9. BooksAgree'
  <2>1. WithoutOne' = WithoutOne /\ WithAnswer' = WithAnswer /\ Polling' = Polling
    BY <1>2, <1>5, <1>6 DEF Typed, Waiting, WithAnswer, WithoutOne, Polling
  <2>2. /\ stats'["responses"] = stats["responses"] /\ stats'["timeouts"] = stats["timeouts"]
        /\ stats'["crc_failures"] = stats["crc_failures"]
    BY <1>1, <1>2 DEF Typed, Counters, HandleEmpty, HandleCall
  <2> QED BY <2>1, <2>2, AgreeForm, BookNumbers DEF Agree, portVars
<1> QED BY <1>3, <1>4, <1>7, <1>8, <1>9, Kept DEF Inv, portVars, worldVars, history

\* A connection is closed: nor was its thread in transact.
LEMMA CloseKeeps ==
  ASSUME Inv, NEW c \in Clients, CloseStep(c)
  PROVE  Inv'
<1> USE DEF CloseStep
<1>1. Typed(Places, Answer, Forward) /\ HasRequest /\ "closed" \in Places
  BY CallersTyped DEF Inv, TypeOK, Places
<1>2. CallersOK' /\ HasRequest'
  BY <1>1, CloseTyped, CallersTyped
<1>3. TypeOK'
  BY <1>2, Kept DEF TypeOK
<1>4. pc' = [pc EXCEPT ![c] = "closed"] /\ pc[c] = "idle" /\ rsp' = rsp
  BY DEF FramingError
<1>5. \A d \in Clients : pc'[d] # pc[d] => pc[d] = "idle" /\ pc'[d] = "closed"
  BY <1>1, <1>4 DEF Typed
<1>6. Holds'
  BY <1>5 DEF Inv, Holds, Inside, portVars
<1>7. Fresh' /\ Dropping'
  BY <1>5 DEF Inv, Fresh, InputIsFresh, Dropping, portVars, worldVars, history
<1>8. BooksAgree'
  <2>1. WithoutOne' = WithoutOne /\ WithAnswer' = WithAnswer /\ Polling' = Polling
    BY <1>4, <1>5 DEF Waiting, WithAnswer, WithoutOne, Polling
  <2>2. /\ stats'["responses"] = stats["responses"] /\ stats'["timeouts"] = stats["timeouts"]
        /\ stats'["crc_failures"] = stats["crc_failures"]
    BY <1>1 DEF Typed, Counters, FramingError
  <2> QED BY <2>1, <2>2, AgreeForm, BookNumbers DEF Agree, portVars
<1> QED BY <1>2, <1>3, <1>6, <1>7, <1>8, Kept DEF Inv, portVars, worldVars, history

\* An intact answer is forwarded.
LEMMA TranslatedTyped ==
  ASSUME NEW c \in Clients, rsp[c] \in Optional(Answer), rsp[c] # <<>>, Req(c) \in Requests,
         Translated(c) # <<>>
  PROVE  /\ Translated(c)[1] \in Forward /\ rsp[c][1].crc_ok
         /\ Translated(c)[1].transaction_id = Req(c).transaction_id
         /\ Translated(c)[1].unit_id = rsp[c][1].addr /\ Translated(c)[1].pdu = rsp[c][1].pdu
<1>1. rsp[c][1] \in Answer
  BY OptionalValue
<1>2. Req(c).transaction_id \in U16
  BY RequestFields
<1> QED BY <1>1, <1>2 DEF Translated, rtu_to_tcp, Answer, Forward

\* handle returns: one thread less waits with what it had, and it is booked.
LEMMA LeaveKeeps ==
  ASSUME Inv, NEW c \in Clients, LeaveStep(c)
  PROVE  Inv'
<1> USE DEF LeaveStep
<1>1. Typed(Places, Answer, Forward) /\ HasRequest /\ "idle" \in Places
  BY CallersTyped DEF Inv, TypeOK, Places
<1>2. pc[c] = "return" /\ Req(c) \in Requests /\ rsp[c] \in Optional(Answer)
  <2>1. pc[c] = "return"
    BY DEF HandleTimeout, HandleCrcFailure, HandleResponse
  <2> QED BY <1>1, <2>1, RequestInHand DEF Typed
<1>3. PICK k \in {"timeouts", "crc_failures", "responses"}, f \in Forward :
        Leave(c, k, f) /\ (k = "timeouts" <=> rsp[c] = <<>>)
  <2>1. NoResponse(c) \in Forward
    BY <1>2, NoResponseTyped, ExceptionsForwarded
  <2>2. CASE HandleTimeout(c)
    BY <2>1, <2>2 DEF HandleTimeout
  <2>3. CASE HandleCrcFailure(c)
    BY <2>1, <2>3 DEF HandleCrcFailure
  <2>4. CASE HandleResponse(c)
    BY <1>2, <2>4, TranslatedTyped DEF HandleResponse
  <2> QED BY <2>2, <2>3, <2>4
<1>4. CallersOK' /\ HasRequest'
  <2>1. k \in Counters
    BY DEF Counters
  <2> QED BY <1>1, <1>2, <1>3, <2>1, LeaveTyped, CallersTyped
<1>5. TypeOK'
  BY <1>4, Kept DEF TypeOK
<1>6. /\ pc' = [pc EXCEPT ![c] = "idle"] /\ rsp' = [rsp EXCEPT ![c] = <<>>]
      /\ stats' = [stats EXCEPT ![k] = @ + 1]
  BY <1>3 DEF Leave
<1>7. /\ \A d \in Clients : pc'[d] = IF d = c THEN "idle" ELSE pc[d]
      /\ \A d \in Clients : d # c => rsp'[d] = rsp[d]
  BY <1>1, <1>6 DEF Typed
<1>8. Holds'
  BY <1>2, <1>7 DEF Inv, Holds, Inside, portVars
<1>9. Fresh' /\ Dropping'
  BY <1>2, <1>7 DEF Inv, Fresh, InputIsFresh, Dropping, portVars, worldVars, history
<1>10. BooksAgree'
  <2>1. Polling' = Polling
    BY <1>2, <1>7 DEF Polling
  <2>2. CASE k = "timeouts"
    <3>1. WithAnswer' = WithAnswer /\ WithoutOne' = WithoutOne \ {c}
      BY <1>2, <1>3, <1>7, <2>2 DEF Waiting, WithAnswer, WithoutOne
    <3>2. c \in WithoutOne /\ WithoutOne \in SUBSET Clients
      BY <1>2, <1>3, <2>2 DEF Waiting, WithAnswer, WithoutOne
    <3>3. Cardinality(WithoutOne') = Cardinality(WithoutOne) - 1
      BY <3>1, <3>2, Counted
    <3>4. /\ stats'["responses"] = stats["responses"]
          /\ stats'["crc_failures"] = stats["crc_failures"]
          /\ stats'["timeouts"] = stats["timeouts"] + 1 /\ stats["timeouts"] \in Nat
      BY <1>1, <1>6, <2>2 DEF Typed, Counters
    <3>5. Agree(books', stats', Cardinality(WithAnswer'), Cardinality(WithoutOne'),
                Cardinality(Polling'))
      BY <2>1, <3>1, <3>3, <3>4, SumsMove DEF Agree, portVars
    <3> QED BY <3>5, AgreeForm, BookNumbers DEF portVars
  <2>3. CASE k # "timeouts"
    <3>1. WithoutOne' = WithoutOne /\ WithAnswer' = WithAnswer \ {c}
      BY <1>2, <1>3, <1>7, <2>3 DEF Waiting, WithAnswer, WithoutOne
    <3>2. c \in WithAnswer /\ WithAnswer \in SUBSET Clients
      BY <1>2, <1>3, <2>3 DEF Waiting, WithAnswer, WithoutOne
    <3>3. Cardinality(WithAnswer') = Cardinality(WithAnswer) - 1
      BY <3>1, <3>2, Counted
    <3>4. /\ stats'["timeouts"] = stats["timeouts"]
          /\ \/ /\ stats'["responses"] = stats["responses"] + 1
                /\ stats'["crc_failures"] = stats["crc_failures"]
             \/ /\ stats'["responses"] = stats["responses"]
                /\ stats'["crc_failures"] = stats["crc_failures"] + 1
      <4>1. k = "responses" \/ k = "crc_failures"
        BY <1>3, <2>3
      <4> QED BY <1>1, <1>6, <4>1 DEF Typed, Counters
    <3>5. Agree(books', stats', Cardinality(WithAnswer'), Cardinality(WithoutOne'),
                Cardinality(Polling'))
      BY <2>1, <3>1, <3>3, <3>4, SumsMove DEF Agree, portVars
    <3> QED BY <3>5, AgreeForm, BookNumbers DEF portVars
  <2> QED BY <2>2, <2>3
<1> QED BY <1>4, <1>5, <1>8, <1>9, <1>10, Kept DEF Inv, portVars, worldVars, history

-----------------------------------------------------------------------------
\* On the bus.

\* The lock is taken, when nobody has it.
LEMMA LockKeeps ==
  ASSUME Inv, NEW c \in Clients, Lock(c)
  PROVE  Inv'
<1> USE DEF Lock, Goto
<1>1. pc \in [Clients -> Places] /\ Typed(Places, Answer, Forward) /\ HasRequest
  BY CallersTyped DEF Inv, TypeOK, CallersOK, Places
<1>2. CallersOK' /\ HasRequest'
  <2>1. <<>> \in Optional(Answer) /\ "open" \in Places
    BY Absent DEF Places
  <2> QED BY <1>1, <2>1, MoveTyped, CallersTyped
<1>3. \A d \in Clients : pc'[d] = IF d = c THEN "open" ELSE pc[d]
  BY <1>1
<1>4. Holds'
  BY <1>3 DEF Inv, Holds, Inside
<1>5. PortOK'
  <2>1. Cardinality({c}) = 1
    BY FS_Singleton
  <2> QED BY <2>1 DEF Inv, TypeOK, PortOK
<1>6. TypeOK'
  BY <1>2, <1>5, Kept DEF TypeOK
<1>7. Fresh' /\ Dropping' /\ Paid'
  BY <1>3 DEF Inv, Fresh, InputIsFresh, Dropping, Paid, worldVars, history
<1>8. BooksAgree'
  <2>1. WithoutOne' = WithoutOne /\ WithAnswer' = WithAnswer /\ Polling' = Polling
    BY <1>3 DEF Waiting, WithAnswer, WithoutOne, Polling
  <2> QED BY <2>1, AgreeForm, BookNumbers
<1> QED BY <1>2, <1>4, <1>6, <1>7, <1>8 DEF Inv

\* The port is open: the transaction begins, on whatever is behind it.
LEMMA AlreadyOpenKeeps ==
  ASSUME Inv, NEW c \in Clients, AlreadyOpen(c)
  PROVE  Inv'
<1> USE DEF AlreadyOpen, portVars
<1>1. /\ CallersOK' /\ HasRequest' /\ Holds'
      /\ \A d \in Clients : pc'[d] = IF d = c THEN "flush" ELSE pc[d]
      /\ WithoutOne' = WithoutOne /\ WithAnswer' = WithAnswer
  BY GotoKeeps
<1>2. \A d \in Clients : pc[d] \notin {"write", "poll", "full"}
  BY Alone
<1>3. HistoryOK'
  BY DEF Inv, TypeOK, HistoryOK
<1>4. TypeOK'
  BY <1>1, <1>3, Kept DEF TypeOK
<1>5. Fresh'
  BY <1>1, <1>2 DEF Inv, Fresh, InputIsFresh, worldVars
<1>6. Dropping'
  BY <1>1 DEF Inv, Dropping
<1>7. BooksAgree'
  <2>1. Polling' = Polling
    BY <1>1, <1>2 DEF Polling
  <2> QED BY <1>1, <2>1, AgreeForm, BookNumbers
<1> QED BY <1>1, <1>4, <1>5, <1>6, <1>7, Kept DEF Inv, worldVars

\* A transaction that ends before its request was written: no books are kept of
\* it, and handle will count a timeout.
LEMMA EndsUnwritten ==
  ASSUME Inv, NEW c \in Clients, pc[c] = "open", Return(c, <<>>),
         UNCHANGED <<req, stats, log, rx, books, line, flushes>>
  PROVE  CallersOK' /\ HasRequest' /\ Holds' /\ Cardinality(bus') <= 1 /\ bus' = {}
         /\ Fresh' /\ BooksAgree'
<1>0. <<>> \in Optional(Answer)
  BY Absent
<1>1. /\ CallersOK' /\ HasRequest' /\ Holds' /\ bus' = {} /\ Cardinality(bus') <= 1
      /\ \A d \in Clients : pc'[d] \notin {"open", "flush", "write", "poll", "full"}
      /\ Polling' = Polling \ {c} /\ c \notin WithoutOne
      /\ WithoutOne' = WithoutOne \cup {c} /\ WithAnswer' = WithAnswer
  BY <1>0, ReturnKeeps
<1>2. \A d \in Clients : pc[d] \notin {"write", "poll", "full"}
  BY Alone
<1>3. Fresh'
  BY <1>1, <1>2 DEF Inv, Fresh, InputIsFresh
<1>4. BooksAgree'
  <2>1. Polling' = Polling
    BY <1>1 DEF Polling
  <2>2. Cardinality(WithoutOne') = Cardinality(WithoutOne) + 1
    <3>1. WithoutOne \in SUBSET Clients
      BY DEF WithoutOne, Waiting
    <3> QED BY <1>1, <3>1, Counted
  <2>3. Agree(books', stats', Cardinality(WithAnswer'), Cardinality(WithoutOne'),
              Cardinality(Polling'))
    <3>1. books' = books /\ stats' = stats /\ WithAnswer' = WithAnswer
      BY <1>1
    <3> QED BY <2>1, <2>2, <3>1, SumsMove DEF Agree
  <2> QED BY <2>3, AgreeForm, BookNumbers
<1> QED BY <1>1, <1>3, <1>4

\* It is too soon to open the port again.
LEMMA BackOffKeeps ==
  ASSUME Inv, NEW c \in Clients, BackOff(c)
  PROVE  Inv'
<1> USE DEF BackOff
<1>1. /\ CallersOK' /\ HasRequest' /\ Holds' /\ Cardinality(bus') <= 1 /\ bus' = {}
      /\ Fresh' /\ BooksAgree'
  BY EndsUnwritten DEF worldVars, history
<1>2. PortOK'
  BY <1>1 DEF Inv, TypeOK, PortOK
<1>3. TypeOK'
  BY <1>1, <1>2, Kept DEF TypeOK
<1>4. Dropping' /\ Paid'
  BY DEF Inv, Dropping, Paid, worldVars, history
<1> QED BY <1>1, <1>3, <1>4 DEF Inv

\* The attempt fails: it costs a backoff.
LEMMA OpenFailsKeeps ==
  ASSUME Inv, NEW c \in Clients, OpenFails(c)
  PROVE  Inv'
<1> USE DEF OpenFails
<1>1. /\ CallersOK' /\ HasRequest' /\ Holds' /\ Cardinality(bus') <= 1 /\ bus' = {}
      /\ Fresh' /\ BooksAgree'
  BY EndsUnwritten DEF worldVars
<1>2. PortOK' /\ HistoryOK'
  BY <1>1 DEF Inv, TypeOK, PortOK, HistoryOK
<1>3. TypeOK'
  BY <1>1, <1>2, Kept DEF TypeOK
<1>4. Dropping'
  BY DEF Inv, Dropping
<1>5. Paid'
  BY SerialAssumption DEF Inv, TypeOK, HistoryOK, LineOK, PortOK, Paid, worldVars
<1> QED BY <1>1, <1>3, <1>4, <1>5 DEF Inv

\* So does one that works, and the descriptor it yields is a new one.
LEMMA OpenKeeps ==
  ASSUME Inv, NEW c \in Clients, Open(c)
  PROVE  Inv'
<1> USE DEF Open
<1>1. /\ CallersOK' /\ HasRequest' /\ Holds'
      /\ \A d \in Clients : pc'[d] = IF d = c THEN "flush" ELSE pc[d]
      /\ WithoutOne' = WithoutOne /\ WithAnswer' = WithAnswer
  BY GotoKeeps
<1>2. \A d \in Clients : pc[d] \notin {"write", "poll", "full"}
  BY Alone
<1>3. /\ books' \in [BookKeys -> Nat]
      /\ books'["requests"] = books["requests"] /\ books'["replies"] = books["replies"]
      /\ books'["timeouts"] = books["timeouts"] /\ books'["io_errors"] = books["io_errors"]
  BY CountKeeps DEF BookKeys
<1>4. PortOK' /\ LineOK' /\ HistoryOK'
  <2>1. <<>> \in Seq(Fragments)
    BY EmptySeq
  <2>2. PortOK'
    BY <1>3 DEF Inv, TypeOK, PortOK
  <2>3. LineOK'
    BY <2>1 DEF Inv, TypeOK, LineOK
  <2>4. HistoryOK'
    <3>1. attempts' \in Nat
      BY DEF Inv, TypeOK, HistoryOK
    <3>2. stale' \in BOOLEAN
      BY Zenon
    <3> QED BY <3>1, <3>2, Zenon DEF Inv, TypeOK, HistoryOK
  <2> QED BY <2>2, <2>3, <2>4
<1>5. TypeOK'
  BY <1>1, <1>4 DEF TypeOK
<1>6. Fresh' /\ Dropping'
  BY <1>1, <1>2 DEF Inv, Fresh, InputIsFresh, Dropping
<1>7. Paid'
  BY SerialAssumption DEF Inv, TypeOK, HistoryOK, LineOK, PortOK, Paid
<1>8. BooksAgree'
  <2>1. Polling' = Polling
    BY <1>1, <1>2 DEF Polling
  <2>2. Agree(books', stats', Cardinality(WithAnswer'), Cardinality(WithoutOne'),
              Cardinality(Polling'))
    BY <1>1, <1>3, <2>1, BookNumbers DEF Agree
  <2> QED BY <1>3, <2>2, AgreeForm
<1> QED BY <1>1, <1>5, <1>6, <1>7, <1>8 DEF Inv

\* The queue is emptied.
LEMMA FlushKeeps ==
  ASSUME Inv, NEW c \in Clients, Flush(c)
  PROVE  Inv'
<1> USE DEF Flush, portVars
<1>1. /\ CallersOK' /\ HasRequest' /\ Holds'
      /\ \A d \in Clients : pc'[d] = IF d = c THEN "write" ELSE pc[d]
      /\ WithoutOne' = WithoutOne /\ WithAnswer' = WithAnswer
  BY GotoKeeps
<1>2. \A d \in Clients : pc[d] \notin {"write", "poll", "full"}
  BY Alone
<1>3. LineOK' /\ HistoryOK'
  BY EmptySeq DEF Inv, TypeOK, LineOK, HistoryOK
<1>4. TypeOK'
  BY <1>1, <1>3, Kept DEF TypeOK
<1>5. Fresh' /\ Dropping'
  BY <1>1, <1>2 DEF Inv, Fresh, InputIsFresh, Dropping
<1>6. BooksAgree'
  <2>1. Polling' = Polling
    BY <1>1, <1>2 DEF Polling
  <2> QED BY <1>1, <2>1, AgreeForm, BookNumbers
<1> QED BY <1>1, <1>4, <1>5, <1>6, Kept DEF Inv

\* The request is written, and one thread more polls.
LEMMA WriteKeeps ==
  ASSUME Inv, NEW c \in Clients, Write(c)
  PROVE  Inv'
<1> USE DEF Write
<1>1. /\ CallersOK' /\ HasRequest' /\ Holds'
      /\ \A d \in Clients : pc'[d] = IF d = c THEN "poll" ELSE pc[d]
      /\ WithoutOne' = WithoutOne /\ WithAnswer' = WithAnswer
  BY GotoKeeps
<1>2. RtuReq(c) \in RequestAdu /\ RtuReq(c).addr \in Byte
  <2>1. Req(c) \in Requests
    BY RequestInHand, CallersTyped DEF Inv, TypeOK
  <2> QED BY <2>1, RequestFields DEF RtuReq
<1>3. HistoryOK' /\ Len(asked') \in Nat
  <2> DEFINE E == [client : Clients, call : Nat, unit : Byte]
             e == [client |-> c, call |-> Len(log[c]) + 1, unit |-> RtuReq(c).addr]
  <2>1. Len(log[c]) \in Nat
    BY LenProperties DEF Inv, TypeOK, CallersOK
  <2>2. e \in E /\ asked' = Append(asked, e) /\ asked \in Seq(E)
    BY <1>2, <2>1 DEF Inv, TypeOK, HistoryOK
  <2> HIDE DEF E, e
  <2>3. asked' \in Seq(E)
    BY <2>2, AppendProperties
  <2> QED BY <2>3, LenProperties DEF Inv, TypeOK, HistoryOK, E
<1>4. pend' \in Seq(Fragments)
  <2>1. PICK a \in DeviceAnswers(RtuReq(c), Len(asked')) : pend' = pend \o a
    OBVIOUS
  <2>2. a \in Seq(Fragments)
    BY <1>2, <1>3, <2>1, AnswersTyped
  <2> QED BY <2>1, <2>2, ConcatProperties DEF Inv, TypeOK, LineOK
<1>5. /\ books' \in [BookKeys -> Nat] /\ books'["requests"] = books["requests"] + 1
      /\ books'["replies"] = books["replies"] /\ books'["timeouts"] = books["timeouts"]
      /\ books'["io_errors"] = books["io_errors"]
  BY CountKeeps DEF BookKeys
<1>6. PortOK' /\ LineOK'
  BY <1>4, <1>5, EmptySeq DEF Inv, TypeOK, PortOK, LineOK
<1>7. TypeOK'
  BY <1>1, <1>3, <1>6 DEF TypeOK
<1>8. Fresh'
  <2>1. \A k \in DOMAIN line : line[k].at = flushes
    BY DEF Inv, Fresh
  <2>2. DOMAIN rx' = {}
    BY EmptySeq
  <2> QED BY <1>1, <2>1, <2>2 DEF Fresh, InputIsFresh
<1>9. Dropping' /\ Paid'
  BY DEF Inv, Dropping, Paid
<1>10. BooksAgree'
  <2>1. Polling' = Polling \cup {c} /\ c \notin Polling /\ Polling \in SUBSET Clients
    BY <1>1 DEF Polling
  <2>2. Cardinality(Polling') = Cardinality(Polling) + 1
    BY <2>1, Counted
  <2>3. Agree(books', stats', Cardinality(WithAnswer'), Cardinality(WithoutOne'),
              Cardinality(Polling'))
    BY <1>1, <1>5, <2>2, SumsMove DEF Agree
  <2> QED BY <1>5, <2>3, AgreeForm
<1> QED BY <1>1, <1>7, <1>8, <1>9, <1>10 DEF Inv

\* write, poll or read fails on a dead descriptor: it is closed.
LEMMA IoErrorKeeps ==
  ASSUME Inv, NEW c \in Clients, pc[c] \in {"write", "poll"}, IoError(c),
         UNCHANGED <<req, stats, log, since, worldVars, history>>
  PROVE  Inv'
<1> USE DEF IoError
<1>0. <<>> \in Optional(Answer)
  BY Absent
<1>1. /\ CallersOK' /\ HasRequest' /\ Holds' /\ bus' = {} /\ Cardinality(bus') <= 1
      /\ \A d \in Clients : pc'[d] \notin {"open", "flush", "write", "poll", "full"}
      /\ Polling' = Polling \ {c} /\ c \notin WithoutOne
      /\ WithoutOne' = WithoutOne \cup {c} /\ WithAnswer' = WithAnswer
  BY <1>0, ReturnKeeps
<1>2. /\ books' \in [BookKeys -> Nat] /\ books'["io_errors"] = books["io_errors"] + 1
      /\ books'["requests"] = books["requests"] /\ books'["replies"] = books["replies"]
      /\ books'["timeouts"] = books["timeouts"]
  BY CountKeeps DEF BookKeys
<1>3. PortOK'
  BY <1>1, <1>2, EmptySeq DEF Inv, TypeOK, PortOK
<1>4. TypeOK'
  BY <1>1, <1>3, Kept DEF TypeOK
<1>5. Fresh' /\ Dropping' /\ Paid'
  <2>1. DOMAIN rx' = {}
    BY EmptySeq
  <2> QED BY <1>1, <2>1 DEF Inv, Fresh, InputIsFresh, Dropping, Paid, worldVars, history
<1>6. BooksAgree'
  <2>1. Cardinality(WithoutOne') = Cardinality(WithoutOne) + 1
    <3>1. WithoutOne \in SUBSET Clients
      BY DEF WithoutOne, Waiting
    <3> QED BY <1>1, <3>1, Counted
  <2>2. \/ Cardinality(Polling') = Cardinality(Polling)
        \/ Cardinality(Polling') = Cardinality(Polling) - 1
    <3>1. Polling \in SUBSET Clients
      BY DEF Polling
    <3>2. CASE c \in Polling
      BY <1>1, <3>1, <3>2, Counted
    <3>3. CASE c \notin Polling
      <4>1. Polling' = Polling
        BY <1>1, <3>3
      <4> QED BY <4>1
    <3> QED BY <3>2, <3>3
  <2>3. Agree(books', stats', Cardinality(WithAnswer'), Cardinality(WithoutOne'),
              Cardinality(Polling'))
    BY <1>1, <1>2, <2>1, <2>2, SumsMove DEF Agree
  <2> QED BY <1>2, <2>3, AgreeForm
<1> QED BY <1>1, <1>4, <1>5, <1>6 DEF Inv

\* Input is read: all of it is of this transaction.
LEMMA ReadKeeps ==
  ASSUME Inv, NEW c \in Clients, Read(c)
  PROVE  Inv'
<1> USE DEF Read
<1>0. PICK l \in {"poll", "full"} : Goto(c, l)
  OBVIOUS
<1>1. /\ CallersOK' /\ HasRequest' /\ Holds'
      /\ \A d \in Clients : pc'[d] = IF d = c THEN l ELSE pc[d]
      /\ WithoutOne' = WithoutOne /\ WithAnswer' = WithAnswer
  BY <1>0, GotoKeeps
<1>2. \A d \in Clients : pc[d] # "write"
  BY Alone
<1>3. rx \in Seq(Fragments) /\ line \in Seq(Fragments) /\ <<>> \in Seq(Fragments)
  BY EmptySeq DEF Inv, TypeOK, PortOK, LineOK
<1>4. /\ rx' \in Seq(Fragments)
      /\ \A k \in DOMAIN rx' : \/ k \in DOMAIN rx /\ rx'[k] = rx[k]
                               \/ k - Len(rx) \in DOMAIN line /\ rx'[k] = line[k - Len(rx)]
  <2>1. /\ Len(rx) \in Nat /\ DOMAIN rx = 1 .. Len(rx)
        /\ Len(line) \in Nat /\ DOMAIN line = 1 .. Len(line)
    BY <1>3, LenProperties
  <2>2. /\ rx \o line \in Seq(Fragments) /\ Len(rx \o line) = Len(rx) + Len(line)
        /\ \A i \in 1 .. Len(rx) + Len(line) :
             (rx \o line)[i] = IF i <= Len(rx) THEN rx[i] ELSE line[i - Len(rx)]
    BY <1>3, ConcatProperties
  <2>3. DOMAIN (rx \o line) = 1 .. Len(rx) + Len(line)
    BY <2>2, LenProperties
  <2> DEFINE q == rx \o line
  <2>4. rx' = q
    OBVIOUS
  <2>5. /\ q \in Seq(Fragments) /\ DOMAIN q = 1 .. Len(rx) + Len(line)
        /\ \A i \in 1 .. Len(rx) + Len(line) :
             q[i] = IF i <= Len(rx) THEN rx[i] ELSE line[i - Len(rx)]
    BY <2>2, <2>3
  <2> HIDE DEF q
  <2>6. \A k \in DOMAIN q : \/ k \in DOMAIN rx /\ q[k] = rx[k]
                            \/ k - Len(rx) \in DOMAIN line /\ q[k] = line[k - Len(rx)]
    BY <2>1, <2>5
  <2> QED BY <2>4, <2>5, <2>6
<1>5. PortOK' /\ LineOK'
  BY <1>3, <1>4 DEF Inv, TypeOK, PortOK, LineOK
<1>6. TypeOK'
  BY <1>1, <1>5, Kept DEF TypeOK
<1>7. Fresh'
  <2>1. \A k \in DOMAIN line : line[k].at = flushes
    BY DEF Inv, Fresh
  <2>2. \A k \in DOMAIN rx : rx[k].at = flushes
    BY DEF Inv, Fresh, InputIsFresh
  <2>3. \A k \in DOMAIN rx' : rx'[k].at = flushes
    BY <1>4, <2>1, <2>2
  <2>4. flushes' = flushes /\ DOMAIN line' = {}
    BY EmptySeq DEF history
  <2> QED BY <1>0, <1>1, <2>3, <2>4 DEF Fresh, InputIsFresh
<1>8. Dropping' /\ Paid'
  BY <1>0, <1>1 DEF Inv, Dropping, Paid, history
<1>9. BooksAgree'
  <2>1. Polling' = Polling
    BY <1>0, <1>1 DEF Polling
  <2> QED BY <1>1, <2>1, AgreeForm, BookNumbers
<1> QED BY <1>1, <1>6, <1>7, <1>8, <1>9 DEF Inv

\* The loop ends: a reply if anything came, else a timeout.
LEMMA LoopEndsKeeps ==
  ASSUME Inv, NEW c \in Clients, pc[c] \in {"poll", "full"}, NEW x \in Optional(Answer),
         LoopEnds(c, x), UNCHANGED <<req, stats, log, fd, since, worldVars, history>>
  PROVE  Inv'
<1> USE DEF LoopEnds
<1>1. /\ CallersOK' /\ HasRequest' /\ Holds' /\ bus' = {} /\ Cardinality(bus') <= 1
      /\ \A d \in Clients : pc'[d] \notin {"open", "flush", "write", "poll", "full"}
      /\ Polling' = Polling \ {c} /\ c \notin WithoutOne /\ c \notin WithAnswer
      /\ x = <<>> => WithoutOne' = WithoutOne \cup {c} /\ WithAnswer' = WithAnswer
      /\ x # <<>> => WithAnswer' = WithAnswer \cup {c} /\ WithoutOne' = WithoutOne
  BY ReturnKeeps
<1>2. PICK k \in {"timeouts", "replies"} : Count(k) /\ (k = "timeouts" <=> x = <<>>)
  OBVIOUS
<1>3. /\ books' \in [BookKeys -> Nat]
      /\ books'["requests"] = books["requests"] /\ books'["io_errors"] = books["io_errors"]
      /\ k = "timeouts" => /\ books'["timeouts"] = books["timeouts"] + 1
                           /\ books'["replies"] = books["replies"]
      /\ k = "replies" => /\ books'["replies"] = books["replies"] + 1
                          /\ books'["timeouts"] = books["timeouts"]
  BY <1>2, CountKeeps DEF BookKeys
<1>4. PortOK'
  BY <1>1, <1>3, EmptySeq DEF Inv, TypeOK, PortOK
<1>5. TypeOK'
  BY <1>1, <1>4, Kept DEF TypeOK
<1>6. ~ (stale /\ fd = "dead")
  BY Alone DEF Inv, Dropping
<1>7. Fresh' /\ Dropping' /\ Paid'
  <2>1. DOMAIN rx' = {}
    BY EmptySeq
  <2> QED BY <1>1, <1>6, <2>1 DEF Inv, Fresh, InputIsFresh, Dropping, Paid, worldVars, history
<1>8. BooksAgree'
  <2>1. /\ WithoutOne \in SUBSET Clients /\ WithAnswer \in SUBSET Clients
        /\ Polling \in SUBSET Clients /\ c \in Polling
    BY DEF WithoutOne, WithAnswer, Waiting, Polling
  <2>2. Cardinality(Polling') = Cardinality(Polling) - 1
    BY <1>1, <2>1, Counted
  <2>3. CASE k = "timeouts"
    <3>1. Cardinality(WithoutOne') = Cardinality(WithoutOne) + 1 /\ WithAnswer' = WithAnswer
      BY <1>1, <1>2, <2>1, <2>3, Counted
    <3>2. Agree(books', stats', Cardinality(WithAnswer'), Cardinality(WithoutOne'),
                Cardinality(Polling'))
      BY <1>3, <2>2, <2>3, <3>1, SumsMove DEF Agree
    <3> QED BY <1>3, <3>2, AgreeForm
  <2>4. CASE k = "replies"
    <3>1. Cardinality(WithAnswer') = Cardinality(WithAnswer) + 1 /\ WithoutOne' = WithoutOne
      BY <1>1, <1>2, <2>1, <2>4, Counted
    <3>2. Agree(books', stats', Cardinality(WithAnswer'), Cardinality(WithoutOne'),
                Cardinality(Polling'))
      BY <1>3, <2>2, <2>4, <3>1, SumsMove DEF Agree
    <3> QED BY <1>3, <3>2, AgreeForm
  <2> QED BY <1>2, <2>3, <2>4
<1> QED BY <1>1, <1>5, <1>7, <1>8 DEF Inv

\* Every step on the bus.
LEMMA TransportKeeps ==
  ASSUME Inv, NEW c \in Clients, TransportStep(c)
  PROVE  Inv'
<1>0. <<>> \in Optional(Answer) /\ <<Assembled>> \in Optional(Answer)
  BY Absent, Present, AssembledTyped DEF Inv, TypeOK, PortOK
<1> HIDE DEF Assembled
<1>1. ASSUME WriteFails(c) \/ ReadFails(c) PROVE Inv'
  BY <1>1, IoErrorKeeps DEF WriteFails, ReadFails
<1>2. ASSUME ReadFull(c) PROVE Inv'
  BY <1>0, <1>2, LoopEndsKeeps DEF ReadFull
<1>3. ASSUME Silence(c) \/ HangUp(c) PROVE Inv'
  <2>1. PICK x \in Optional(Answer) : LoopEnds(c, x)
    BY <1>0, <1>3 DEF Silence, HangUp
  <2> QED BY <1>3, <2>1, LoopEndsKeeps DEF Silence, HangUp
<1> QED BY <1>1, <1>2, <1>3, LockKeeps, AlreadyOpenKeeps, BackOffKeeps, OpenKeeps,
           OpenFailsKeeps, FlushKeeps, WriteKeeps, ReadKeeps DEF TransportStep

-----------------------------------------------------------------------------
\* Every step of the gateway and of the line keeps the invariant.
LEMMA NextInv == Inv /\ [Next]_vars => Inv'
<1>1. ASSUME Inv, NEW c \in Clients, CallStep(c) \/ CloseStep(c) \/ Progress(c) PROVE Inv'
  BY <1>1, CallKeeps, CloseKeeps, LeaveKeeps, TransportKeeps DEF Progress
<1>2. ASSUME Inv, Environment PROVE Inv'
  BY <1>2, UnplugKeeps, PlugKeeps, TickKeeps, ArriveKeeps, BabbleKeeps DEF Environment
<1>3. ASSUME Inv, UNCHANGED vars PROVE Inv'
  <2>1. TypeOK'
    BY <1>3, Kept DEF TypeOK, vars, gatewayVars, portVars, worldVars, history
  <2> QED BY <1>3, <2>1, Kept DEF Inv, vars
<1> QED BY <1>1, <1>2, <1>3 DEF Next

\* The threads, the port, the wire and the counters keep their types.
THEOREM TypeCorrect == Spec => []TypeOK
<1>1. Inv => TypeOK
  BY DEF Inv
<1> QED BY <1>1, InitInv, NextInv, PTL DEF Spec

(***************************************************************************)
(* tcflush is enough: what transact reads, it reads from behind its own    *)
(* flush, however late the devices are and whatever is on the line.        *)
(***************************************************************************)
THEOREM InputFresh == Spec => []InputIsFresh
<1>1. Inv => InputIsFresh
  BY DEF Inv, Fresh
<1> QED BY <1>1, InitInv, NextInv, PTL DEF Spec

(***************************************************************************)
(* A descriptor whose adapter went is closed by the first transaction that *)
(* begins on it.                                                           *)
(***************************************************************************)
THEOREM DeadPortDropped == Spec => []DeadPortIsDropped
<1>1. Inv => DeadPortIsDropped
  BY DEF Inv, Holds, Inside, Dropping, DeadPortIsDropped
<1> QED BY <1>1, InitInv, NextInv, PTL DEF Spec

\* The port is opened no more often than the backoff allows.
THEOREM BackoffHolds == Spec => []BacksOff
<1>1. Inv => BacksOff
  BY SerialAssumption DEF Inv, TypeOK, PortOK, LineOK, HistoryOK, Paid, BacksOff
<1> QED BY <1>1, InitInv, NextInv, PTL DEF Spec

\* The counters of the transport and of the gateway tell the same story.
THEOREM BooksAlwaysAgree == Spec => []BooksAgree
<1>1. Inv => BooksAgree
  BY DEF Inv
<1> QED BY <1>1, InitInv, NextInv, PTL DEF Spec

-----------------------------------------------------------------------------
(***************************************************************************)
(* Whose answers these are.  A fragment closes an answer when the answer   *)
(* is complete with it; Ends are the answers a queue of fragments closes,  *)
(* On the number of the request an answer was sent for.                    *)
(***************************************************************************)
Closes(f) == f.part \in {"whole", "back"} /\ f.adu.crc_ok

Ends(s) == { s[k].adu : k \in { j \in DOMAIN s : Closes(s[j]) } }

On(a) == a.pdu.regs[1]

Known(a) ==
  Len(a.pdu.regs) = 1 /\ On(a) \in DOMAIN asked /\ a.addr = asked[On(a)].unit

Before(A, B) == \A a \in A, b \in B : On(a) < On(b)

Sorted(s) ==
  \A i, j \in DOMAIN s : i < j /\ Closes(s[i]) /\ Closes(s[j]) => On(s[i].adu) < On(s[j].adu)

\* No answers.
LEMMA EndsNone == Ends(<<>>) = {} /\ Sorted(<<>>)
<1>1. DOMAIN <<>> = {}
  BY EmptySeq
<1> QED BY <1>1 DEF Ends, Sorted

\* The answers a queue closes are answers.
LEMMA EndsTyped ==
  ASSUME NEW s \in Seq(Fragments)
  PROVE  Ends(s) \subseteq Answer
<1>1. \A k \in DOMAIN s : s[k] \in Fragments
  BY LenProperties, ElementOfSeq
<1>2. \A k \in DOMAIN s : s[k].adu \in Answer
  BY <1>1, FragmentFields
<1> QED BY <1>2 DEF Ends

\* One after the other.
LEMMA EndsJoined ==
  ASSUME NEW s \in Seq(Fragments), NEW t \in Seq(Fragments)
  PROVE  Ends(s \o t) = Ends(s) \cup Ends(t)
<1> DEFINE u == s \o t
<1>1. /\ Len(s) \in Nat /\ DOMAIN s = 1 .. Len(s)
      /\ Len(t) \in Nat /\ DOMAIN t = 1 .. Len(t)
  BY LenProperties
<1>2. /\ u \in Seq(Fragments) /\ Len(u) = Len(s) + Len(t)
      /\ \A i \in 1 .. Len(s) + Len(t) : u[i] = IF i <= Len(s) THEN s[i] ELSE t[i - Len(s)]
  BY ConcatProperties
<1>3. DOMAIN u = 1 .. Len(s) + Len(t)
  BY <1>2, LenProperties
<1> HIDE DEF u
<1>4. ASSUME NEW k \in DOMAIN s PROVE k \in DOMAIN u /\ u[k] = s[k]
  BY <1>1, <1>2, <1>3
<1>5. ASSUME NEW k \in DOMAIN t PROVE Len(s) + k \in DOMAIN u /\ u[Len(s) + k] = t[k]
  <2> DEFINE m == Len(s) + k
  <2>1. m \in 1 .. Len(s) + Len(t) /\ ~ (m <= Len(s)) /\ m - Len(s) = k
    BY <1>1
  <2> HIDE DEF m
  <2>2. m \in DOMAIN u /\ u[m] = t[k]
    BY <1>2, <1>3, <2>1
  <2> QED BY <2>2 DEF m
<1>6. ASSUME NEW k \in DOMAIN u
      PROVE  \/ k \in DOMAIN s /\ u[k] = s[k]
             \/ \E j \in DOMAIN t : u[k] = t[j]
  <2>1. CASE k <= Len(s)
    <3>1. k \in DOMAIN s
      BY <1>1, <1>3, <2>1
    <3> QED BY <1>4, <3>1
  <2>2. CASE ~ (k <= Len(s))
    <3>1. k - Len(s) \in DOMAIN t /\ u[k] = t[k - Len(s)]
      BY <1>1, <1>2, <1>3, <2>2
    <3> QED BY <3>1
  <2> QED BY <2>1, <2>2
<1>7. Ends(s) \subseteq Ends(u)
  BY <1>4 DEF Ends
<1>8. Ends(t) \subseteq Ends(u)
  <2> SUFFICES ASSUME NEW k \in DOMAIN t, Closes(t[k]) PROVE t[k].adu \in Ends(u)
    BY DEF Ends
  <2> DEFINE m == Len(s) + k
  <2>1. m \in DOMAIN u /\ u[m] = t[k]
    BY <1>5
  <2> HIDE DEF m
  <2> QED BY <2>1 DEF Ends
<1>9. Ends(u) \subseteq Ends(s) \cup Ends(t)
  <2> SUFFICES ASSUME NEW k \in DOMAIN u, Closes(u[k]) PROVE u[k].adu \in Ends(s) \cup Ends(t)
    BY DEF Ends
  <2> QED BY <1>6 DEF Ends
<1> QED BY <1>7, <1>8, <1>9 DEF u

\* One more at the end.
LEMMA EndsAppended ==
  ASSUME NEW s \in Seq(Fragments), NEW f \in Fragments
  PROVE  Ends(Append(s, f)) = Ends(s) \cup (IF Closes(f) THEN {f.adu} ELSE {})
<1> DEFINE u == Append(s, f)
           n == Len(s) + 1
<1>1. /\ n \in DOMAIN u /\ u[n] = f
      /\ \A k \in DOMAIN s : k \in DOMAIN u /\ u[k] = s[k]
      /\ \A k \in DOMAIN u : (k = n /\ u[k] = f) \/ (k \in DOMAIN s /\ u[k] = s[k])
  <2>1. Len(s) \in Nat /\ DOMAIN s = 1 .. Len(s)
    BY LenProperties
  <2>2. /\ u \in Seq(Fragments) /\ Len(u) = Len(s) + 1 /\ u[Len(s) + 1] = f
        /\ \A i \in 1 .. Len(s) : u[i] = s[i]
    BY AppendProperties
  <2>3. DOMAIN u = 1 .. Len(s) + 1
    BY <2>2, LenProperties
  <2> HIDE DEF u
  <2>4. \A k \in 1 .. Len(s) + 1 : k = Len(s) + 1 \/ k \in 1 .. Len(s)
    BY <2>1
  <2>5. Len(s) + 1 \in 1 .. Len(s) + 1 /\ \A k \in 1 .. Len(s) : k \in 1 .. Len(s) + 1
    BY <2>1
  <2> HIDE DEF n
  <2>6. n = Len(s) + 1
    BY DEF n
  <2> QED BY <2>1, <2>2, <2>3, <2>4, <2>5, <2>6, Zenon
<1> HIDE DEF u, n
<1>2. Ends(s) \subseteq Ends(u)
  BY <1>1 DEF Ends
<1>3. Closes(f) => f.adu \in Ends(u)
  BY <1>1 DEF Ends
<1>4. \A k \in DOMAIN u : Closes(u[k]) => u[k].adu \in Ends(s) \/ (Closes(f) /\ u[k].adu = f.adu)
  BY <1>1 DEF Ends
<1>5. Ends(u) \subseteq Ends(s) \cup (IF Closes(f) THEN {f.adu} ELSE {})
  BY <1>4 DEF Ends
<1> QED BY <1>2, <1>3, <1>5 DEF u

\* One less at the beginning.
LEMMA EndsTail ==
  ASSUME NEW s \in Seq(Fragments), s # <<>>
  PROVE  /\ Ends(Tail(s)) \subseteq Ends(s)
         /\ Closes(Head(s)) => Head(s).adu \in Ends(s)
         /\ Sorted(s) => /\ Sorted(Tail(s))
                         /\ Closes(Head(s)) => Before({Head(s).adu}, Ends(Tail(s)))
<1> DEFINE t == Tail(s)
           h == Head(s)
<1>1. /\ Len(s) \in Nat /\ DOMAIN s = 1 .. Len(s) /\ 1 \in DOMAIN s /\ h = s[1]
      /\ DOMAIN t = 1 .. (Len(s) - 1)
      /\ \A i \in 1 .. (Len(s) - 1) : t[i] = s[i + 1]
  <2>1. Len(s) \in Nat /\ DOMAIN s = 1 .. Len(s) /\ Len(s) # 0
    BY LenProperties, EmptySeq
  <2>2. t \in Seq(Fragments) /\ Len(t) = Len(s) - 1 /\ \A i \in 1 .. Len(t) : t[i] = s[i + 1]
    BY HeadTailProperties
  <2>3. DOMAIN t = 1 .. (Len(s) - 1)
    BY <2>2, LenProperties
  <2>4. h = s[1]
    BY DEF Head
  <2> HIDE DEF t, h
  <2> QED BY <2>1, <2>2, <2>3, <2>4
<1> HIDE DEF t, h
<1>2. \A i \in DOMAIN t : i + 1 \in DOMAIN s /\ t[i] = s[i + 1] /\ 1 < i + 1
  BY <1>1
<1>3. Ends(t) \subseteq Ends(s)
  <2> SUFFICES ASSUME NEW i \in DOMAIN t, Closes(t[i]) PROVE t[i].adu \in Ends(s)
    BY DEF Ends
  <2> DEFINE m == i + 1
  <2>1. m \in DOMAIN s /\ t[i] = s[m]
    BY <1>2
  <2> HIDE DEF m
  <2> QED BY <2>1 DEF Ends
<1>4. Closes(h) => h.adu \in Ends(s)
  BY <1>1 DEF Ends
<1>5. ASSUME Sorted(s) PROVE Sorted(t)
  <2> SUFFICES ASSUME NEW i \in DOMAIN t, NEW j \in DOMAIN t, i < j, Closes(t[i]), Closes(t[j])
               PROVE  On(t[i].adu) < On(t[j].adu)
    BY DEF Sorted
  <2> DEFINE m == i + 1
             n == j + 1
  <2>1. m \in DOMAIN s /\ t[i] = s[m] /\ n \in DOMAIN s /\ t[j] = s[n]
    BY <1>2
  <2>2. m < n
    BY <1>1
  <2> HIDE DEF m, n
  <2> QED BY <1>5, <2>1, <2>2 DEF Sorted
<1>6. ASSUME Sorted(s), Closes(h) PROVE Before({h.adu}, Ends(t))
  <2> SUFFICES ASSUME NEW i \in DOMAIN t, Closes(t[i]) PROVE On(h.adu) < On(t[i].adu)
    BY DEF Before, Ends
  <2> DEFINE m == i + 1
  <2>1. m \in DOMAIN s /\ t[i] = s[m] /\ 1 < m
    BY <1>2
  <2> HIDE DEF m
  <2> QED BY <1>1, <1>6, <2>1 DEF Sorted
<1> QED BY <1>3, <1>4, <1>5, <1>6 DEF t, h

\* What transact takes for the answer is one the bytes it read close.
LEMMA AssembledEnds ==
  ASSUME rx \in Seq(Fragments), Assembled.crc_ok
  PROVE  Assembled \in Ends(rx)
<1>1. Len(rx) \in Nat /\ DOMAIN rx = 1 .. Len(rx)
  BY LenProperties
<1>2. CASE Len(rx) = 1 /\ rx[1].part = "whole"
  <2>1. Assembled = rx[1].adu /\ 1 \in DOMAIN rx
    BY <1>1, <1>2 DEF Assembled
  <2> QED BY <1>2, <2>1 DEF Ends, Closes
<1>3. CASE Len(rx) = 2 /\ rx[1].part = "front" /\ rx[2].part = "back" /\ rx[1].adu = rx[2].adu
  <2>1. Assembled = rx[2].adu /\ 2 \in DOMAIN rx
    BY <1>1, <1>3 DEF Assembled
  <2> QED BY <1>3, <2>1 DEF Ends, Closes
<1> QED BY <1>2, <1>3, NoiseTyped DEF Assembled

\* What a device sends closes at most one answer, the reading.
LEMMA AnswerEnds ==
  ASSUME NEW adu \in RequestAdu, NEW n \in Nat, NEW a \in DeviceAnswers(adu, n)
  PROVE  /\ Ends(a) \subseteq {Reading(adu, n)}
         /\ \A i, j \in DOMAIN a : Closes(a[i]) /\ Closes(a[j]) => i = j
         /\ Len(a) <= 2 /\ \A i \in DOMAIN a : a[i].size <= 7
<1> DEFINE r == Reading(adu, n)
           b == [r EXCEPT !.crc_ok = FALSE]
<1>1. r \in Answer /\ b \in Answer /\ Size(r) = 7 /\ Size(b) = 7 /\ b.crc_ok = FALSE
  <2>1. r \in Answer /\ b \in Answer /\ Size(r) = 7
    BY ReadingTyped
  <2> HIDE DEF r
  <2> QED BY <2>1 DEF Size, Answer
<1>2. a \in { <<>>, <<Whole(r)>>, <<Whole(b)>>, <<Front(r), Back(r)>> }
  BY DEF DeviceAnswers
<1> HIDE DEF r, b
<1>3. /\ Whole(r).part = "whole" /\ Whole(r).adu = r /\ Whole(r).size = 7
      /\ Whole(b).adu = b /\ Whole(b).size = 7 /\ ~ Closes(Whole(b))
      /\ Front(r).size = 3 /\ ~ Closes(Front(r))
      /\ Back(r).size = 4 /\ Back(r).adu = r
  BY <1>1 DEF Whole, Front, Back, Fragment, Closes
<1>4. CASE a = <<>>
  BY <1>4, EndsNone, EmptySeq
<1>5. CASE a = <<Whole(r)>>
  <2>1. Len(a) = 1 /\ DOMAIN a = {1} /\ a[1] = Whole(r)
    BY <1>5
  <2> QED BY <1>3, <2>1 DEF Ends, r
<1>6. CASE a = <<Whole(b)>>
  <2>1. Len(a) = 1 /\ DOMAIN a = {1} /\ a[1] = Whole(b)
    BY <1>6
  <2> QED BY <1>3, <2>1 DEF Ends
<1>7. CASE a = <<Front(r), Back(r)>>
  <2>1. Len(a) = 2 /\ DOMAIN a = {1, 2} /\ a[1] = Front(r) /\ a[2] = Back(r)
    BY <1>7
  <2> QED BY <1>3, <2>1 DEF Ends, r
<1> QED BY <1>2, <1>4, <1>5, <1>6, <1>7

\* In order, and one more answer behind the others.
LEMMA SortedJoined ==
  ASSUME NEW s \in Seq(Fragments), NEW t \in Seq(Fragments), Sorted(s),
         Before(Ends(s), Ends(t)),
         \A i, j \in DOMAIN t : Closes(t[i]) /\ Closes(t[j]) => i = j
  PROVE  Sorted(s \o t)
<1> DEFINE u == s \o t
<1>1. /\ Len(s) \in Nat /\ DOMAIN s = 1 .. Len(s)
      /\ Len(t) \in Nat /\ DOMAIN t = 1 .. Len(t)
  BY LenProperties
<1>2. /\ u \in Seq(Fragments) /\ Len(u) = Len(s) + Len(t)
      /\ \A i \in 1 .. Len(s) + Len(t) : u[i] = IF i <= Len(s) THEN s[i] ELSE t[i - Len(s)]
  BY ConcatProperties
<1>3. DOMAIN u = 1 .. Len(s) + Len(t)
  BY <1>2, LenProperties
<1> HIDE DEF u
<1>4. SUFFICES ASSUME NEW i \in DOMAIN u, NEW j \in DOMAIN u, i < j, Closes(u[i]), Closes(u[j])
               PROVE  On(u[i].adu) < On(u[j].adu)
  BY DEF Sorted, u
<1>5. CASE j <= Len(s)
  <2>1. i \in DOMAIN s /\ j \in DOMAIN s /\ u[i] = s[i] /\ u[j] = s[j]
    BY <1>1, <1>2, <1>3, <1>4, <1>5
  <2> QED BY <1>4, <2>1 DEF Sorted
<1>6. CASE ~ (j <= Len(s)) /\ i <= Len(s)
  <2> DEFINE m == j - Len(s)
  <2>1. i \in DOMAIN s /\ m \in DOMAIN t /\ u[i] = s[i] /\ u[j] = t[m]
    BY <1>1, <1>2, <1>3, <1>6
  <2> HIDE DEF m
  <2>2. u[i].adu \in Ends(s) /\ u[j].adu \in Ends(t)
    BY <1>4, <2>1 DEF Ends
  <2> QED BY <2>2 DEF Before
<1>7. CASE ~ (i <= Len(s))
  <2> DEFINE m == i - Len(s)
             n == j - Len(s)
  <2>1. m \in DOMAIN t /\ n \in DOMAIN t /\ u[i] = t[m] /\ u[j] = t[n] /\ m # n
    BY <1>1, <1>2, <1>3, <1>4, <1>7
  <2> HIDE DEF m, n
  <2> QED BY <1>4, <2>1
<1>8. (j <= Len(s)) \/ (~ (j <= Len(s)) /\ i <= Len(s)) \/ ~ (i <= Len(s))
  OBVIOUS
<1> QED BY <1>5, <1>6, <1>7, <1>8

-----------------------------------------------------------------------------
(***************************************************************************)
(* The inductive invariant of OnlyWholeAnswers.                            *)
(***************************************************************************)

\* The answers on their way to transact, each of a request that was written, in
\* the order of the requests.
Coming  == Ends(rx) \cup Ends(line) \cup Ends(pend)
Traced  == \A a \in Coming : Known(a)
Ordered ==
  /\ Before(Ends(rx), Ends(line)) /\ Before(Ends(rx), Ends(pend))
  /\ Before(Ends(line), Ends(pend)) /\ Sorted(pend)

\* The answers that have arrived: those in the hands of a thread, which has one
\* only when it comes back from transact, and those handle has returned.
Quiet == \A c \in Clients : pc[c] # "return" => rsp[c] = <<>>
Held(c) == rsp[c] # <<>> /\ rsp[c][1].crc_ok
HeldKnown == \A c \in Clients : Held(c) => Known(rsp[c][1])

Passed(f) == f.pdu.fc < 128
LogKnown ==
  \A c \in Clients : \A i \in DOMAIN log[c] :
    Passed(log[c][i].rsp) =>
      /\ Len(log[c][i].rsp.pdu.regs) = 1
      /\ On(log[c][i].rsp) \in DOMAIN asked
      /\ log[c][i].rsp.unit_id = asked[On(log[c][i].rsp)].unit

\* The i-th call of thread c has, or is about to have, the answer to request n:
\* no other has it, and it is older than those that are still to come.
Gets(c, i, n) ==
  \/ i \in DOMAIN log[c] /\ Passed(log[c][i].rsp) /\ n = On(log[c][i].rsp)
  \/ i = Len(log[c]) + 1 /\ Held(c) /\ n = On(rsp[c][1])

Once ==
  \A c, d \in Clients : \A i, j, n \in Nat : Gets(c, i, n) /\ Gets(d, j, n) => c = d /\ i = j

Past == \A c \in Clients : \A i, n \in Nat : Gets(c, i, n) => \A a \in Coming : n < On(a)

Routed == Traced /\ Ordered /\ Quiet /\ HeldKnown /\ LogKnown /\ Once /\ Past

\* The types of what is on its way.
LEMMA WireTyped ==
  ASSUME Inv
  PROVE  /\ rx \in Seq(Fragments) /\ line \in Seq(Fragments) /\ pend \in Seq(Fragments)
         /\ <<>> \in Seq(Fragments) /\ Len(asked) \in Nat /\ DOMAIN asked = 1 .. Len(asked)
         /\ pc \in [Clients -> Places] /\ rsp \in [Clients -> Optional(Answer)]
         /\ log \in [Clients -> Seq([req : Requests, rsp : Forward])]
         /\ \A c \in Clients : Len(log[c]) \in Nat /\ DOMAIN log[c] = 1 .. Len(log[c])
<1>1. /\ rx \in Seq(Fragments) /\ line \in Seq(Fragments) /\ pend \in Seq(Fragments)
      /\ <<>> \in Seq(Fragments)
  BY EmptySeq DEF Inv, TypeOK, PortOK, LineOK
<1>2. Len(asked) \in Nat /\ DOMAIN asked = 1 .. Len(asked)
  BY LenProperties DEF Inv, TypeOK, HistoryOK
<1>3. /\ pc \in [Clients -> Places] /\ rsp \in [Clients -> Optional(Answer)]
      /\ log \in [Clients -> Seq([req : Requests, rsp : Forward])]
  BY DEF Inv, TypeOK, CallersOK, Places
<1>4. \A c \in Clients : Len(log[c]) \in Nat /\ DOMAIN log[c] = 1 .. Len(log[c])
  BY <1>3, LenProperties
<1> QED BY <1>1, <1>2, <1>3, <1>4

\* A step that asks nothing, delivers nothing new and puts nothing on the wire.
LEMMA RoutedKept ==
  ASSUME Routed, Coming' \subseteq Coming, Ordered', Quiet', LogKnown', asked' = asked,
         \A c \in Clients : Held(c)' => Held(c) /\ rsp'[c] = rsp[c],
         \A c \in Clients, i, n \in Nat : Gets(c, i, n)' => Gets(c, i, n)
  PROVE  Routed'
<1>1. Traced' /\ HeldKnown'
  BY DEF Routed, Traced, HeldKnown, Known
<1>2. Once'
  BY DEF Routed, Once
<1>3. Past'
  BY DEF Routed, Past
<1> QED BY <1>1, <1>2, <1>3 DEF Routed

\* A step on the wire or on the bus that brings no answer to a thread.
LEMMA WireKept ==
  ASSUME Inv, Routed, Coming' \subseteq Coming, Ordered', Quiet', UNCHANGED <<log, asked>>,
         \A c \in Clients : rsp'[c] = rsp[c] \/ rsp'[c] = <<>>
  PROVE  Routed'
<1>1. \A c \in Clients : Held(c)' => Held(c) /\ rsp'[c] = rsp[c]
  BY DEF Held
<1>2. \A c \in Clients, i, n \in Nat : Gets(c, i, n)' => Gets(c, i, n)
  BY <1>1 DEF Gets
<1>3. LogKnown'
  BY DEF Routed, LogKnown
<1> QED BY <1>1, <1>2, <1>3, RoutedKept

\* Queues that stay or are emptied.
LEMMA Dropped ==
  ASSUME Ordered, rx' = rx \/ rx' = <<>>, line' = line \/ line' = <<>>,
         pend' = pend \/ pend' = <<>>
  PROVE  Coming' \subseteq Coming /\ Ordered'
<1>1. /\ Ends(rx') \subseteq Ends(rx) /\ Ends(line') \subseteq Ends(line)
      /\ Ends(pend') \subseteq Ends(pend) /\ Sorted(pend')
  BY EndsNone DEF Ordered
<1> QED BY <1>1 DEF Coming, Ordered, Before

\* A thread that is not coming back, or comes back with nothing, has no answer.
LEMMA QuietKept ==
  ASSUME Inv, Quiet, NEW c \in Clients,
         \/ \E l \in Places \ {"return"} : /\ pc[c] # "return" /\ rsp' = rsp
                                           /\ pc' = [pc EXCEPT ![c] = l]
         \/ pc' = [pc EXCEPT ![c] = "return"] /\ rsp' = [rsp EXCEPT ![c] = <<>>]
  PROVE  Quiet' /\ \A d \in Clients : rsp'[d] = rsp[d] \/ rsp'[d] = <<>>
  BY WireTyped DEF Quiet

\* A fragment reaches the queue: its answer moves on, behind those before it.
LEMMA ArriveMoves ==
  ASSUME Inv, Routed, Arrive
  PROVE  Coming' \subseteq Coming /\ Ordered'
<1> DEFINE h == Head(pend)
           f == [h EXCEPT !.at = flushes]
<1>1. /\ UNCHANGED <<pc, rsp, log, asked, rx>> /\ pend # <<>> /\ pend' = Tail(pend)
      /\ line' = line \/ line' = Append(line, f)
  BY DEF Arrive, gatewayVars, portVars, history
<1>2. h \in Fragments /\ f \in Fragments /\ f.adu = h.adu /\ f.part = h.part
  <2>1. h \in Fragments
    BY <1>1, WireTyped, HeadTailProperties
  <2>2. flushes \in Nat
    BY DEF Inv, TypeOK, HistoryOK
  <2> HIDE DEF h
  <2> QED BY <2>1, <2>2, FragmentFields
<1>3. /\ Ends(pend') \subseteq Ends(pend) /\ Sorted(pend')
      /\ Closes(h) => h.adu \in Ends(pend) /\ Before({h.adu}, Ends(pend'))
  BY <1>1, WireTyped, EndsTail DEF Routed, Ordered
<1> HIDE DEF f, h
<1>4. Ends(line') \subseteq Ends(line) \cup (IF Closes(h) THEN {h.adu} ELSE {})
  <2>1. Closes(f) <=> Closes(h)
    BY <1>2 DEF Closes
  <2>2. Ends(Append(line, f)) = Ends(line) \cup (IF Closes(h) THEN {h.adu} ELSE {})
    BY <1>2, <2>1, WireTyped, EndsAppended
  <2> QED BY <1>1, <2>2
<1>5. Coming' \subseteq Coming
  BY <1>1, <1>3, <1>4 DEF Coming
<1>6. Ordered'
  BY <1>1, <1>3, <1>4 DEF Routed, Ordered, Before
<1> QED BY <1>5, <1>6

\* The environment.
LEMMA EnvironmentRouted ==
  ASSUME Inv, Routed, Environment
  PROVE  Routed'
<1>1. CASE Unplug \/ Plug \/ Tick
  <2>1. /\ UNCHANGED <<pc, rsp, log, asked, rx>>
        /\ (line' = line \/ line' = <<>>) /\ (pend' = pend \/ pend' = <<>>)
    BY <1>1 DEF Unplug, Plug, Tick, gatewayVars, portVars, history
  <2>2. Coming' \subseteq Coming /\ Ordered'
    BY <2>1, Dropped DEF Routed
  <2>3. Quiet'
    BY <2>1 DEF Routed, Quiet
  <2> QED BY <2>1, <2>2, <2>3, WireKept
<1>2. CASE Arrive
  <2>1. UNCHANGED <<pc, rsp, log, asked>>
    BY <1>2 DEF Arrive, gatewayVars, history
  <2>2. Quiet'
    BY <2>1 DEF Routed, Quiet
  <2> QED BY <1>2, <2>1, <2>2, ArriveMoves, WireKept
<1>3. CASE Babble
  <2> DEFINE f == [Burst EXCEPT !.at = flushes]
  <2>1. UNCHANGED <<pc, rsp, log, asked, rx, pend>> /\ line' = <<f>>
    BY <1>3 DEF Babble, gatewayVars, portVars, history
  <2>2. f \in Fragments /\ ~ Closes(f)
    <3>1. flushes \in Nat
      BY DEF Inv, TypeOK, HistoryOK
    <3>2. f.part = "noise"
      BY BurstTyped, FragmentFields, <3>1 DEF Burst, Fragment
    <3> QED BY <3>1, <3>2, BurstTyped, FragmentFields DEF Closes
  <2> HIDE DEF f
  <2>3. Ends(line') = {}
    <3>1. DOMAIN line' = {1} /\ line'[1] = f
      BY <2>1
    <3> QED BY <2>2, <3>1 DEF Ends
  <2>4. Coming' \subseteq Coming /\ Ordered'
    BY <2>1, <2>3 DEF Routed, Coming, Ordered, Before
  <2>5. Quiet'
    BY <2>1 DEF Routed, Quiet
  <2> QED BY <2>1, <2>4, <2>5, WireKept
<1> QED BY <1>1, <1>2, <1>3 DEF Environment

\* Steps on the bus that only take from the wire.
LEMMA TakesRouted ==
  ASSUME Inv, Routed, NEW c \in Clients,
         \/ Lock(c) \/ AlreadyOpen(c) \/ BackOff(c) \/ Open(c) \/ OpenFails(c)
         \/ Flush(c) \/ WriteFails(c) \/ ReadFails(c)
  PROVE  Routed'
<1>1. /\ UNCHANGED <<log, asked, pend>>
      /\ (rx' = rx \/ rx' = <<>>) /\ (line' = line \/ line' = <<>>)
  BY DEF Lock, AlreadyOpen, BackOff, Open, OpenFails, Flush, WriteFails, ReadFails, IoError,
         portVars, worldVars, history
<1>2. \/ \E l \in Places \ {"return"} : /\ pc[c] # "return" /\ rsp' = rsp
                                        /\ pc' = [pc EXCEPT ![c] = l]
      \/ pc' = [pc EXCEPT ![c] = "return"] /\ rsp' = [rsp EXCEPT ![c] = <<>>]
  <2>1. CASE BackOff(c) \/ OpenFails(c) \/ WriteFails(c) \/ ReadFails(c)
    BY <2>1 DEF BackOff, OpenFails, WriteFails, ReadFails, IoError, Return, TransactReturns
  <2>2. CASE Lock(c) \/ AlreadyOpen(c) \/ Open(c) \/ Flush(c)
    BY <2>2 DEF Lock, AlreadyOpen, Open, Flush, Goto, Places
  <2> QED BY <2>1, <2>2
<1>3. Quiet' /\ \A d \in Clients : rsp'[d] = rsp[d] \/ rsp'[d] = <<>>
  BY <1>2, QuietKept DEF Routed
<1>4. Coming' \subseteq Coming /\ Ordered'
  BY <1>1, Dropped DEF Routed
<1> QED BY <1>1, <1>3, <1>4, WireKept

\* Input is read: the answers in it move on to rsp, behind those already there.
LEMMA ReadRouted ==
  ASSUME Inv, Routed, NEW c \in Clients, Read(c)
  PROVE  Routed'
<1>1. /\ UNCHANGED <<rsp, log, asked, pend>> /\ rx' = rx \o line /\ line' = <<>>
      /\ pc[c] # "return" /\ \E l \in Places \ {"return"} : pc' = [pc EXCEPT ![c] = l]
  BY DEF Read, Goto, Places, history
<1>2. Quiet'
  BY <1>1, QuietKept DEF Routed
<1>3. Ends(rx') = Ends(rx) \cup Ends(line) /\ Ends(line') = {}
  BY <1>1, WireTyped, EndsJoined, EndsNone
<1>4. Coming' \subseteq Coming /\ Ordered'
  BY <1>1, <1>3 DEF Routed, Coming, Ordered, Before
<1> QED BY <1>1, <1>2, <1>4, WireKept

\* What a thread got was asked for.
LEMMA GetsAsked ==
  ASSUME Routed, NEW c \in Clients, NEW i \in Nat, NEW n \in Nat, Gets(c, i, n)
  PROVE  n \in DOMAIN asked
  BY DEF Routed, Gets, HeldKnown, LogKnown, Known

\* The entry of asked for the call thread c is making.
Own(c) == [client |-> c, call |-> Len(log[c]) + 1, unit |-> Req(c).unit_id]

\* The fragments a hold one answer at most, r, to request n, of that unit.
OneTo(a, r, n, unit) ==
  /\ Len(r.pdu.regs) = 1 /\ On(r) = n /\ r.addr = unit
  /\ Ends(a) \subseteq {r}
  /\ \A i, j \in DOMAIN a : Closes(a[i]) /\ Closes(a[j]) => i = j
  /\ Len(a) <= 2 /\ \A i \in DOMAIN a : a[i].size <= 7

\* A request is written: it is the last that was asked, and the device sends one
\* answer to it, or none.
LEMMA WriteAsks ==
  ASSUME Inv, NEW c \in Clients, Write(c)
  PROVE  /\ UNCHANGED <<req, rsp, log, line>> /\ rx' = <<>>
         /\ DOMAIN asked' = 1 .. Len(asked) + 1 /\ Len(asked') = Len(asked) + 1
         /\ asked'[Len(asked) + 1] = Own(c)
         /\ \A k \in DOMAIN asked : k \in DOMAIN asked' /\ asked'[k] = asked[k]
         /\ \E r \in Answer, a \in Seq(Fragments) :
              OneTo(a, r, Len(asked) + 1, Req(c).unit_id) /\ pend' = pend \o a
<1> DEFINE N == Len(asked) + 1
           e == Own(c)
<1>1. RtuReq(c) \in RequestAdu /\ RtuReq(c).addr = Req(c).unit_id
  <2>1. Req(c) \in Requests
    BY RequestInHand, CallersTyped DEF Inv, TypeOK, Write
  <2> QED BY <2>1, RequestFields DEF RtuReq
<1>2. UNCHANGED <<req, rsp, log, line>> /\ rx' = <<>> /\ asked' = Append(asked, e)
  BY <1>1 DEF Write, Own
<1>3. /\ DOMAIN asked' = 1 .. N /\ asked'[N] = e /\ Len(asked') = N
      /\ \A k \in DOMAIN asked : k \in DOMAIN asked' /\ asked'[k] = asked[k]
      /\ N \in Nat
  <2> DEFINE E == [client : Clients, call : Nat, unit : Byte]
  <2>1. asked \in Seq(E) /\ asked' \in Seq(E)
    <3>1. Inv'
      BY WriteKeeps
    <3> QED BY <3>1 DEF Inv, TypeOK, HistoryOK
  <2> HIDE DEF E, e
  <2>2. DOMAIN asked = 1 .. Len(asked) /\ Len(asked) \in Nat /\ Len(asked') \in Nat
        /\ DOMAIN asked' = 1 .. Len(asked')
    BY <2>1, LenProperties
  <2>3. /\ Len(asked') = Len(asked) + 1 /\ asked'[Len(asked) + 1] = e
        /\ \A k \in 1 .. Len(asked) : asked'[k] = asked[k]
    BY <1>2, <2>1
  <2> QED BY <2>2, <2>3
<1> HIDE DEF N
<1>4. PICK a \in DeviceAnswers(RtuReq(c), N) : pend' = pend \o a
  BY <1>3 DEF Write
<1>5. PICK r \in Answer : r = Reading(RtuReq(c), N)
  BY <1>1, <1>3, ReadingTyped
<1>6. /\ Ends(a) \subseteq {r} /\ a \in Seq(Fragments)
      /\ \A i, j \in DOMAIN a : Closes(a[i]) /\ Closes(a[j]) => i = j
      /\ Len(a) <= 2 /\ \A i \in DOMAIN a : a[i].size <= 7
  BY <1>1, <1>3, <1>4, <1>5, AnswerEnds, AnswersTyped
<1>7. r.addr = RtuReq(c).addr /\ r.pdu.regs = <<N>>
  BY <1>1, <1>3, <1>5, ReadingTyped
<1>8. On(r) = N /\ Len(r.pdu.regs) = 1
  BY <1>7 DEF On
<1>9. OneTo(a, r, N, Req(c).unit_id)
  BY <1>1, <1>6, <1>7, <1>8 DEF OneTo
<1> QED BY <1>2, <1>3, <1>4, <1>5, <1>6, <1>9 DEF N

\* Its answer, if there is one, is behind all others.
LEMMA WriteRouted ==
  ASSUME Inv, Routed, NEW c \in Clients, Write(c)
  PROVE  Routed'
<1> DEFINE N == Len(asked) + 1
<1>1. /\ UNCHANGED <<rsp, log, line>> /\ rx' = <<>>
      /\ pc[c] # "return" /\ \E l \in Places \ {"return"} : pc' = [pc EXCEPT ![c] = l]
  BY DEF Write, Goto, Places
<1>2. Quiet'
  BY <1>1, QuietKept DEF Routed
<1>3. /\ DOMAIN asked' = 1 .. N /\ asked'[N].unit = Req(c).unit_id
      /\ \A k \in DOMAIN asked : k \in DOMAIN asked' /\ asked'[k] = asked[k]
  <2>1. /\ DOMAIN asked' = 1 .. N /\ asked'[N] = Own(c)
        /\ \A k \in DOMAIN asked : k \in DOMAIN asked' /\ asked'[k] = asked[k]
    BY WriteAsks, Zenon
  <2>2. Own(c).unit = Req(c).unit_id
    BY DEF Own
  <2> QED BY <2>1, <2>2
<1>4. PICK r \in Answer, a \in Seq(Fragments) :
             OneTo(a, r, N, Req(c).unit_id) /\ pend' = pend \o a
  BY WriteAsks
<1>5. /\ Len(r.pdu.regs) = 1 /\ On(r) = N /\ r.addr = Req(c).unit_id
      /\ pend' = pend \o a /\ Ends(a) \subseteq {r} /\ a \in Seq(Fragments)
      /\ \A i, j \in DOMAIN a : Closes(a[i]) /\ Closes(a[j]) => i = j
  BY <1>4 DEF OneTo
<1>6. DOMAIN asked = 1 .. Len(asked) /\ Len(asked) \in Nat
  BY WireTyped
<1>7. N \in 1 .. N /\ \A k \in DOMAIN asked : k < N
  BY <1>6
<1> HIDE DEF N
<1>8. Known(r)'
  BY <1>3, <1>5, <1>7 DEF Known
<1>9. \A b \in Answer : Known(b) => Known(b)' /\ On(b) < N
  BY <1>3, <1>7 DEF Known
<1>10. Ends(pend') = Ends(pend) \cup Ends(a) /\ Ends(rx') = {}
  BY <1>1, <1>5, WireTyped, EndsJoined, EndsNone
<1>11. Coming' \subseteq Coming \cup {r}
  BY <1>1, <1>5, <1>10 DEF Coming
<1>12. \A b \in Coming : b \in Answer /\ Known(b)
  BY WireTyped, EndsTyped DEF Coming, Routed, Traced
<1>13. Traced'
  BY <1>8, <1>9, <1>11, <1>12 DEF Traced
<1>14. Ordered'
  <2>1. Before(Ends(pend), Ends(a)) /\ Before(Ends(line), Ends(pend'))
    BY <1>5, <1>9, <1>10, <1>12 DEF Routed, Ordered, Before, Coming
  <2>2. Sorted(pend')
    BY <1>5, <2>1, SortedJoined, WireTyped DEF Routed, Ordered
  <2> QED BY <1>1, <1>10, <2>1, <2>2 DEF Ordered, Before
<1>15. HeldKnown' /\ LogKnown'
  <2>1. HeldKnown'
    <3> SUFFICES ASSUME NEW d \in Clients, Held(d) PROVE Known(rsp[d][1])'
      BY <1>1 DEF HeldKnown, Held
    <3>1. Known(rsp[d][1])
      BY DEF Routed, HeldKnown
    <3> QED BY <1>1, <1>3, <3>1 DEF Known
  <2>2. LogKnown'
    BY <1>1, <1>3 DEF Routed, LogKnown
  <2> QED BY <2>1, <2>2
<1>16. \A d \in Clients, i, n \in Nat : Gets(d, i, n)' <=> Gets(d, i, n)
  BY <1>1 DEF Gets, Held
<1>17. Once'
  BY <1>16 DEF Routed, Once
<1>18. Past'
  <2> SUFFICES ASSUME NEW d \in Clients, NEW i \in Nat, NEW n \in Nat, Gets(d, i, n),
                      NEW b \in Coming'
               PROVE  n < On(b)
    BY <1>16 DEF Past
  <2>1. n < N
    BY <1>7, GetsAsked
  <2> QED BY <1>5, <1>11, <2>1 DEF Routed, Past
<1> QED BY <1>2, <1>13, <1>14, <1>15, <1>17, <1>18 DEF Routed

\* The loop ends: what the thread got is newer than all that was got before, and
\* older than all that is still to come.
LEMMA LoopEndsRouted ==
  ASSUME Inv, Routed, NEW c \in Clients, pc[c] \in {"poll", "full"},
         NEW x \in {<<>>, <<Assembled>>}, LoopEnds(c, x),
         UNCHANGED <<log, line, pend, asked>>
  PROVE  Routed'
<1> DEFINE a == Assembled
<1>1. /\ rx' = <<>> /\ pc' = [pc EXCEPT ![c] = "return"] /\ rsp' = [rsp EXCEPT ![c] = x]
  BY DEF LoopEnds, Return, TransactReturns
<1>2. /\ \A d \in Clients : pc'[d] = IF d = c THEN "return" ELSE pc[d]
      /\ \A d \in Clients : rsp'[d] = IF d = c THEN x ELSE rsp[d]
      /\ rsp[c] = <<>>
  BY <1>1, WireTyped DEF Routed, Quiet
<1>3. a.crc_ok => a \in Ends(rx)
  BY WireTyped, AssembledEnds
<1> HIDE DEF a
<1>4. x = <<>> \/ (x # <<>> /\ x[1] = a)
  BY DEF a
<1>5. Coming' \subseteq Coming /\ Ordered' /\ Ends(rx') = {}
  BY <1>1, Dropped, EndsNone DEF Routed
<1>6. Traced' /\ Quiet' /\ LogKnown'
  BY <1>2, <1>5 DEF Routed, Traced, Quiet, LogKnown, Known
<1>7. ~ Held(c) /\ \A d \in Clients : d # c => (Held(d)' <=> Held(d)) /\ rsp'[d] = rsp[d]
  BY <1>2 DEF Held
<1>8. Held(c)' => a \in Ends(rx) /\ rsp'[c][1] = a
  BY <1>2, <1>3, <1>4 DEF Held
<1>9. HeldKnown'
  <2> SUFFICES ASSUME NEW d \in Clients, Held(d)' PROVE Known(rsp[d][1])'
    BY DEF HeldKnown
  <2>1. Known(rsp'[d][1])
    BY <1>7, <1>8 DEF Routed, HeldKnown, Traced, Coming
  <2> QED BY <2>1 DEF Known
<1>10. ASSUME NEW d \in Clients, NEW i \in Nat, NEW n \in Nat, Gets(d, i, n)'
       PROVE  \/ Gets(d, i, n)
              \/ d = c /\ i = Len(log[c]) + 1 /\ n = On(a) /\ a \in Ends(rx)
  BY <1>7, <1>8, <1>10 DEF Gets
<1>11. ASSUME NEW d \in Clients, NEW i \in Nat, NEW n \in Nat, Gets(d, i, n), a \in Ends(rx)
       PROVE  n < On(a)
  BY <1>11 DEF Routed, Past, Coming
<1>12. Once'
  <2> SUFFICES ASSUME NEW d \in Clients, NEW e \in Clients, NEW i \in Nat, NEW j \in Nat,
                      NEW n \in Nat, Gets(d, i, n)', Gets(e, j, n)'
               PROVE  d = e /\ i = j
    BY DEF Once
  <2>1. ~ (n < n)
    OBVIOUS
  <2>2. CASE Gets(d, i, n) /\ Gets(e, j, n)
    BY <2>2 DEF Routed, Once
  <2>3. CASE ~ Gets(d, i, n) /\ ~ Gets(e, j, n)
    BY <1>10, <2>3
  <2>4. CASE Gets(d, i, n) /\ ~ Gets(e, j, n)
    BY <1>10, <1>11, <2>1, <2>4
  <2>5. CASE ~ Gets(d, i, n) /\ Gets(e, j, n)
    BY <1>10, <1>11, <2>1, <2>5
  <2> QED BY <2>2, <2>3, <2>4, <2>5
<1>13. Past'
  <2> SUFFICES ASSUME NEW d \in Clients, NEW i \in Nat, NEW n \in Nat, Gets(d, i, n)',
                      NEW b \in Coming'
               PROVE  n < On(b)
    BY DEF Past
  <2>1. b \in Ends(line) \cup Ends(pend)
    BY <1>5 DEF Coming
  <2>2. CASE Gets(d, i, n)
    BY <2>1, <2>2 DEF Routed, Past, Coming
  <2>3. CASE n = On(a) /\ a \in Ends(rx)
    BY <2>1, <2>3 DEF Routed, Ordered, Before
  <2> QED BY <1>10, <2>2, <2>3
<1> QED BY <1>5, <1>6, <1>9, <1>12, <1>13 DEF Routed

\* An exception of the gateway is no answer of a device.
LEMMA ExceptionNotPassed ==
  ASSUME NEW txn, NEW unit, NEW fc \in Byte, NEW ex
  PROVE  ~ Passed(make_exception(txn, unit, fc, ex))
<1>1. ExceptionFc(fc) \in Nat /\ ExceptionFc(fc) >= 128
  BY DEF ExceptionFc, Byte
<1>2. make_exception(txn, unit, fc, ex).pdu.fc = ExceptionFc(fc)
  BY DEF make_exception, ExceptionPdu
<1> HIDE DEF ExceptionFc
<1> QED BY <1>1, <1>2 DEF Passed

\* A response is the last entry of its thread's log.
LEMMA ReplyLogs ==
  ASSUME Inv, NEW c \in Clients, NEW r \in Requests, NEW f \in Forward, Reply(c, r, f)
  PROVE  /\ \A d \in Clients : d # c => log'[d] = log[d]
         /\ Len(log[c]) + 1 \in DOMAIN log'[c] /\ log'[c][Len(log[c]) + 1].rsp = f
         /\ \A k \in DOMAIN log'[c] :
              \/ k = Len(log[c]) + 1 /\ log'[c][k].rsp = f /\ log'[c][k].req = r
              \/ k \in DOMAIN log[c] /\ log'[c][k] = log[c][k]
<1> DEFINE E == [req : Requests, rsp : Forward]
           e == [req |-> r, rsp |-> f]
<1>1. log \in [Clients -> Seq(E)] /\ e \in E /\ e.rsp = f /\ e.req = r
  BY WireTyped
<1>2. log' = [log EXCEPT ![c] = Append(log[c], e)]
  BY DEF Reply
<1> HIDE DEF E, e
<1>3. /\ log[c] \in Seq(E) /\ log'[c] = Append(log[c], e)
      /\ \A d \in Clients : d # c => log'[d] = log[d]
  BY <1>1, <1>2
<1>4. /\ DOMAIN log'[c] = 1 .. Len(log[c]) + 1 /\ log'[c][Len(log[c]) + 1] = e
      /\ \A k \in DOMAIN log'[c] : \/ k = Len(log[c]) + 1 /\ log'[c][k] = e
                                   \/ k \in DOMAIN log[c] /\ log'[c][k] = log[c][k]
  BY <1>1, <1>3, Appended
<1>5. Len(log[c]) + 1 \in 1 .. Len(log[c]) + 1
  BY WireTyped
<1> QED BY <1>1, <1>3, <1>4, <1>5

\* handle returns f: an exception, or the answer in the thread's hands.
LEMMA ReplyRouted ==
  ASSUME Inv, Routed, NEW c \in Clients, NEW r \in Requests, NEW f \in Forward, Reply(c, r, f),
         Passed(f) => Held(c) /\ f.unit_id = rsp[c][1].addr /\ f.pdu = rsp[c][1].pdu,
         Quiet', rsp'[c] = <<>>, \A d \in Clients : d # c => rsp'[d] = rsp[d],
         UNCHANGED <<rx, line, pend, asked>>
  PROVE  Routed'
<1> DEFINE m == Len(log[c]) + 1
<1>1. \A d \in Clients : d # c => log'[d] = log[d]
  BY ReplyLogs
<1>2. /\ m \in DOMAIN log'[c] /\ log'[c][m].rsp = f
      /\ \A k \in DOMAIN log'[c] : k = m \/ (k \in DOMAIN log[c] /\ log'[c][k] = log[c][k])
  BY ReplyLogs
<1> HIDE DEF m
<1>3. Passed(f) => On(f) = On(rsp[c][1]) /\ Held(c)
  BY DEF On
<1>4. LogKnown'
  <2> SUFFICES ASSUME NEW d \in Clients, NEW i \in DOMAIN log'[d], Passed(log'[d][i].rsp)
               PROVE  /\ Len(log'[d][i].rsp.pdu.regs) = 1
                      /\ On(log'[d][i].rsp) \in DOMAIN asked
                      /\ log'[d][i].rsp.unit_id = asked[On(log'[d][i].rsp)].unit
    BY DEF LogKnown, On, Passed
  <2>1. CASE d = c /\ i = m
    <3>1. log'[d][i].rsp = f /\ Passed(f)
      BY <1>2, <2>1
    <3>2. Known(rsp[c][1])
      BY <1>3, <3>1 DEF Routed, HeldKnown
    <3> QED BY <1>3, <3>1, <3>2 DEF Known
  <2>2. CASE ~ (d = c /\ i = m)
    <3>1. i \in DOMAIN log[d] /\ log'[d][i] = log[d][i]
      BY <1>1, <1>2, <2>2
    <3> QED BY <3>1 DEF Routed, LogKnown
  <2> QED BY <2>1, <2>2
<1>5. \A d \in Clients : Held(d)' => Held(d) /\ rsp'[d] = rsp[d]
  BY DEF Held
<1>6. \A d \in Clients, i, n \in Nat : Gets(d, i, n)' => Gets(d, i, n)
  <2> SUFFICES ASSUME NEW d \in Clients, NEW i \in Nat, NEW n \in Nat, Gets(d, i, n)'
               PROVE  Gets(d, i, n)
    OBVIOUS
  <2>1. CASE d # c
    BY <1>1, <1>5, <2>1 DEF Gets
  <2>2. CASE d = c
    <3>1. i \in DOMAIN log'[c] /\ Passed(log'[c][i].rsp) /\ n = On(log'[c][i].rsp)
      BY <2>2 DEF Gets, Held, Passed, On
    <3>2. CASE i = m
      BY <1>2, <1>3, <2>2, <3>1, <3>2 DEF Gets, m
    <3>3. CASE i # m
      BY <1>2, <2>2, <3>1, <3>3 DEF Gets
    <3> QED BY <3>2, <3>3
  <2> QED BY <2>1, <2>2
<1>7. Coming' \subseteq Coming /\ Ordered'
  BY Dropped DEF Routed
<1> QED BY <1>4, <1>5, <1>6, <1>7, RoutedKept

\* Before the transport.
LEMMA CallRouted ==
  ASSUME Inv, Routed, NEW c \in Clients, CallStep(c)
  PROVE  Routed'
<1>1. PICK r \in Requests : HandleEmpty(c, r) \/ HandleCall(c, r)
  BY DEF CallStep
<1>2. UNCHANGED <<rx, line, pend, asked>> /\ pc[c] = "idle" /\ rsp[c] = <<>>
  BY <1>1 DEF CallStep, HandleEmpty, HandleCall, portVars, worldVars, history, Routed, Quiet
<1>3. CASE HandleEmpty(c, r)
  <2> DEFINE f == make_exception(r.transaction_id, r.unit_id, 0, EX_GATEWAY_PATH_UNAVAILABLE)
  <2>1. Reply(c, r, f) /\ UNCHANGED <<pc, rsp>>
    BY <1>3 DEF HandleEmpty
  <2>2. 0 \in Byte /\ EX_GATEWAY_PATH_UNAVAILABLE \in Byte
    BY DEF Byte, EX_GATEWAY_PATH_UNAVAILABLE
  <2>3. f \in Forward /\ ~ Passed(f)
    BY <2>2, RequestFields, MakeExceptionFrame, ExceptionsForwarded, ExceptionNotPassed
  <2> HIDE DEF f
  <2>4. Quiet'
    BY <2>1 DEF Routed, Quiet
  <2> QED BY <1>2, <2>1, <2>3, <2>4, ReplyRouted
<1>4. CASE HandleCall(c, r)
  <2>1. pc' = [pc EXCEPT ![c] = "transact"] /\ rsp' = [rsp EXCEPT ![c] = <<>>] /\ log' = log
    BY <1>4 DEF HandleCall
  <2>2. Quiet' /\ \A d \in Clients : rsp'[d] = rsp[d] \/ rsp'[d] = <<>>
    BY <2>1, WireTyped DEF Routed, Quiet
  <2>3. Coming' \subseteq Coming /\ Ordered'
    BY <1>2, Dropped DEF Routed
  <2> QED BY <1>2, <2>1, <2>2, <2>3, WireKept
<1> QED BY <1>1, <1>3, <1>4

\* A connection is closed: nothing is on its way to that thread.
LEMMA CloseRouted ==
  ASSUME Inv, Routed, NEW c \in Clients, CloseStep(c)
  PROVE  Routed'
<1>1. /\ UNCHANGED <<rx, line, pend, asked, rsp, log>> /\ pc[c] = "idle"
      /\ pc' = [pc EXCEPT ![c] = "closed"]
  BY DEF CloseStep, FramingError, portVars, worldVars, history
<1>2. Quiet' /\ \A d \in Clients : rsp'[d] = rsp[d] \/ rsp'[d] = <<>>
  BY <1>1, WireTyped DEF Routed, Quiet
<1>3. Coming' \subseteq Coming /\ Ordered'
  BY <1>1, Dropped DEF Routed
<1> QED BY <1>1, <1>2, <1>3, WireKept

\* After it.
LEMMA LeaveRouted ==
  ASSUME Inv, Routed, NEW c \in Clients, LeaveStep(c)
  PROVE  Routed'
<1>1. UNCHANGED <<rx, line, pend, asked>> /\ pc[c] = "return"
  BY DEF LeaveStep, HandleTimeout, HandleCrcFailure, HandleResponse, portVars, worldVars,
         history
<1>2. Req(c) \in Requests /\ rsp[c] \in Optional(Answer)
  BY <1>1, RequestInHand, CallersTyped, WireTyped DEF Inv, TypeOK
<1>3. PICK k \in Counters, f \in Forward :
        /\ Leave(c, k, f)
        /\ Passed(f) => Held(c) /\ f.unit_id = rsp[c][1].addr /\ f.pdu = rsp[c][1].pdu
  <2>1. NoResponse(c) \in Forward /\ ~ Passed(NoResponse(c))
    BY <1>2, NoResponseTyped, ExceptionsForwarded, RequestFields, ExceptionNotPassed
       DEF NoResponse
  <2>2. "timeouts" \in Counters /\ "crc_failures" \in Counters /\ "responses" \in Counters
    BY DEF Counters
  <2>3. CASE HandleTimeout(c)
    BY <2>1, <2>2, <2>3 DEF HandleTimeout
  <2>4. CASE HandleCrcFailure(c)
    BY <2>1, <2>2, <2>4 DEF HandleCrcFailure
  <2>5. CASE HandleResponse(c)
    BY <1>2, <2>2, <2>5, TranslatedTyped DEF HandleResponse, Held
  <2> QED BY <2>3, <2>4, <2>5 DEF LeaveStep
<1>4. /\ Reply(c, Req(c), f) /\ pc' = [pc EXCEPT ![c] = "idle"]
      /\ rsp' = [rsp EXCEPT ![c] = <<>>]
  BY <1>3 DEF Leave
<1>5. /\ rsp'[c] = <<>> /\ \A d \in Clients : d # c => rsp'[d] = rsp[d] /\ pc'[d] = pc[d]
  BY <1>4, WireTyped
<1>6. Quiet'
  BY <1>5 DEF Routed, Quiet
<1> QED BY <1>1, <1>2, <1>3, <1>4, <1>5, <1>6, ReplyRouted

\* Every step on the bus.
LEMMA TransportRouted ==
  ASSUME Inv, Routed, NEW c \in Clients, TransportStep(c)
  PROVE  Routed'
<1>1. ASSUME ReadFull(c) \/ Silence(c) \/ HangUp(c) PROVE Routed'
  <2>1. PICK x \in {<<>>, <<Assembled>>} : LoopEnds(c, x)
    BY <1>1 DEF ReadFull, Silence, HangUp
  <2>2. UNCHANGED <<log, line, pend, asked>> /\ pc[c] \in {"poll", "full"}
    BY <1>1 DEF ReadFull, Silence, HangUp, worldVars, history
  <2> QED BY <2>1, <2>2, LoopEndsRouted
<1> QED BY <1>1, TakesRouted, ReadRouted, WriteRouted DEF TransportStep

\* Initially nothing is asked and nothing is on its way.
LEMMA InitRouted == Init => Routed
<1> SUFFICES ASSUME Init PROVE Routed
  OBVIOUS
<1>1. /\ rx = <<>> /\ line = <<>> /\ pend = <<>>
      /\ \A c \in Clients : rsp[c] = <<>> /\ log[c] = <<>>
  BY DEF Init, GatewayInit
<1>2. Ends(rx) = {} /\ Ends(line) = {} /\ Ends(pend) = {} /\ Sorted(pend)
  BY <1>1, EndsNone
<1>3. Traced /\ Ordered /\ Quiet
  BY <1>1, <1>2 DEF Traced, Coming, Ordered, Before, Quiet
<1>4. \A c \in Clients : DOMAIN log[c] = {} /\ ~ Held(c)
  BY <1>1, EmptySeq DEF Held
<1>5. HeldKnown /\ LogKnown
  BY <1>4 DEF HeldKnown, LogKnown
<1>6. Once /\ Past
  BY <1>4 DEF Once, Past, Gets
<1> QED BY <1>3, <1>5, <1>6 DEF Routed

\* Every step keeps it.
LEMMA NextRouted == Inv /\ Routed /\ [Next]_vars => Routed'
<1>1. ASSUME Inv, Routed, NEW c \in Clients, CallStep(c) \/ CloseStep(c) \/ Progress(c)
      PROVE  Routed'
  BY <1>1, CallRouted, CloseRouted, LeaveRouted, TransportRouted DEF Progress
<1>2. ASSUME Inv, Routed, Environment PROVE Routed'
  BY <1>2, EnvironmentRouted
<1>3. ASSUME Inv, Routed, UNCHANGED vars PROVE Routed'
  <2>1. UNCHANGED <<pc, rsp, log, asked, rx, line, pend>>
    BY <1>3 DEF vars
  <2>2. Coming' \subseteq Coming /\ Ordered'
    BY <1>3, <2>1, Dropped DEF Routed
  <2>3. Quiet'
    BY <1>3, <2>1 DEF Routed, Quiet
  <2> QED BY <1>3, <2>1, <2>2, <2>3, WireKept
<1> QED BY <1>1, <1>2, <1>3 DEF Next

(***************************************************************************)
(* On any line, however late, cut, noisy or unplugged: an answer a master  *)
(* gets is a complete one of the device whose unit id it carries, and no   *)
(* two calls get the same.                                                 *)
(***************************************************************************)
THEOREM OnlyWhole == Spec => []OnlyWholeAnswers
<1>1. Inv /\ Routed => OnlyWholeAnswers
  <2> SUFFICES ASSUME Inv, Routed PROVE OnlyWholeAnswers
    OBVIOUS
  <2>1. ASSUME NEW ci \in Forwarded
        PROVE  /\ ci[1] \in Clients /\ ci[2] \in DOMAIN log[ci[1]] /\ ci[2] \in Nat
               /\ Passed(log[ci[1]][ci[2]].rsp) /\ ci = <<ci[1], ci[2]>>
               /\ SentFor(ci) = On(log[ci[1]][ci[2]].rsp)
    <3>1. ci \in Clients \X (1 .. MaxCalls)
      BY DEF Forwarded
    <3>2. ci[1] \in Clients /\ ci[2] \in 1 .. MaxCalls /\ ci = <<ci[1], ci[2]>>
      BY <3>1
    <3> QED BY <3>2, GatewayAssumption DEF Forwarded, Passed, SentFor, On
  <2>2. ASSUME NEW ci \in Forwarded
        PROVE  /\ Len(log[ci[1]][ci[2]].rsp.pdu.regs) = 1
               /\ SentFor(ci) \in DOMAIN asked
               /\ log[ci[1]][ci[2]].rsp.unit_id = asked[SentFor(ci)].unit
    BY <2>1 DEF Routed, LogKnown
  <2>3. ASSUME NEW ci \in Forwarded, NEW dj \in Forwarded, SentFor(ci) = SentFor(dj)
        PROVE  ci = dj
    <3>1. SentFor(ci) \in Nat
      BY <2>2, WireTyped
    <3>2. Gets(ci[1], ci[2], SentFor(ci)) /\ Gets(dj[1], dj[2], SentFor(ci))
      BY <2>1, <2>3 DEF Gets
    <3>3. ci[1] = dj[1] /\ ci[2] = dj[2]
      BY <2>1, <3>1, <3>2 DEF Routed, Once
    <3> QED BY <2>1, <3>3
  <2> QED BY <2>2, <2>3 DEF OnlyWholeAnswers
<1> QED BY <1>1, InitInv, NextInv, InitRouted, NextRouted, PTL DEF Spec

-----------------------------------------------------------------------------
(***************************************************************************)
(* A line that keeps the timing the gateway is configured for, without     *)
(* noise: an answer that is still to come when a transaction ends would    *)
(* have been waited for.                                                   *)
(***************************************************************************)

\* Only a thread that polls a live port has anything on its way ...
NoLeftovers == (\A c \in Clients : pc[c] # "poll") \/ fd # "live" => pend = <<>> /\ line = <<>>

\* ... and that is one answer to the request it wrote.
OneAnswer ==
  \A c \in Clients : pc[c] = "poll" =>
    /\ Len(asked) # 0 /\ asked[Len(asked)] = Own(c)
    /\ \A a \in Coming : On(a) = Len(asked)
    /\ Len(rx) + Len(line) + Len(pend) <= 2

\* So the buffer is never full.
Small(s)  == \A k \in DOMAIN s : s[k].size <= 7
AllSmall  == Small(rx) /\ Small(line) /\ Small(pend)
NeverFull == \A c \in Clients : pc[c] # "full"

HeldOwn == \A c \in Clients : Held(c) => asked[On(rsp[c][1])] = Own(c)

LogOwn ==
  \A c \in Clients : \A i \in DOMAIN log[c] :
    Passed(log[c][i].rsp) =>
      asked[On(log[c][i].rsp)] =
        [client |-> c, call |-> i, unit |-> log[c][i].req.unit_id]

Prompt ==
  /\ NoLeftovers /\ OneAnswer /\ AllSmall /\ NeverFull /\ HeldOwn /\ LogOwn
  /\ RoutingInvariant

\* Two fragments of an answer do not fill the buffer.
LEMMA FewBytes ==
  ASSUME NEW s \in Seq(Fragments), Len(s) <= 2, Small(s)
  PROVE  ~ (BytesOf(s) >= MB_ADU_MAX)
<1> DEFINE D == 0 .. Len(s)
           Is(f) == f = [k \in D |-> IF k = 0 THEN 0 ELSE f[k - 1] + s[k].size]
           g == CHOOSE f : Is(f)
           h == [k \in D |-> IF k = 0 THEN 0 ELSE IF k = 1 THEN 0 + s[1].size
                             ELSE (0 + s[1].size) + s[2].size]
<1>1. Len(s) \in {0, 1, 2} /\ DOMAIN s = 1 .. Len(s)
  <2>1. Len(s) \in Nat /\ DOMAIN s = 1 .. Len(s)
    BY LenProperties
  <2>2. \A n \in Nat : n <= 2 => n \in {0, 1, 2}
    OBVIOUS
  <2> QED BY <2>1, <2>2, Zenon
<1>2. \A k \in D : k = 0 \/ (k = 1 /\ 0 \in D) \/ (k = 2 /\ 1 \in D)
  BY <1>1
<1>3. Is(h)
  <2>1. \A k \in D : h[k] = IF k = 0 THEN 0 ELSE h[k - 1] + s[k].size
    <3> SUFFICES ASSUME NEW k \in D
                 PROVE  h[k] = IF k = 0 THEN 0 ELSE h[k - 1] + s[k].size
      OBVIOUS
    <3>1. CASE k = 0
      BY <3>1
    <3>2. CASE k = 1 /\ 0 \in D
      BY <3>2
    <3>3. CASE k = 2 /\ 1 \in D
      BY <3>3
    <3> QED BY <1>2, <3>1, <3>2, <3>3
  <2>2. h = [k \in D |-> h[k]]
    OBVIOUS
  <2> HIDE DEF h
  <2> QED BY <2>1, <2>2
<1> HIDE DEF h
<1>4. Is(g)
  BY <1>3, Zenon
<1>5. BytesOf(s) = g[Len(s)]
  BY Zenon DEF BytesOf
<1>6. \A k \in D : g[k] = IF k = 0 THEN 0 ELSE g[k - 1] + s[k].size
  <2> HIDE DEF g
  <2> QED BY <1>4
<1> HIDE DEF g
<1>7. \A k \in DOMAIN s : s[k].size \in 1 .. 7
  <2>1. \A k \in DOMAIN s : s[k].size \in 1 .. MB_ADU_MAX
    BY <1>1, ElementOfSeq, FragmentFields
  <2>2. \A v : v \in 1 .. MB_ADU_MAX /\ v <= 7 => v \in 1 .. 7
    BY DEF MB_ADU_MAX
  <2> QED BY <2>1, <2>2, Zenon DEF Small
<1>8. CASE Len(s) = 0
  BY <1>5, <1>6, <1>8 DEF MB_ADU_MAX
<1>9. CASE Len(s) = 1
  <2>1. g[0] = 0 /\ g[1] = g[0] + s[1].size /\ s[1].size \in 1 .. 7
    BY <1>1, <1>6, <1>7, <1>9
  <2> QED BY <1>5, <1>9, <2>1 DEF MB_ADU_MAX
<1>10. CASE Len(s) = 2
  <2>1. /\ g[0] = 0 /\ g[1] = g[0] + s[1].size /\ g[2] = g[1] + s[2].size
        /\ s[1].size \in 1 .. 7 /\ s[2].size \in 1 .. 7
    BY <1>1, <1>6, <1>7, <1>10
  <2> QED BY <1>5, <1>10, <2>1 DEF MB_ADU_MAX
<1> QED BY <1>1, <1>8, <1>9, <1>10

\* A step that asks nothing, delivers nothing and puts nothing on the wire.
LEMMA PromptKept ==
  ASSUME Prompt, Coming' \subseteq Coming, UNCHANGED <<req, log, asked>>,
         Len(rx') + Len(line') + Len(pend') <= Len(rx) + Len(line) + Len(pend),
         Len(rx) + Len(line) + Len(pend) \in Nat, Len(rx') + Len(line') + Len(pend') \in Nat,
         \A c \in Clients : rsp'[c] = rsp[c] \/ rsp'[c] = <<>>,
         \A c \in Clients : pc'[c] = "poll" => pc[c] = "poll",
         NeverFull', AllSmall', NoLeftovers'
  PROVE  Prompt'
<1>1. \A c \in Clients : Own(c)' = Own(c)
  BY DEF Own, Req
<1>2. OneAnswer'
  <2> SUFFICES ASSUME NEW c \in Clients, pc'[c] = "poll"
               PROVE  /\ Len(asked) # 0 /\ asked[Len(asked)] = Own(c)
                      /\ \A a \in Coming' : On(a) = Len(asked)
                      /\ Len(rx') + Len(line') + Len(pend') <= 2
    BY <1>1 DEF OneAnswer, On
  <2>1. /\ Len(asked) # 0 /\ asked[Len(asked)] = Own(c)
        /\ \A a \in Coming : On(a) = Len(asked)
        /\ Len(rx) + Len(line) + Len(pend) <= 2
    BY DEF Prompt, OneAnswer
  <2> DEFINE m == Len(rx) + Len(line) + Len(pend)
             n == Len(rx') + Len(line') + Len(pend')
  <2>2. m \in Nat /\ n \in Nat /\ n <= m /\ m <= 2
    BY <2>1
  <2> HIDE DEF m, n
  <2>3. n <= 2
    BY <2>2
  <2> QED BY <2>1, <2>3 DEF n
<1>3. HeldOwn'
  BY <1>1 DEF Prompt, HeldOwn, Held, On
<1>4. LogOwn' /\ RoutingInvariant'
  BY DEF Prompt, LogOwn, RoutingInvariant
<1> QED BY <1>2, <1>3, <1>4 DEF Prompt

\* How much is on its way.
LEMMA WireLengths ==
  ASSUME Inv
  PROVE  /\ Len(rx) \in Nat /\ Len(line) \in Nat /\ Len(pend) \in Nat
         /\ Len(rx) + Len(line) + Len(pend) \in Nat
<1>1. Len(rx) \in Nat /\ Len(line) \in Nat /\ Len(pend) \in Nat
  BY WireTyped, LenProperties
<1> QED BY <1>1

\* Queues that stay or are emptied.
LEMMA DroppedSmall ==
  ASSUME Inv, Routed, Prompt, rx' = rx \/ rx' = <<>>, line' = line \/ line' = <<>>,
         pend' = pend \/ pend' = <<>>
  PROVE  /\ AllSmall' /\ Coming' \subseteq Coming
         /\ Len(rx') + Len(line') + Len(pend') <= Len(rx) + Len(line) + Len(pend)
         /\ Len(rx') + Len(line') + Len(pend') \in Nat
<1>1. Coming' \subseteq Coming
  BY Dropped DEF Routed
<1>2. DOMAIN <<>> = {} /\ Len(<<>>) = 0
  BY EmptySeq
<1>3. AllSmall'
  BY <1>2 DEF Prompt, AllSmall, Small
<1>4. /\ Len(rx') \in {0, Len(rx)} /\ Len(line') \in {0, Len(line)}
      /\ Len(pend') \in {0, Len(pend)}
  BY <1>2
<1>5. Len(rx) \in Nat /\ Len(line) \in Nat /\ Len(pend) \in Nat
  BY WireLengths
<1>6. /\ Len(rx') + Len(line') + Len(pend') <= Len(rx) + Len(line) + Len(pend)
      /\ Len(rx') + Len(line') + Len(pend') \in Nat
  BY <1>4, <1>5
<1> QED BY <1>1, <1>3, <1>6

\* The environment; there is no noise.
LEMMA EnvironmentPrompt ==
  ASSUME Inv, Routed, Prompt, Environment, ~ MayBabble
  PROVE  Prompt'
<1>1. CASE Unplug \/ Plug \/ Tick
  <2>1. /\ UNCHANGED <<pc, req, rsp, log, asked, rx>>
        /\ (line' = line \/ line' = <<>>) /\ (pend' = pend \/ pend' = <<>>)
        /\ fd' = fd \/ (line' = <<>> /\ pend' = <<>>)
    BY <1>1 DEF Unplug, Plug, Tick, gatewayVars, portVars, history
  <2>2. /\ AllSmall' /\ Coming' \subseteq Coming
        /\ Len(rx') + Len(line') + Len(pend') <= Len(rx) + Len(line) + Len(pend)
        /\ Len(rx') + Len(line') + Len(pend') \in Nat
    BY <2>1, DroppedSmall
  <2>3. NoLeftovers' /\ NeverFull'
    BY <2>1 DEF Prompt, NoLeftovers, NeverFull
  <2> QED BY <2>1, <2>2, <2>3, WireLengths, PromptKept
<1>2. CASE Arrive
  <2> DEFINE h == Head(pend)
             f == [h EXCEPT !.at = flushes]
  <2>1. /\ UNCHANGED <<pc, req, rsp, log, asked, rx, fd>> /\ pend # <<>> /\ pend' = Tail(pend)
        /\ line' = IF fd = "live" THEN Append(line, f) ELSE line
    BY <1>2 DEF Arrive, gatewayVars, portVars, history
  <2>2. Coming' \subseteq Coming
    BY <1>2, ArriveMoves
  <2>3. fd = "live" /\ line' = Append(line, f) /\ NoLeftovers' /\ NeverFull'
    BY <2>1 DEF Prompt, NoLeftovers, NeverFull
  <2>4. h \in Fragments /\ f \in Fragments /\ f.size = h.size
    <3>1. h \in Fragments
      BY <2>1, WireTyped, HeadTailProperties
    <3>2. flushes \in Nat
      BY DEF Inv, TypeOK, HistoryOK
    <3> HIDE DEF h
    <3> QED BY <3>1, <3>2, FragmentFields
  <2>5. /\ h = pend[1] /\ 1 \in DOMAIN pend /\ Len(pend') = Len(pend) - 1 /\ Len(pend) # 0
        /\ \A k \in DOMAIN pend' : k + 1 \in DOMAIN pend /\ pend'[k] = pend[k + 1]
    <3>1. Len(pend) \in Nat /\ DOMAIN pend = 1 .. Len(pend) /\ Len(pend) # 0
      BY <2>1, WireTyped, LenProperties, EmptySeq
    <3>2. /\ pend' \in Seq(Fragments) /\ Len(pend') = Len(pend) - 1
          /\ \A i \in 1 .. Len(pend') : pend'[i] = pend[i + 1]
      BY <2>1, WireTyped, HeadTailProperties
    <3>3. DOMAIN pend' = 1 .. Len(pend')
      BY <3>2, LenProperties
    <3>4. h = pend[1]
      BY DEF Head
    <3> HIDE DEF h
    <3>5. 1 \in DOMAIN pend /\ \A k \in DOMAIN pend' : k + 1 \in DOMAIN pend
      BY <3>1, <3>2, <3>3
    <3> QED BY <3>1, <3>2, <3>3, <3>4, <3>5
  <2> HIDE DEF f, h
  <2>6. /\ Len(line') = Len(line) + 1
        /\ \A k \in DOMAIN line' : line'[k] = f \/ (k \in DOMAIN line /\ line'[k] = line[k])
    BY <2>3, <2>4, WireTyped, Appended, AppendProperties
  <2>7. AllSmall'
    BY <2>1, <2>4, <2>5, <2>6 DEF Prompt, AllSmall, Small
  <2>8. /\ Len(rx') + Len(line') + Len(pend') <= Len(rx) + Len(line) + Len(pend)
        /\ Len(rx') + Len(line') + Len(pend') \in Nat
    BY <2>1, <2>5, <2>6, WireLengths
  <2> QED BY <2>1, <2>2, <2>3, <2>7, <2>8, WireLengths, PromptKept
<1> QED BY <1>1, <1>2 DEF Environment, Babble

\* Steps on the bus that only take from the wire.
LEMMA TakesPrompt ==
  ASSUME Inv, Routed, Prompt, NEW c \in Clients,
         \/ Lock(c) \/ AlreadyOpen(c) \/ BackOff(c) \/ Open(c) \/ OpenFails(c)
         \/ Flush(c) \/ WriteFails(c) \/ ReadFails(c)
  PROVE  Prompt'
<1>1. /\ UNCHANGED <<req, log, asked, pend>>
      /\ (rx' = rx \/ rx' = <<>>) /\ (line' = line \/ line' = <<>>)
  BY DEF Lock, AlreadyOpen, BackOff, Open, OpenFails, Flush, WriteFails, ReadFails, IoError,
         portVars, worldVars, history
<1>2. /\ rsp' = rsp \/ rsp' = [rsp EXCEPT ![c] = <<>>]
      /\ \E l \in Places \ {"poll", "full"} : pc' = [pc EXCEPT ![c] = l]
  <2>1. CASE BackOff(c) \/ OpenFails(c) \/ WriteFails(c) \/ ReadFails(c)
    BY <2>1 DEF BackOff, OpenFails, WriteFails, ReadFails, IoError, Return, TransactReturns,
                Places
  <2>2. CASE Lock(c) \/ AlreadyOpen(c) \/ Open(c) \/ Flush(c)
    BY <2>2 DEF Lock, AlreadyOpen, Open, Flush, Goto, Places
  <2> QED BY <2>1, <2>2
<1>3. \A d \in Clients : /\ rsp'[d] = rsp[d] \/ rsp'[d] = <<>>
                         /\ pc'[d] = pc[d] \/ pc'[d] \notin {"poll", "full"}
  BY <1>2, WireTyped
<1>4. /\ AllSmall' /\ Coming' \subseteq Coming
      /\ Len(rx') + Len(line') + Len(pend') <= Len(rx) + Len(line) + Len(pend)
      /\ Len(rx') + Len(line') + Len(pend') \in Nat
  BY <1>1, DroppedSmall
<1>5. NeverFull'
  BY <1>3 DEF Prompt, NeverFull
<1>6. NoLeftovers'
  <2>1. CASE WriteFails(c) \/ ReadFails(c)
    <3>1. fd = "dead"
      BY <2>1 DEF WriteFails, ReadFails
    <3> QED BY <1>1, <3>1 DEF Prompt, NoLeftovers
  <2>2. CASE Open(c)
    <3>1. fd = "closed" /\ line' = <<>>
      BY <2>2 DEF Open
    <3> QED BY <1>1, <3>1 DEF Prompt, NoLeftovers
  <2>3. CASE Lock(c) \/ AlreadyOpen(c) \/ BackOff(c) \/ OpenFails(c) \/ Flush(c)
    <3>1. fd' = fd /\ pc[c] # "poll"
      BY <2>3 DEF Lock, AlreadyOpen, BackOff, OpenFails, Flush, portVars
    <3>2. \A d \in Clients : pc[d] = "poll" => pc'[d] = "poll"
      BY <1>2, <3>1, WireTyped
    <3> QED BY <1>1, <3>1, <3>2 DEF Prompt, NoLeftovers
  <2> QED BY <2>1, <2>2, <2>3
<1> QED BY <1>1, <1>3, <1>4, <1>5, <1>6, WireLengths, PromptKept

\* Input is read: there is not enough of it to fill the buffer.
LEMMA ReadPrompt ==
  ASSUME Inv, Routed, Prompt, NEW c \in Clients, Read(c)
  PROVE  Prompt'
<1>1. /\ UNCHANGED <<req, rsp, log, asked, pend, fd>> /\ rx' = rx \o line /\ line' = <<>>
      /\ pc[c] = "poll"
  BY DEF Read, history
<1>2. /\ rx \in Seq(Fragments) /\ line \in Seq(Fragments)
      /\ Len(rx) \in Nat /\ DOMAIN rx = 1 .. Len(rx)
      /\ Len(line) \in Nat /\ DOMAIN line = 1 .. Len(line) /\ Len(pend) \in Nat
  BY WireTyped, WireLengths, LenProperties
<1>3. /\ rx' \in Seq(Fragments) /\ Len(rx') = Len(rx) + Len(line)
      /\ \A i \in 1 .. Len(rx) + Len(line) :
           rx'[i] = IF i <= Len(rx) THEN rx[i] ELSE line[i - Len(rx)]
  BY <1>1, <1>2, ConcatProperties
<1>4. \A k \in DOMAIN rx' : \/ k \in DOMAIN rx /\ rx'[k] = rx[k]
                            \/ k - Len(rx) \in DOMAIN line /\ rx'[k] = line[k - Len(rx)]
  <2>1. DOMAIN rx' = 1 .. Len(rx) + Len(line)
    BY <1>3, LenProperties
  <2> QED BY <1>2, <1>3, <2>1
<1>5. Len(line') = 0 /\ DOMAIN line' = {}
  BY <1>1, EmptySeq
<1>6. AllSmall'
  BY <1>1, <1>4, <1>5 DEF Prompt, AllSmall, Small
<1>7. Len(rx) + Len(line) + Len(pend) <= 2
  BY <1>1 DEF Prompt, OneAnswer
<1>8. pc' = [pc EXCEPT ![c] = "poll"]
  <2>1. Len(rx') <= 2
    BY <1>2, <1>3, <1>7
  <2>2. Small(rx')
    BY <1>6 DEF AllSmall, Small
  <2>3. ~ (BytesOf(rx') >= MB_ADU_MAX)
    BY <1>3, <2>1, <2>2, FewBytes
  <2> QED BY <2>3, Zenon DEF Read, Goto
<1>9. \A d \in Clients : pc'[d] = pc[d]
  BY <1>1, <1>8, WireTyped
<1>10. NeverFull' /\ NoLeftovers'
  BY <1>1, <1>9 DEF Prompt, NeverFull, NoLeftovers
<1>11. Coming' \subseteq Coming
  BY <1>1, WireTyped, EndsJoined, EndsNone DEF Coming
<1>12. /\ Len(rx') + Len(line') + Len(pend') <= Len(rx) + Len(line) + Len(pend)
       /\ Len(rx') + Len(line') + Len(pend') \in Nat
  BY <1>1, <1>2, <1>3, <1>5
<1> QED BY <1>1, <1>6, <1>9, <1>10, <1>11, <1>12, WireLengths, PromptKept

\* A request is written, on a line with nothing left on it.
LEMMA WritePrompt ==
  ASSUME Inv, Routed, Prompt, NEW c \in Clients, Write(c)
  PROVE  Prompt'
<1> DEFINE N == Len(asked) + 1
<1>1. /\ UNCHANGED <<req, rsp, log, line, fd>> /\ rx' = <<>> /\ fd = "live"
      /\ pc' = [pc EXCEPT ![c] = "poll"] /\ pc[c] = "write"
  BY DEF Write, Goto
<1>2. \A d \in Clients : pc[d] # "poll" /\ (pc'[d] = "poll" <=> d = c) /\ pc'[d] # "full"
  BY <1>1, Alone, WireTyped
<1>3. pend = <<>> /\ line = <<>>
  BY <1>2 DEF Prompt, NoLeftovers
<1>4. /\ DOMAIN asked' = 1 .. N /\ Len(asked') = N /\ asked'[N] = Own(c)
      /\ \A k \in DOMAIN asked : k \in DOMAIN asked' /\ asked'[k] = asked[k]
  BY WriteAsks, Zenon
<1>5. PICK r \in Answer, a \in Seq(Fragments) :
             OneTo(a, r, N, Req(c).unit_id) /\ pend' = pend \o a
  BY WriteAsks
<1>6. pend' = a /\ a \in Seq(Fragments)
  BY <1>3, <1>5, ConcatEmptySeq
<1>7. Own(c)' = Own(c) /\ N # 0
  BY <1>1, WireTyped DEF Own, Req
<1> HIDE DEF N
<1>8. Ends(rx') = {} /\ Ends(line') = {} /\ DOMAIN rx' = {} /\ DOMAIN line' = {}
      /\ Len(rx') = 0 /\ Len(line') = 0
  BY <1>1, <1>3, EndsNone, EmptySeq
<1>9. Coming' \subseteq {r} /\ On(r) = N
  BY <1>5, <1>6, <1>8 DEF Coming, OneTo
<1>10. Len(rx') + Len(line') + Len(pend') <= 2
  <2>1. Len(a) \in Nat /\ Len(a) <= 2
    BY <1>5, LenProperties DEF OneTo
  <2> QED BY <1>6, <1>8, <2>1
<1>11. OneAnswer'
  BY <1>2, <1>4, <1>7, <1>9, <1>10 DEF OneAnswer
<1>12. AllSmall'
  BY <1>5, <1>6, <1>8 DEF AllSmall, Small, OneTo
<1>13. NoLeftovers' /\ NeverFull'
  BY <1>1, <1>2 DEF NoLeftovers, NeverFull
<1>14. HeldOwn'
  <2> SUFFICES ASSUME NEW d \in Clients, Held(d) PROVE asked'[On(rsp[d][1])] = Own(d)
    BY <1>1 DEF HeldOwn, Held, Own, Req, On
  <2>1. On(rsp[d][1]) \in DOMAIN asked
    BY DEF Routed, HeldKnown, Known
  <2> QED BY <1>4, <2>1 DEF Prompt, HeldOwn
<1>15. LogOwn' /\ RoutingInvariant'
  <2>1. LogOwn'
    BY <1>1, <1>4 DEF Prompt, LogOwn, Routed, LogKnown
  <2>2. RoutingInvariant'
    BY <1>1 DEF Prompt, RoutingInvariant
  <2> QED BY <2>1, <2>2
<1> QED BY <1>11, <1>12, <1>13, <1>14, <1>15 DEF Prompt

\* The loop ends: the answer is the one to the request, and nothing is left.
LEMMA LoopEndsPrompt ==
  ASSUME Inv, Routed, Prompt, NEW c \in Clients, pc[c] = "poll", pend = <<>>, line = <<>>,
         NEW x \in {<<>>, <<Assembled>>}, LoopEnds(c, x),
         UNCHANGED <<req, log, line, pend, asked, fd>>
  PROVE  Prompt'
<1> DEFINE a == Assembled
<1>1. /\ rx' = <<>> /\ pc' = [pc EXCEPT ![c] = "return"] /\ rsp' = [rsp EXCEPT ![c] = x]
  BY DEF LoopEnds, Return, TransactReturns
<1>2. /\ \A d \in Clients : pc'[d] \notin {"poll", "full"}
      /\ \A d \in Clients : rsp'[d] = IF d = c THEN x ELSE rsp[d]
  BY <1>1, WireTyped, Alone DEF Prompt, NeverFull
<1>3. a.crc_ok => a \in Ends(rx)
  BY WireTyped, AssembledEnds
<1> HIDE DEF a
<1>4. x = <<>> \/ (x # <<>> /\ x[1] = a)
  BY DEF a
<1>5. NoLeftovers' /\ OneAnswer' /\ NeverFull'
  BY <1>2 DEF NoLeftovers, OneAnswer, NeverFull
<1>6. AllSmall'
  BY <1>1, DroppedSmall
<1>7. \A d \in Clients : Own(d)' = Own(d)
  BY DEF Own, Req
<1>8. HeldOwn'
  <2> SUFFICES ASSUME NEW d \in Clients, Held(d)' PROVE asked[On(rsp'[d][1])] = Own(d)
    BY <1>7 DEF HeldOwn, On
  <2>1. CASE d = c
    <3>1. rsp'[d][1] = a /\ a.crc_ok
      BY <1>2, <1>4, <2>1 DEF Held
    <3>2. On(a) = Len(asked) /\ asked[Len(asked)] = Own(c)
      BY <1>3, <3>1 DEF Prompt, OneAnswer, Coming
    <3> QED BY <2>1, <3>1, <3>2
  <2>2. CASE d # c
    BY <1>2, <2>2 DEF Prompt, HeldOwn, Held
  <2> QED BY <2>1, <2>2
<1>9. LogOwn' /\ RoutingInvariant'
  BY DEF Prompt, LogOwn, RoutingInvariant
<1> QED BY <1>5, <1>6, <1>8, <1>9 DEF Prompt

\* handle returns f to the thread, under its transaction id and unit: what is
\* logged for the call is for that call.
LEMMA ReplyPrompt ==
  ASSUME Inv, Routed, Prompt, NEW c \in Clients, pc[c] \in {"idle", "return"},
         NEW r \in Requests, NEW f \in Forward, Reply(c, r, f),
         f.transaction_id = r.transaction_id, f.unit_id = r.unit_id,
         Passed(f) => asked[On(f)] =
                        [client |-> c, call |-> Len(log[c]) + 1, unit |-> r.unit_id],
         rsp'[c] = <<>>, pc'[c] = "idle",
         \A d \in Clients : d # c => rsp'[d] = rsp[d] /\ pc'[d] = pc[d] /\ req'[d] = req[d],
         UNCHANGED <<rx, line, pend, asked, fd>>
  PROVE  Prompt'
<1> DEFINE m == Len(log[c]) + 1
<1>1. /\ \A d \in Clients : d # c => log'[d] = log[d]
      /\ \A k \in DOMAIN log'[c] :
           \/ k = m /\ log'[c][k].rsp = f /\ log'[c][k].req = r
           \/ k \in DOMAIN log[c] /\ log'[c][k] = log[c][k]
  BY ReplyLogs
<1> HIDE DEF m
<1>2. \A d \in Clients : pc'[d] = "poll" <=> pc[d] = "poll"
  OBVIOUS
<1>3. \A d \in Clients : d # c => Own(d)' = Own(d)
  BY <1>1 DEF Own, Req
<1>4. Coming' = Coming /\ NoLeftovers' /\ AllSmall' /\ NeverFull'
  BY <1>2 DEF Prompt, Coming, NoLeftovers, AllSmall, NeverFull
<1>5. OneAnswer'
  <2> SUFFICES ASSUME NEW d \in Clients, pc'[d] = "poll"
               PROVE  /\ Len(asked) # 0 /\ asked[Len(asked)] = Own(d)'
                      /\ \A a \in Coming : On(a) = Len(asked)
                      /\ Len(rx) + Len(line) + Len(pend) <= 2
    BY <1>4 DEF OneAnswer
  <2>1. d # c /\ pc[d] = "poll"
    OBVIOUS
  <2> QED BY <1>3, <2>1 DEF Prompt, OneAnswer
<1>6. HeldOwn'
  BY <1>3 DEF Prompt, HeldOwn, Held, On
<1>7. LogOwn'
  <2> SUFFICES ASSUME NEW d \in Clients, NEW i \in DOMAIN log'[d], Passed(log'[d][i].rsp)
               PROVE  asked[On(log'[d][i].rsp)] =
                        [client |-> d, call |-> i, unit |-> log'[d][i].req.unit_id]
    BY DEF LogOwn, Passed, On
  <2>1. CASE d = c /\ i = m /\ log'[c][i].rsp = f /\ log'[c][i].req = r
    BY <2>1 DEF m
  <2>2. CASE i \in DOMAIN log[d] /\ log'[d][i] = log[d][i]
    BY <2>2 DEF Prompt, LogOwn
  <2> QED BY <1>1, <2>1, <2>2
<1>8. RoutingInvariant'
  BY <1>1 DEF Prompt, RoutingInvariant
<1> QED BY <1>4, <1>5, <1>6, <1>7, <1>8 DEF Prompt

\* Before the transport.
LEMMA CallPrompt ==
  ASSUME Inv, Routed, Prompt, NEW c \in Clients, CallStep(c)
  PROVE  Prompt'
<1>1. PICK r \in Requests : HandleEmpty(c, r) \/ HandleCall(c, r)
  BY DEF CallStep
<1>2. UNCHANGED <<rx, line, pend, asked, fd>> /\ pc[c] = "idle" /\ rsp[c] = <<>>
  BY <1>1 DEF CallStep, HandleEmpty, HandleCall, portVars, worldVars, history, Routed, Quiet
<1>3. CASE HandleEmpty(c, r)
  <2> DEFINE f == make_exception(r.transaction_id, r.unit_id, 0, EX_GATEWAY_PATH_UNAVAILABLE)
  <2>1. Reply(c, r, f) /\ UNCHANGED <<pc, req, rsp>>
    BY <1>3 DEF HandleEmpty
  <2>2. 0 \in Byte /\ EX_GATEWAY_PATH_UNAVAILABLE \in Byte
    BY DEF Byte, EX_GATEWAY_PATH_UNAVAILABLE
  <2>3. /\ f \in Forward /\ ~ Passed(f)
        /\ f.transaction_id = r.transaction_id /\ f.unit_id = r.unit_id
    BY <2>2, RequestFields, MakeExceptionFrame, ExceptionsForwarded, ExceptionNotPassed
  <2> HIDE DEF f
  <2> QED BY <1>2, <2>1, <2>3, ReplyPrompt
<1>4. CASE HandleCall(c, r)
  <2>1. /\ pc' = [pc EXCEPT ![c] = "transact"] /\ rsp' = [rsp EXCEPT ![c] = <<>>]
        /\ req' = [req EXCEPT ![c] = <<r>>] /\ log' = log
    BY <1>4 DEF HandleCall
  <2>2. /\ rsp'[c] = <<>> /\ pc'[c] = "transact"
        /\ \A d \in Clients : d # c => rsp'[d] = rsp[d] /\ pc'[d] = pc[d] /\ req'[d] = req[d]
    <3>1. req \in [Clients -> Optional(Requests)]
      BY DEF Inv, TypeOK, CallersOK
    <3> QED BY <2>1, <3>1, WireTyped
  <2>3. \A d \in Clients : d # c => Own(d)' = Own(d)
    BY <2>1, <2>2 DEF Own, Req
  <2>4. Coming' = Coming /\ NoLeftovers' /\ AllSmall' /\ NeverFull'
    BY <1>2, <2>2 DEF Prompt, Coming, NoLeftovers, AllSmall, NeverFull
  <2>5. OneAnswer'
    BY <1>2, <2>2, <2>3, <2>4 DEF Prompt, OneAnswer
  <2>6. HeldOwn'
    BY <1>2, <2>2, <2>3 DEF Prompt, HeldOwn, Held, On
  <2>7. LogOwn' /\ RoutingInvariant'
    BY <1>2, <2>1 DEF Prompt, LogOwn, RoutingInvariant
  <2> QED BY <2>4, <2>5, <2>6, <2>7 DEF Prompt
<1> QED BY <1>1, <1>3, <1>4

\* A connection is closed.
LEMMA ClosePrompt ==
  ASSUME Inv, Routed, Prompt, NEW c \in Clients, CloseStep(c)
  PROVE  Prompt'
<1>1. /\ UNCHANGED <<rx, line, pend, asked, fd, req, rsp, log>> /\ pc[c] = "idle"
      /\ pc' = [pc EXCEPT ![c] = "closed"]
  BY DEF CloseStep, FramingError, portVars, worldVars, history
<1>2. \A d \in Clients : \A l \in {"poll", "full"} : (pc'[d] = l) <=> (pc[d] = l)
  BY <1>1, CallersTyped, WireTyped DEF Inv, TypeOK
<1>3. \A d \in Clients : Own(d)' = Own(d)
  BY <1>1 DEF Own, Req
<1>4. Coming' = Coming /\ NoLeftovers' /\ AllSmall' /\ NeverFull'
  BY <1>1, <1>2 DEF Prompt, Coming, NoLeftovers, AllSmall, NeverFull
<1>5. OneAnswer'
  BY <1>1, <1>2, <1>3, <1>4 DEF Prompt, OneAnswer
<1>6. HeldOwn'
  BY <1>1, <1>3 DEF Prompt, HeldOwn, Held, On
<1>7. LogOwn' /\ RoutingInvariant'
  BY <1>1 DEF Prompt, LogOwn, RoutingInvariant
<1> QED BY <1>4, <1>5, <1>6, <1>7 DEF Prompt

\* After it.
LEMMA LeavePrompt ==
  ASSUME Inv, Routed, Prompt, NEW c \in Clients, LeaveStep(c)
  PROVE  Prompt'
<1>1. UNCHANGED <<rx, line, pend, asked, fd>> /\ pc[c] = "return"
  BY DEF LeaveStep, HandleTimeout, HandleCrcFailure, HandleResponse, portVars, worldVars,
         history
<1>2. Req(c) \in Requests /\ rsp[c] \in Optional(Answer)
  BY <1>1, RequestInHand, CallersTyped, WireTyped DEF Inv, TypeOK
<1>3. PICK k \in Counters, f \in Forward :
        /\ Leave(c, k, f)
        /\ f.transaction_id = Req(c).transaction_id /\ f.unit_id = Req(c).unit_id
        /\ Passed(f) => asked[On(f)] = Own(c)
  <2>1. /\ NoResponse(c) \in Forward /\ ~ Passed(NoResponse(c))
        /\ NoResponse(c).transaction_id = Req(c).transaction_id
        /\ NoResponse(c).unit_id = Req(c).unit_id
    BY <1>2, NoResponseTyped, ExceptionsForwarded, RequestFields, ExceptionNotPassed
       DEF NoResponse
  <2>2. "timeouts" \in Counters /\ "crc_failures" \in Counters /\ "responses" \in Counters
    BY DEF Counters
  <2>3. CASE HandleTimeout(c)
    BY <2>1, <2>2, <2>3 DEF HandleTimeout
  <2>4. CASE HandleCrcFailure(c)
    BY <2>1, <2>2, <2>4 DEF HandleCrcFailure
  <2>5. CASE HandleResponse(c)
    <3> DEFINE f == Translated(c)[1]
               b == rsp[c][1]
    <3>1. /\ f \in Forward /\ f.transaction_id = Req(c).transaction_id
          /\ f.unit_id = b.addr /\ f.pdu = b.pdu /\ Held(c) /\ Leave(c, "responses", f)
      BY <1>2, <2>5, TranslatedTyped DEF HandleResponse, Held
    <3>2. b.addr = asked[On(b)].unit /\ asked[On(b)] = Own(c)
      BY <3>1 DEF Routed, HeldKnown, Known, Prompt, HeldOwn
    <3> HIDE DEF f, b
    <3>3. On(f) = On(b) /\ Own(c).unit = Req(c).unit_id
      BY <3>1 DEF On, Own
    <3> QED BY <2>2, <3>1, <3>2, <3>3
  <2> QED BY <2>3, <2>4, <2>5 DEF LeaveStep
<1>4. /\ Reply(c, Req(c), f) /\ pc' = [pc EXCEPT ![c] = "idle"]
      /\ rsp' = [rsp EXCEPT ![c] = <<>>] /\ req' = [req EXCEPT ![c] = <<>>]
  BY <1>3 DEF Leave
<1>5. /\ rsp'[c] = <<>> /\ pc'[c] = "idle"
      /\ \A d \in Clients : d # c => rsp'[d] = rsp[d] /\ pc'[d] = pc[d] /\ req'[d] = req[d]
  <2>1. req \in [Clients -> Optional(Requests)]
    BY DEF Inv, TypeOK, CallersOK
  <2> QED BY <1>4, <2>1, WireTyped
<1>6. Passed(f) => asked[On(f)] =
                     [client |-> c, call |-> Len(log[c]) + 1, unit |-> Req(c).unit_id]
  BY <1>3 DEF Own
<1>7. PICK r \in Requests : r = Req(c)
  BY <1>2
<1> QED BY <1>1, <1>3, <1>4, <1>5, <1>6, <1>7, ReplyPrompt

\* Every step on the bus, where nothing is late.
LEMMA TransportPrompt ==
  ASSUME Inv, Routed, Prompt, NEW c \in Clients, TransportStep(c), ~ MayBeLate
  PROVE  Prompt'
<1>1. ASSUME Silence(c) \/ HangUp(c) PROVE Prompt'
  <2>1. PICK x \in {<<>>, <<Assembled>>} : LoopEnds(c, x)
    BY <1>1 DEF Silence, HangUp
  <2>2. UNCHANGED <<req, log, line, pend, asked, fd>> /\ pc[c] = "poll"
    BY <1>1 DEF Silence, HangUp, worldVars, history
  <2>3. pend = <<>> /\ line = <<>>
    BY <1>1 DEF Silence, HangUp, Prompt, NoLeftovers
  <2> QED BY <2>1, <2>2, <2>3, LoopEndsPrompt
<1>2. ~ ReadFull(c)
  BY DEF ReadFull, Prompt, NeverFull
<1> QED BY <1>1, <1>2, TakesPrompt, ReadPrompt, WritePrompt DEF TransportStep

\* Initially nobody polls, and nothing is on the wire.
LEMMA InitPrompt == Init => Prompt
<1> SUFFICES ASSUME Init PROVE Prompt
  OBVIOUS
<1>1. /\ rx = <<>> /\ line = <<>> /\ pend = <<>>
      /\ \A c \in Clients : pc[c] = "idle" /\ rsp[c] = <<>> /\ log[c] = <<>>
  BY DEF Init, GatewayInit
<1>2. DOMAIN <<>> = {}
  BY EmptySeq
<1>3. NoLeftovers /\ OneAnswer /\ AllSmall /\ NeverFull
  BY <1>1, <1>2 DEF NoLeftovers, OneAnswer, AllSmall, Small, NeverFull
<1>4. HeldOwn /\ LogOwn /\ RoutingInvariant
  BY <1>1, <1>2 DEF HeldOwn, Held, LogOwn, RoutingInvariant
<1> QED BY <1>3, <1>4 DEF Prompt

\* Every step keeps it, where nothing is late and there is no noise.
LEMMA NextPrompt ==
  ASSUME ~ MayBeLate, ~ MayBabble
  PROVE  Inv /\ Routed /\ Prompt /\ [Next]_vars => Prompt'
<1> SUFFICES ASSUME Inv, Routed, Prompt, [Next]_vars PROVE Prompt'
  OBVIOUS
<1>1. ASSUME NEW c \in Clients, CallStep(c) \/ CloseStep(c) \/ Progress(c) PROVE Prompt'
  BY <1>1, CallPrompt, ClosePrompt, LeavePrompt, TransportPrompt DEF Progress
<1>2. ASSUME Environment PROVE Prompt'
  BY <1>2, EnvironmentPrompt
<1>3. ASSUME UNCHANGED vars PROVE Prompt'
  <2>1. UNCHANGED <<pc, req, rsp, log, asked, rx, line, pend, fd>>
    BY <1>3 DEF vars
  <2>2. /\ AllSmall' /\ Coming' \subseteq Coming
        /\ Len(rx') + Len(line') + Len(pend') <= Len(rx) + Len(line) + Len(pend)
        /\ Len(rx') + Len(line') + Len(pend') \in Nat
    BY <2>1, DroppedSmall
  <2>3. NoLeftovers' /\ NeverFull'
    BY <2>1 DEF Prompt, NoLeftovers, NeverFull
  <2> QED BY <2>1, <2>2, <2>3, WireLengths, PromptKept
<1> QED BY <1>1, <1>2, <1>3 DEF Next

(***************************************************************************)
(* On a line that keeps its timing and has no noise, cut and unplugged as  *)
(* it may be, the answer a call gets was sent for that call.               *)
(***************************************************************************)
THEOREM OwnAnswers ==
  ASSUME ~ MayBeLate, ~ MayBabble
  PROVE  Spec => []AnswersOwnRequest
<1>1. Inv /\ Prompt => AnswersOwnRequest
  <2> SUFFICES ASSUME Inv, Prompt, NEW ci \in Forwarded
               PROVE  asked[SentFor(ci)] = [client |-> ci[1], call |-> ci[2],
                                            unit |-> log[ci[1]][ci[2]].req.unit_id]
    BY DEF AnswersOwnRequest
  <2>1. /\ ci[1] \in Clients /\ ci[2] \in DOMAIN log[ci[1]]
        /\ Passed(log[ci[1]][ci[2]].rsp)
        /\ SentFor(ci) = On(log[ci[1]][ci[2]].rsp)
    BY DEF Forwarded, Passed, SentFor, On
  <2> QED BY <2>1 DEF Prompt, LogOwn
<1>2. Inv /\ Routed /\ Prompt /\ [Next]_vars => Prompt'
  BY NextPrompt
<1> QED BY <1>1, <1>2, InitInv, NextInv, InitRouted, NextRouted, InitPrompt, PTL DEF Spec

(***************************************************************************)
(* On such a line Gateway::handle routes: each response carries the        *)
(* transaction id of its request and comes from the unit that was asked.   *)
(***************************************************************************)
THEOREM RoutesOnPromptLine ==
  ASSUME ~ MayBeLate, ~ MayBabble
  PROVE  Spec => []RoutingInvariant
<1>1. Prompt => RoutingInvariant
  BY DEF Prompt
<1>2. Inv /\ Routed /\ Prompt /\ [Next]_vars => Prompt'
  BY NextPrompt
<1> QED BY <1>1, <1>2, InitInv, NextInv, InitRouted, NextRouted, InitPrompt, PTL DEF Spec
=============================================================================
