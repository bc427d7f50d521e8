---------------------------- MODULE ServerProofs ----------------------------
(***************************************************************************)
(* The server, for any number of connections, descriptors, frames and      *)
(* signals: its types, that every thread and every signal handler uses a   *)
(* descriptor it owns, and that the shutdown lets in-flight transactions   *)
(* finish.                                                                 *)
(***************************************************************************)
EXTENDS Server, FiniteSetTheorems, SequenceTheorems, WellFoundedInduction, TLAPS

-----------------------------------------------------------------------------
(***************************************************************************)
(* The inductive invariant.  A connection is away, in the backlog,         *)
(* accepted by main, served by its thread, or done with, in this order and *)
(* never in two of these places; what is known of its descriptor rests on  *)
(* where it is.                                                            *)
(***************************************************************************)

\* A thread of serve_client that has not ended owns its descriptor.
WorkersOwn ==
  \A c \in Conns : wpc[c] \notin {"none", "ended"} => wfd[c] \in Fds /\ fds[wfd[c]] = c

\* What accept returned and main has not handed to a thread yet.
Accepting == mpc \in {"accepted", "dispatch"} /\ cfd # None

\* The accepted connection is nobody else's: it has no thread, and it is not
\* in the backlog any more.
AcceptedIsMains ==
  Accepting =>
    /\ cfd \in Fds /\ fds[cfd] \in Conns
    /\ wpc[fds[cfd]] = "none" /\ peer[fds[cfd]] # "away"
    /\ \A k \in DOMAIN backlog : backlog[k] # fds[cfd]

\* The backlog holds a connection once, and none that has a thread.
BacklogIsNew ==
  /\ \A j, k \in DOMAIN backlog : j # k => backlog[j] # backlog[k]
  /\ \A k \in DOMAIN backlog : wpc[backlog[k]] = "none" /\ peer[backlog[k]] # "away"
  /\ \A c \in Conns : peer[c] = "away" => wpc[c] = "none"

\* g_listen_fd and on_signal's fd are the listening socket's or -1, and its
\* number is not given away while main is in its loops, nor after, when nobody
\* is left to open anything.
ListenerIsKept ==
  /\ g_listen_fd \in {None, lfd} /\ \A t \in Threads : fd[t] \in {None, lfd}
  /\ mpc \in {"start", "failed"} => lfd = None
  /\ mpc \notin {"start", "failed"} =>
       /\ lfd \in Fds
       /\ fds[lfd] = "listen" \/ (fds[lfd] = "free" /\ mpc \in {"report", "exited"})

\* Every thread that was started is in workers, and those joined have ended.
AllAreJoined ==
  /\ \A c \in Conns : wpc[c] # "none" => \E k \in DOMAIN workers : workers[k] = c
  /\ \A k \in 1 .. joined : wpc[workers[k]] = "ended"
  /\ mpc \in {"report", "exited"} => \A c \in Conns : wpc[c] \in {"none", "ended"}

\* A thread leaves its inner loop with a frame in hand only to end, and only
\* for the two reasons serve_client has.
BufferIsDrained ==
  \A c \in Conns :
    /\ wpc[c] = "send" => buf[c] # <<>>
    /\ buf[c] # <<>> => \/ wpc[c] \in {"drain", "send"}
                        \/ wpc[c] = "ended" /\ (Head(buf[c]) = "bad" \/ peer[c] = "left")

Inv ==
  /\ TypeOK /\ WorkersOwn /\ AcceptedIsMains /\ BacklogIsNew /\ ListenerIsKept
  /\ AllAreJoined /\ BufferIsDrained

-----------------------------------------------------------------------------
\* None is no descriptor, and no connection is mistaken for a kind of descriptor.
LEMMA Distinct ==
  /\ None \notin Fds
  /\ "free" \notin Conns /\ "listen" \notin Conns /\ "port" \notin Conns
  /\ Main \notin Conns
  BY ServerAssumption DEF None

\* The kernel's lowest free descriptor is a free one, if there is one.
LEMMA LowestIsFree ==
  ASSUME FreeFds # {}
  PROVE  Lowest \in Fds /\ fds[Lowest] = "free"
<1>1. FreeFds \subseteq Nat
  BY ServerAssumption DEF FreeFds
<1>2. PICK m \in FreeFds : \A k \in FreeFds : ~ (<<k, m>> \in OpToRel(<, Nat))
  BY <1>1, WFMin, NatLessThanWellFounded, Zenon
<1>3. \A k \in FreeFds : m <= k
  <2> TAKE k \in FreeFds
  <2>1. k \in Nat /\ m \in Nat
    BY <1>1
  <2>2. ~ (k < m)
    BY <1>2, <2>1 DEF OpToRel
  <2> QED BY <2>1, <2>2
<1>4. Lowest \in FreeFds
  BY <1>3 DEF Lowest
<1> QED BY <1>4 DEF FreeFds

\* Initially there is nothing.
LEMMA InitInv == Init => Inv
<1> SUFFICES ASSUME Init PROVE Inv
  OBVIOUS
<1> USE DEF Init
<1>1. ProcessOK /\ SignalsOK
  BY DEF ProcessOK, SignalsOK, Descriptor
<1>2. MainOK /\ ConnsOK
  BY EmptySeq DEF MainOK, ConnsOK, Descriptor
<1>3. WorldOK
  BY ServerAssumption, EmptySeq DEF WorldOK
<1>4. WorkersOwn /\ AcceptedIsMains /\ BacklogIsNew /\ ListenerIsKept
  BY DEF WorkersOwn, AcceptedIsMains, Accepting, BacklogIsNew, ListenerIsKept
<1>5. AllAreJoined /\ BufferIsDrained
  BY DEF AllAreJoined, BufferIsDrained
<1> QED BY <1>1, <1>2, <1>3, <1>4, <1>5 DEF Inv, TypeOK

-----------------------------------------------------------------------------
(***************************************************************************)
(* What a step leaves alone.  Each part of the invariant depends on a few  *)
(* variables, and a step that changes none of them preserves it.           *)
(***************************************************************************)
LEMMA Kept ==
  ASSUME Inv
  PROVE  /\ UNCHANGED <<globals, fds>> => ProcessOK'
         /\ UNCHANGED signals => SignalsOK'
         /\ UNCHANGED mainVars => MainOK'
         /\ UNCHANGED connVars => ConnsOK'
         /\ UNCHANGED world => WorldOK'
         /\ UNCHANGED <<wpc, wfd, fds>> => WorkersOwn'
         /\ UNCHANGED <<mpc, cfd, fds, wpc, peer, backlog>> => AcceptedIsMains'
         /\ UNCHANGED <<wpc, peer, backlog>> => BacklogIsNew'
         /\ UNCHANGED <<g_listen_fd, fd, mpc, lfd, fds>> => ListenerIsKept'
         /\ UNCHANGED <<wpc, mpc, workers, joined>> => AllAreJoined'
         /\ UNCHANGED <<wpc, buf, peer>> => BufferIsDrained'
<1>1. UNCHANGED <<globals, fds>> => ProcessOK'
  BY DEF Inv, TypeOK, ProcessOK, globals
<1>2. UNCHANGED signals => SignalsOK'
  BY DEF Inv, TypeOK, SignalsOK, signals
<1>3. UNCHANGED mainVars => MainOK'
  BY DEF Inv, TypeOK, MainOK, mainVars
<1>4. UNCHANGED connVars => ConnsOK'
  BY DEF Inv, TypeOK, ConnsOK, connVars
<1>5. UNCHANGED world => WorldOK'
  BY DEF Inv, TypeOK, WorldOK, world, sockets, masters
<1>6. UNCHANGED <<wpc, wfd, fds>> => WorkersOwn'
  BY DEF Inv, WorkersOwn
<1>7. UNCHANGED <<mpc, cfd, fds, wpc, peer, backlog>> => AcceptedIsMains'
  BY DEF Inv, AcceptedIsMains, Accepting
<1>8. UNCHANGED <<wpc, peer, backlog>> => BacklogIsNew'
  BY DEF Inv, BacklogIsNew
<1>9. UNCHANGED <<g_listen_fd, fd, mpc, lfd, fds>> => ListenerIsKept'
  BY DEF Inv, ListenerIsKept
<1>10. UNCHANGED <<wpc, mpc, workers, joined>> => AllAreJoined'
  BY DEF Inv, AllAreJoined
<1>11. UNCHANGED <<wpc, buf, peer>> => BufferIsDrained'
  BY DEF Inv, BufferIsDrained
<1> QED BY <1>1, <1>2, <1>3, <1>4, <1>5, <1>6, <1>7, <1>8, <1>9, <1>10, <1>11

\* The members of the backlog.
LEMMA BacklogMembers ==
  ASSUME Inv
  PROVE  /\ Len(backlog) \in Nat /\ DOMAIN backlog = 1 .. Len(backlog)
         /\ \A k \in DOMAIN backlog : backlog[k] \in Conns
<1>1. backlog \in Seq(Conns)
  BY DEF Inv, TypeOK, WorldOK
<1> QED BY <1>1, LenProperties, ElementOfSeq

-----------------------------------------------------------------------------
\* A master that connects joins the backlog, and is nowhere else.
LEMMA ConnectStep ==
  ASSUME Inv, Connect
  PROVE  Inv'
<1> USE DEF Connect, process, mainVars, connVars
<1>1. NewConn \in Conns /\ peer[NewConn] = "away"
  BY DEF NewConn, Away
<1>2. backlog \in Seq(Conns)
  BY DEF Inv, TypeOK, WorldOK
<1>3. /\ backlog' \in Seq(Conns) /\ Len(backlog') = Len(backlog) + 1
      /\ DOMAIN backlog' = 1 .. Len(backlog) + 1
      /\ \A k \in 1 .. Len(backlog) : backlog'[k] = backlog[k]
      /\ backlog'[Len(backlog) + 1] = NewConn
  BY <1>1, <1>2, AppendProperties, LenProperties
<1>4. /\ peer' \in [Conns -> {"away", "open", "stalled", "left"}] /\ peer'[NewConn] = "open"
      /\ \A c \in Conns : c # NewConn => peer'[c] = peer[c]
  BY <1>1 DEF Inv, TypeOK, WorldOK
<1>5. TypeOK'
  BY <1>3, <1>4, Kept DEF Inv, TypeOK, WorldOK
<1>6. WorkersOwn' /\ ListenerIsKept' /\ AllAreJoined'
  BY Kept DEF globals, signals
<1>7. \A k \in DOMAIN backlog : backlog[k] # NewConn
  BY <1>1 DEF Inv, BacklogIsNew
<1>8. wpc[NewConn] = "none"
  BY <1>1 DEF Inv, BacklogIsNew
<1>9. AcceptedIsMains'
  <2> SUFFICES ASSUME Accepting
               PROVE  /\ cfd \in Fds /\ fds[cfd] \in Conns /\ wpc[fds[cfd]] = "none"
                      /\ peer'[fds[cfd]] # "away"
                      /\ \A k \in DOMAIN backlog' : backlog'[k] # fds[cfd]
    BY DEF AcceptedIsMains, Accepting
  <2>1. fds[cfd] # NewConn /\ fds[cfd] \in Conns
    BY <1>1 DEF Inv, AcceptedIsMains
  <2> QED BY <2>1, <1>3, <1>4, BacklogMembers DEF Inv, AcceptedIsMains
<1>10. BacklogIsNew'
  <2>1. \A j, k \in DOMAIN backlog' : j # k => backlog'[j] # backlog'[k]
    BY <1>3, <1>7, BacklogMembers DEF Inv, BacklogIsNew
  <2>2. \A k \in DOMAIN backlog' : wpc[backlog'[k]] = "none" /\ peer'[backlog'[k]] # "away"
    BY <1>3, <1>4, <1>8, BacklogMembers DEF Inv, BacklogIsNew
  <2>3. \A c \in Conns : peer'[c] = "away" => wpc[c] = "none"
    BY <1>4 DEF Inv, BacklogIsNew
  <2> QED BY <2>1, <2>2, <2>3 DEF BacklogIsNew
<1>11. BufferIsDrained'
  BY <1>1, <1>4 DEF Inv, BufferIsDrained
<1> QED BY <1>5, <1>6, <1>9, <1>10, <1>11 DEF Inv

\* Sent frames wait in the receive queue and touch nothing else.
LEMMA SubmitStep ==
  ASSUME Inv, NEW c \in Conns, NEW frame \in {"good", "bad"}, Submit(c, frame)
  PROVE  Inv'
<1> USE DEF Submit, process, mainVars, connVars, sockets
<1>1. Append(sock[c], frame) \in Seq({"good", "bad"})
  BY AppendProperties DEF Inv, TypeOK, WorldOK
<1>2. sock' \in [Conns -> Seq({"good", "bad"})] /\ frames' \in 0 .. MaxFrames
  BY <1>1, ServerAssumption DEF Inv, TypeOK, WorldOK
<1>3. TypeOK'
  BY <1>2, Kept DEF Inv, TypeOK, WorldOK
<1> QED BY <1>3, Kept DEF Inv, globals, signals

\* What Stall, Leave and a shutdown do: a master that came stays known, and
\* what has left stays so.
LEMMA PeersMove ==
  ASSUME Inv, \A c \in Conns : peer'[c] # peer[c] => peer[c] # "away" /\ peer'[c] # "away",
         \A c \in Conns : peer[c] = "left" => peer'[c] = "left",
         backlog' \in {backlog, <<>>}, UNCHANGED <<mpc, cfd, fds, connVars>>
  PROVE  AcceptedIsMains' /\ BacklogIsNew' /\ BufferIsDrained'
<1> USE DEF connVars
<1>1. AcceptedIsMains'
  BY DEF Inv, AcceptedIsMains, Accepting
<1>2. BacklogIsNew'
  BY BacklogMembers DEF Inv, BacklogIsNew
<1>3. BufferIsDrained'
  BY DEF Inv, BufferIsDrained
<1> QED BY <1>1, <1>2, <1>3

\* A master that stops reading keeps its connection.
LEMMA StallStep ==
  ASSUME Inv, NEW c \in Conns, Stall(c)
  PROVE  Inv'
<1> USE DEF Stall, process, mainVars, connVars, sockets
<1>1. peer' \in [Conns -> {"away", "open", "stalled", "left"}]
      /\ \A d \in Conns : peer'[d] = IF d = c THEN "stalled" ELSE peer[d]
  BY DEF Inv, TypeOK, WorldOK
<1>2. TypeOK'
  BY <1>1, Kept DEF Inv, TypeOK, WorldOK
<1>3. AcceptedIsMains' /\ BacklogIsNew' /\ BufferIsDrained'
  BY <1>1, PeersMove
<1> QED BY <1>2, <1>3, Kept DEF Inv, globals, signals

\* A master that leaves takes no descriptor along: its thread closes it.
LEMMA LeaveStep ==
  ASSUME Inv, NEW c \in Conns, Leave(c)
  PROVE  Inv'
<1> USE DEF Leave, Present, process, mainVars, connVars, sockets
<1>1. peer' \in [Conns -> {"away", "open", "stalled", "left"}]
      /\ \A d \in Conns : peer'[d] = IF d = c THEN "left" ELSE peer[d]
  BY DEF Inv, TypeOK, WorldOK
<1>2. sock' \in [Conns -> Seq({"good", "bad"})]
  <2> DEFINE S == Seq({"good", "bad"})
  <2>1. sock \in [Conns -> S] /\ <<>> \in S
    BY EmptySeq DEF Inv, TypeOK, WorldOK
  <2> HIDE DEF S
  <2>2. PICK rest \in {sock[c], <<>>} : sock' = [sock EXCEPT ![c] = rest]
    OBVIOUS
  <2>3. rest \in S
    BY <2>1
  <2>4. sock' \in [Conns -> S]
    BY <2>1, <2>2, <2>3
  <2> QED BY <2>4 DEF S
<1>3. TypeOK'
  BY <1>1, <1>2, Kept DEF Inv, TypeOK, WorldOK
<1>4. AcceptedIsMains' /\ BacklogIsNew' /\ BufferIsDrained'
  BY <1>1, PeersMove
<1> QED BY <1>3, <1>4, Kept DEF Inv, globals, signals

-----------------------------------------------------------------------------
\* on_signal clears g_running.
LEMMA SignalClearStep ==
  ASSUME Inv, NEW t \in Threads, SignalClear(t)
  PROVE  Inv'
<1> USE DEF SignalClear, mainVars, connVars, sockets, masters
<1>1. ProcessOK' /\ SignalsOK'
  BY DEF Inv, TypeOK, ProcessOK, SignalsOK
<1>2. WorldOK'
  BY ServerAssumption DEF Inv, TypeOK, WorldOK
<1>3. TypeOK'
  BY <1>1, <1>2, Kept DEF TypeOK
<1> QED BY <1>3, Kept DEF Inv

\* on_signal takes over g_listen_fd, so its fd is the listener's or -1.
LEMMA SignalExchangeStep ==
  ASSUME Inv, NEW t \in Threads, SignalExchange(t)
  PROVE  Inv'
<1> USE DEF SignalExchange, mainVars, connVars, world, sockets, masters
<1>1. ProcessOK' /\ SignalsOK'
  BY DEF Inv, TypeOK, ProcessOK, SignalsOK, Descriptor
<1>2. TypeOK'
  BY <1>1, Kept DEF TypeOK
<1>3. ListenerIsKept'
  BY DEF Inv, TypeOK, SignalsOK, ListenerIsKept
<1> QED BY <1>2, <1>3, Kept DEF Inv

\* on_signal's shutdown resets the backlog and releases no descriptor.
LEMMA SignalShutdownStep ==
  ASSUME Inv, NEW t \in Threads, SignalShutdown(t)
  PROVE  Inv'
<1> USE DEF SignalShutdown, process, globals, mainVars, connVars
<1>1. backlog' \in {backlog, <<>>} /\ listener' \in {"none", "open", "shut"}
  BY DEF Inv, TypeOK, WorldOK
<1>2. \A k \in DOMAIN backlog : peer[backlog[k]] # "away"
  BY DEF Inv, BacklogIsNew
<1>3. /\ peer' \in [Conns -> {"away", "open", "stalled", "left"}]
      /\ \A c \in Conns : \/ peer'[c] = peer[c]
                          \/ peer'[c] = "left" /\ \E k \in DOMAIN backlog : c = backlog[k]
  BY DEF Inv, TypeOK, WorldOK
<1>4. SignalsOK'
  BY DEF Inv, TypeOK, SignalsOK, Descriptor
<1>5. TypeOK'
  BY <1>1, <1>3, <1>4, Kept, EmptySeq DEF Inv, TypeOK, WorldOK
<1>6. AcceptedIsMains' /\ BacklogIsNew' /\ BufferIsDrained'
  BY <1>1, <1>2, <1>3, PeersMove
<1>7. ListenerIsKept'
  BY DEF Inv, TypeOK, SignalsOK, ListenerIsKept
<1> QED BY <1>5, <1>6, <1>7, Kept DEF Inv

\* on_sigusr1 only asks for a dump.
LEMMA on_sigusr1Step ==
  ASSUME Inv, on_sigusr1
  PROVE  Inv'
<1> USE DEF on_sigusr1, signals, mainVars, connVars, world, sockets, masters
<1>1. ProcessOK'
  BY DEF Inv, TypeOK, ProcessOK
<1>2. TypeOK'
  BY <1>1, Kept DEF TypeOK
<1> QED BY <1>2, Kept DEF Inv

-----------------------------------------------------------------------------
\* socket, bind and listen: the listener gets a free number.
LEMMA ListenStep ==
  ASSUME Inv, Listen
  PROVE  Inv'
<1> USE DEF Listen, At, Open
<1>1. Lowest \in Fds /\ fds[Lowest] = "free"
  BY LowestIsFree
<1>2. /\ fds' \in [Fds -> {"free", "listen", "port"} \cup Conns] /\ fds'[Lowest] = "listen"
      /\ \A n \in Fds : n # Lowest => fds'[n] = fds[n]
  BY <1>1 DEF Inv, TypeOK, ProcessOK
<1>3. ProcessOK' /\ MainOK' /\ WorldOK'
  BY <1>1, <1>2 DEF Inv, TypeOK, ProcessOK, MainOK, WorldOK, Descriptor, globals, masters
<1>4. TypeOK'
  BY <1>3, Kept DEF TypeOK
<1>5. WorkersOwn'
  BY <1>1, <1>2, Distinct DEF Inv, WorkersOwn, connVars
<1>6. AcceptedIsMains' /\ AllAreJoined'
  BY DEF Inv, AcceptedIsMains, Accepting, AllAreJoined, connVars
<1>7. ListenerIsKept'
  BY <1>1, <1>2 DEF Inv, ListenerIsKept, globals, signals
<1> QED BY <1>4, <1>5, <1>6, <1>7, Kept DEF Inv, connVars, masters

\* One of them fails: the process ends with nothing open.
LEMMA ListenFailsStep ==
  ASSUME Inv, ListenFails
  PROVE  Inv'
<1> USE DEF ListenFails, At, process, globals, signals, connVars
<1>1. TypeOK'
  BY Kept DEF Inv, TypeOK, MainOK
<1>2. AcceptedIsMains' /\ ListenerIsKept' /\ AllAreJoined'
  BY DEF Inv, AcceptedIsMains, Accepting, ListenerIsKept, AllAreJoined
<1> QED BY <1>1, <1>2, Kept DEF Inv, world, sockets, masters

\* g_listen_fd = lfd, from now on the handlers' to take.
LEMMA PublishStep ==
  ASSUME Inv, Publish
  PROVE  Inv'
<1> USE DEF Publish, At, signals, connVars
<1>1. TypeOK'
  BY Kept DEF Inv, TypeOK, ProcessOK, MainOK
<1>2. AcceptedIsMains' /\ ListenerIsKept' /\ AllAreJoined'
  BY DEF Inv, AcceptedIsMains, Accepting, ListenerIsKept, AllAreJoined
<1> QED BY <1>1, <1>2, Kept DEF Inv, world, sockets, masters

\* The test of g_running.
LEMMA WhileStep ==
  ASSUME Inv, While
  PROVE  Inv'
<1> USE DEF While, At, process, globals, signals, connVars
<1>1. TypeOK'
  BY Kept DEF Inv, TypeOK, MainOK
<1>2. AcceptedIsMains' /\ ListenerIsKept' /\ AllAreJoined'
  BY DEF Inv, AcceptedIsMains, Accepting, ListenerIsKept, AllAreJoined
<1> QED BY <1>1, <1>2, Kept DEF Inv, world, sockets, masters

\* accept: the head of the backlog gets a free number and is main's alone.
LEMMA AcceptStep ==
  ASSUME Inv, Accept
  PROVE  Inv'
<1> USE DEF Accept, At, Open
<1>1. Lowest \in Fds /\ fds[Lowest] = "free"
  BY LowestIsFree
<1> DEFINE c == Head(backlog)
<1>2. backlog \in Seq(Conns)
  BY DEF Inv, TypeOK, WorldOK
<1>3. /\ c \in Conns /\ c = backlog[1] /\ 1 \in DOMAIN backlog
      /\ backlog' \in Seq(Conns) /\ DOMAIN backlog' = 1 .. Len(backlog) - 1
      /\ \A k \in DOMAIN backlog' : k + 1 \in DOMAIN backlog /\ backlog'[k] = backlog[k + 1]
  BY <1>2, HeadTailProperties, LenProperties, EmptySeq
<1> HIDE DEF c
<1>4. /\ fds' \in [Fds -> {"free", "listen", "port"} \cup Conns] /\ fds'[Lowest] = c
      /\ \A n \in Fds : n # Lowest => fds'[n] = fds[n]
  BY <1>1, <1>3 DEF Inv, TypeOK, ProcessOK, c
<1>5. ProcessOK' /\ MainOK' /\ WorldOK'
  BY <1>1, <1>3, <1>4 DEF Inv, TypeOK, ProcessOK, MainOK, WorldOK, Descriptor, globals, masters
<1>6. TypeOK'
  BY <1>5, Kept DEF TypeOK
<1>7. WorkersOwn'
  BY <1>1, <1>4, Distinct DEF Inv, WorkersOwn, connVars
<1>8. wpc[c] = "none" /\ peer[c] # "away" /\ \A k \in DOMAIN backlog' : backlog'[k] # c
  BY <1>3, BacklogMembers DEF Inv, BacklogIsNew
<1>9. AcceptedIsMains'
  BY <1>1, <1>3, <1>4, <1>8 DEF AcceptedIsMains, Accepting, connVars, masters
<1>10. BacklogIsNew'
  BY <1>3, BacklogMembers DEF Inv, BacklogIsNew, connVars, masters
<1>11. ListenerIsKept'
  BY <1>1, <1>4 DEF Inv, ListenerIsKept, globals, signals
<1>12. AllAreJoined'
  BY DEF Inv, AllAreJoined, connVars
<1> QED BY <1>6, <1>7, <1>9, <1>10, <1>11, <1>12, Kept DEF Inv, connVars, masters

\* accept returns -1: main holds no connection.
LEMMA AcceptFailsStep ==
  ASSUME Inv, AcceptFails
  PROVE  Inv'
<1> USE DEF AcceptFails, At, process, globals, signals, connVars
<1>1. TypeOK'
  BY Kept DEF Inv, TypeOK, MainOK, Descriptor
<1>2. AcceptedIsMains' /\ ListenerIsKept' /\ AllAreJoined'
  BY DEF Inv, AcceptedIsMains, Accepting, ListenerIsKept, AllAreJoined
<1> QED BY <1>1, <1>2, Kept DEF Inv, world, sockets, masters

\* The dump leaves the accepted connection with main.
LEMMA DumpStep ==
  ASSUME Inv, Dump
  PROVE  Inv'
<1> USE DEF Dump, At, signals, connVars, world, sockets, masters
<1>1. TypeOK'
  BY Kept DEF Inv, TypeOK, ProcessOK, MainOK
<1>2. AcceptedIsMains' /\ ListenerIsKept' /\ AllAreJoined'
  BY DEF Inv, AcceptedIsMains, Accepting, ListenerIsKept, AllAreJoined
<1> QED BY <1>1, <1>2, Kept DEF Inv

\* Without a connection main goes on, or leaves its loop.
LEMMA DispatchStep ==
  ASSUME Inv, Dispatch
  PROVE  Inv'
<1> USE DEF Dispatch, At, process, globals, signals, connVars
<1>1. TypeOK'
  BY Kept DEF Inv, TypeOK, MainOK
<1>2. AcceptedIsMains' /\ ListenerIsKept' /\ AllAreJoined'
  BY DEF Inv, AcceptedIsMains, Accepting, ListenerIsKept, AllAreJoined
<1> QED BY <1>1, <1>2, Kept DEF Inv, world, sockets, masters

\* The new thread owns what main had accepted, and is in workers.
LEMMA SpawnStep ==
  ASSUME Inv, Spawn
  PROVE  Inv'
<1> USE DEF Spawn, At
<1> DEFINE c == fds[cfd]
<1>1. /\ cfd \in Fds /\ c \in Conns /\ wpc[c] = "none" /\ peer[c] # "away"
      /\ \A k \in DOMAIN backlog : backlog[k] # c
  BY DEF Inv, AcceptedIsMains, Accepting
<1> HIDE DEF c
<1>2. workers \in Seq(Conns) /\ Len(workers) \in Nat /\ DOMAIN workers = 1 .. Len(workers)
  BY LenProperties DEF Inv, TypeOK, MainOK
<1>3. workers' = Append(workers, c)
  BY DEF c
<1>4. /\ workers' \in Seq(Conns) /\ Len(workers') = Len(workers) + 1
      /\ DOMAIN workers' = 1 .. Len(workers) + 1
      /\ \A k \in 1 .. Len(workers) : workers'[k] = workers[k]
      /\ workers'[Len(workers) + 1] = c
  BY <1>1, <1>2, <1>3, AppendProperties, LenProperties
<1>5. /\ wpc' \in [Conns -> {"none", "while", "recv", "drain", "send", "close", "ended"}]
      /\ \A d \in Conns : wpc'[d] = IF d = c THEN "while" ELSE wpc[d]
      /\ wfd' \in [Conns -> Descriptor]
      /\ \A d \in Conns : wfd'[d] = IF d = c THEN cfd ELSE wfd[d]
  BY <1>1 DEF Inv, TypeOK, ConnsOK, Descriptor, c
<1>6. joined \in 0 .. Len(workers')
  BY <1>2, <1>4 DEF Inv, TypeOK, MainOK
<1>7. MainOK' /\ ConnsOK'
  BY <1>4, <1>5, <1>6 DEF Inv, TypeOK, MainOK, ConnsOK, Descriptor
<1>8. TypeOK'
  BY <1>7, Kept DEF TypeOK, process
<1>9. WorkersOwn'
  BY <1>1, <1>5 DEF Inv, WorkersOwn, process, c
<1>10. AcceptedIsMains'
  BY DEF AcceptedIsMains, Accepting
<1>11. BacklogIsNew'
  BY <1>1, <1>5, BacklogMembers DEF Inv, BacklogIsNew, world, sockets, masters
<1>12. ListenerIsKept'
  BY DEF Inv, ListenerIsKept, process, globals, signals
<1>13. AllAreJoined'
  <2>1. \A d \in Conns : wpc'[d] # "none" => \E k \in DOMAIN workers' : workers'[k] = d
    BY <1>2, <1>4, <1>5 DEF Inv, AllAreJoined
  <2>2. \A k \in 1 .. joined : wpc'[workers'[k]] = "ended"
    <3> TAKE k \in 1 .. joined
    <3>1. k \in 1 .. Len(workers)
      BY <1>2 DEF Inv, TypeOK, MainOK
    <3>2. workers'[k] = workers[k] /\ workers[k] \in Conns /\ wpc[workers[k]] = "ended"
      BY <1>2, <1>4, <3>1, ElementOfSeq DEF Inv, AllAreJoined
    <3> QED BY <1>1, <1>5, <3>2
  <2> QED BY <2>1, <2>2 DEF AllAreJoined
<1>14. BufferIsDrained'
  BY <1>1, <1>5 DEF Inv, BufferIsDrained, world, masters
<1> QED BY <1>8, <1>9, <1>10, <1>11, <1>12, <1>13, <1>14 DEF Inv

\* A join returns when its thread has ended.
LEMMA JoinStep ==
  ASSUME Inv, Join
  PROVE  Inv'
<1> USE DEF Join, At, process, globals, signals, connVars, world, sockets, masters
<1>1. joined \in 0 .. Len(workers) /\ Len(workers) \in Nat
  BY LenProperties DEF Inv, TypeOK, MainOK
<1>2. TypeOK'
  BY <1>1, Kept DEF Inv, TypeOK, MainOK
<1>3. AllAreJoined'
  BY <1>1 DEF Inv, AllAreJoined
<1> QED BY <1>2, <1>3, Kept DEF Inv

\* All joined: no thread is left to get the listener's number again.
LEMMA CloseListenerStep ==
  ASSUME Inv, CloseListener
  PROVE  Inv'
<1> USE DEF CloseListener, At
<1>1. lfd \in Fds /\ fds[lfd] = "listen"
  BY DEF Inv, ListenerIsKept
<1>2. /\ fds' \in [Fds -> {"free", "listen", "port"} \cup Conns]
      /\ fds'[lfd] \in {"listen", "free"} /\ listener' \in {"none", "open", "shut"}
  BY <1>1 DEF Inv, TypeOK, ProcessOK, WorldOK, Close
<1>3. ProcessOK' /\ MainOK' /\ WorldOK'
  BY <1>2 DEF Inv, TypeOK, ProcessOK, MainOK, WorldOK, globals, masters
<1>4. TypeOK'
  BY <1>3, Kept DEF TypeOK
<1>5. \A c \in Conns : wpc[c] \in {"none", "ended"}
  <2> SUFFICES ASSUME NEW c \in Conns, wpc[c] # "none"
               PROVE  wpc[c] = "ended"
    OBVIOUS
  <2>1. PICK k \in DOMAIN workers : workers[k] = c
    BY DEF Inv, AllAreJoined
  <2>2. k \in 1 .. joined
    BY LenProperties DEF Inv, TypeOK, MainOK
  <2> QED BY <2>1, <2>2 DEF Inv, AllAreJoined
<1>6. AllAreJoined'
  BY <1>5 DEF Inv, AllAreJoined, connVars
<1>7. WorkersOwn' /\ AcceptedIsMains'
  BY <1>5 DEF WorkersOwn, AcceptedIsMains, Accepting, connVars
<1>8. ListenerIsKept'
  BY <1>1, <1>2 DEF Inv, ListenerIsKept, globals, signals
<1> QED BY <1>4, <1>6, <1>7, <1>8, Kept DEF Inv, connVars, masters

\* The report changes nothing the invariant is about.
LEMMA ReportStep ==
  ASSUME Inv, Report
  PROVE  Inv'
<1> USE DEF Report, At, process, globals, signals, connVars
<1>1. TypeOK'
  BY Kept DEF Inv, TypeOK, MainOK
<1>2. AcceptedIsMains' /\ ListenerIsKept' /\ AllAreJoined'
  BY DEF Inv, AcceptedIsMains, Accepting, ListenerIsKept, AllAreJoined
<1> QED BY <1>1, <1>2, Kept DEF Inv, world, sockets, masters

-----------------------------------------------------------------------------
(***************************************************************************)
(* The threads of the connections.  A live one that goes on, or ends, is   *)
(* not the accepted connection, not in the backlog, and joined only once   *)
(* it has ended.                                                           *)
(***************************************************************************)
LEMMA WorkerGoes ==
  ASSUME Inv, NEW c \in Conns, wpc[c] \notin {"none", "ended"},
         NEW l \in {"while", "recv", "drain", "send", "close", "ended"}, Go(c, l),
         UNCHANGED <<mainVars, backlog, peer>>,
         \A d \in Conns, n \in Fds : d # c /\ fds[n] = d => fds'[n] = d
  PROVE  /\ wpc' \in [Conns -> {"none", "while", "recv", "drain", "send", "close", "ended"}]
         /\ \A d \in Conns : wpc'[d] = IF d = c THEN l ELSE wpc[d]
         /\ AcceptedIsMains' /\ BacklogIsNew' /\ AllAreJoined'
<1>1. /\ wpc' \in [Conns -> {"none", "while", "recv", "drain", "send", "close", "ended"}]
      /\ \A d \in Conns : wpc'[d] = IF d = c THEN l ELSE wpc[d]
  BY DEF Inv, TypeOK, ConnsOK, Go
<1>2. AcceptedIsMains'
  BY <1>1 DEF Inv, AcceptedIsMains, Accepting, mainVars
<1>3. BacklogIsNew'
  BY <1>1, BacklogMembers DEF Inv, BacklogIsNew
<1>4. AllAreJoined'
  <2>1. \A d \in Conns : wpc'[d] # "none" => \E k \in DOMAIN workers' : workers'[k] = d
    BY <1>1 DEF Inv, AllAreJoined, mainVars
  <2>2. \A k \in 1 .. joined : wpc'[workers[k]] = "ended"
    <3> TAKE k \in 1 .. joined
    <3>1. k \in 1 .. Len(workers) /\ workers \in Seq(Conns)
      BY LenProperties DEF Inv, TypeOK, MainOK
    <3>2. workers[k] \in Conns
      BY <3>1, ElementOfSeq
    <3> QED BY <1>1, <3>2 DEF Inv, AllAreJoined
  <2>3. mpc \notin {"report", "exited"}
    BY DEF Inv, AllAreJoined
  <2> QED BY <2>1, <2>2, <2>3 DEF AllAreJoined, mainVars
<1> QED BY <1>1, <1>2, <1>3, <1>4

\* A thread that closes its descriptor and ends closes nothing else.
LEMMA WorkerCloses ==
  ASSUME Inv, NEW c \in Conns, wpc[c] \notin {"none", "ended"},
         Close(wfd[c]), Go(c, "ended"), buf[c] # <<>> => Head(buf[c]) = "bad" \/ peer[c] = "left",
         UNCHANGED <<globals, signals, mainVars, wfd, buf, world>>
  PROVE  Inv'
<1> USE DEF globals, signals, world, sockets, masters
<1>1. wfd[c] \in Fds /\ fds[wfd[c]] = c
  BY DEF Inv, WorkersOwn
<1>2. /\ fds' \in [Fds -> {"free", "listen", "port"} \cup Conns]
      /\ \A n \in Fds : fds'[n] = IF n = wfd[c] THEN "free" ELSE fds[n]
  BY <1>1 DEF Inv, TypeOK, ProcessOK, Close
<1>3. \A d \in Conns, n \in Fds : d # c /\ fds[n] = d => fds'[n] = d
  BY <1>1, <1>2
<1>4. /\ wpc' \in [Conns -> {"none", "while", "recv", "drain", "send", "close", "ended"}]
      /\ \A d \in Conns : wpc'[d] = IF d = c THEN "ended" ELSE wpc[d]
      /\ AcceptedIsMains' /\ BacklogIsNew' /\ AllAreJoined'
  BY <1>3, WorkerGoes
<1>5. ProcessOK' /\ ConnsOK'
  BY <1>2, <1>4 DEF Inv, TypeOK, ProcessOK, ConnsOK
<1>6. TypeOK'
  BY <1>5, Kept DEF TypeOK
<1>7. WorkersOwn'
  BY <1>3, <1>4 DEF Inv, WorkersOwn
<1>8. ListenerIsKept'
  BY <1>1, <1>2, Distinct DEF Inv, ListenerIsKept, mainVars
<1>9. BufferIsDrained'
  BY <1>4 DEF Inv, BufferIsDrained
<1> QED BY <1>4, <1>6, <1>7, <1>8, <1>9 DEF Inv

\* A thread that goes on, its descriptor and all others as they were, does
\* right by its buffer if the frames in it are still to be answered.
LEMMA WorkerContinues ==
  ASSUME Inv, NEW c \in Conns, wpc[c] \notin {"none", "ended"},
         NEW l \in {"while", "recv", "drain", "send", "close"}, Go(c, l),
         buf' \in [Conns -> Seq({"good", "bad"})],
         \A d \in Conns : d # c => buf'[d] = buf[d],
         l \in {"drain", "send"} \/ buf'[c] = <<>>, l = "send" => buf'[c] # <<>>,
         WorldOK', UNCHANGED <<process, signals, mainVars, wfd, sockets, peer>>
  PROVE  Inv'
<1> USE DEF process, globals, signals, sockets
<1>1. /\ wpc' \in [Conns -> {"none", "while", "recv", "drain", "send", "close", "ended"}]
      /\ \A d \in Conns : wpc'[d] = IF d = c THEN l ELSE wpc[d]
      /\ AcceptedIsMains' /\ BacklogIsNew' /\ AllAreJoined'
  BY WorkerGoes
<1>2. ConnsOK'
  BY <1>1 DEF Inv, TypeOK, ConnsOK
<1>3. TypeOK'
  BY <1>2, Kept DEF TypeOK
<1>4. WorkersOwn'
  BY <1>1 DEF Inv, WorkersOwn
<1>5. ListenerIsKept'
  BY Kept DEF mainVars
<1>6. BufferIsDrained'
  BY <1>1 DEF Inv, BufferIsDrained
<1> QED BY <1>1, <1>3, <1>4, <1>5, <1>6 DEF Inv

\* serve_client tests g_running with its buffer drained.
LEMMA WhileRunningStep ==
  ASSUME Inv, NEW c \in Conns, WhileRunning(c)
  PROVE  Inv'
<1>1. buf[c] = <<>> /\ buf' = buf /\ buf \in [Conns -> Seq({"good", "bad"})]
  BY DEF WhileRunning, In, Inv, TypeOK, ConnsOK, BufferIsDrained
<1>2. WorldOK'
  BY Kept DEF WhileRunning
<1> QED BY <1>1, <1>2, WorkerContinues DEF WhileRunning, In, world, masters

\* What recv leaves in the two queues, and takes from one to the other.
LEMMA Received ==
  ASSUME NEW S, NEW held \in Seq(S), NEW queue \in Seq(S), NEW n \in DOMAIN queue
  PROVE  /\ held \o SubSeq(queue, 1, n) \in Seq(S)
         /\ SubSeq(queue, n + 1, Len(queue)) \in Seq(S)
<1>1. Len(queue) \in Nat /\ n \in 1 .. Len(queue)
  BY LenProperties
<1>2. \A i \in 1 .. Len(queue) : queue[i] \in S
  BY ElementOfSeq
<1>3. SubSeq(queue, 1, n) \in Seq(S)
  BY <1>1, <1>2, SubSeqProperties
<1>4. SubSeq(queue, n + 1, Len(queue)) \in Seq(S)
  BY <1>1, <1>2, SubSeqProperties
<1> QED BY <1>3, <1>4, ConcatProperties

\* What recv took is to be drained.
LEMMA RecvStep ==
  ASSUME Inv, NEW c \in Conns, Recv(c)
  PROVE  Inv'
<1> DEFINE S == Seq({"good", "bad"})
<1>1. buf \in [Conns -> S] /\ sock \in [Conns -> S]
  BY DEF Inv, TypeOK, ConnsOK, WorldOK
<1>2. PICK n \in DOMAIN sock[c] :
        /\ buf' = [buf EXCEPT ![c] = @ \o SubSeq(sock[c], 1, n)]
        /\ sock' = [sock EXCEPT ![c] = SubSeq(@, n + 1, Len(@))]
  BY DEF Recv
<1> DEFINE held == buf[c] \o SubSeq(sock[c], 1, n)
           rest == SubSeq(sock[c], n + 1, Len(sock[c]))
<1>3. held \in S /\ rest \in S
  BY <1>1, Received
<1>4. buf' = [buf EXCEPT ![c] = held] /\ sock' = [sock EXCEPT ![c] = rest]
  BY <1>2
<1> HIDE DEF S, held, rest
<1>5. buf' \in [Conns -> S] /\ sock' \in [Conns -> S] /\ \A d \in Conns : d # c => buf'[d] = buf[d]
  BY <1>1, <1>3, <1>4
<1>6. WorldOK'
  BY <1>5 DEF Recv, Inv, TypeOK, WorldOK, sockets, S
<1>7. buf' \in [Conns -> Seq({"good", "bad"})]
  BY <1>5 DEF S
<1> QED BY <1>5, <1>6, <1>7, WorkerContinues DEF Recv, In

\* recv returns 0 or -1 with the buffer drained.
LEMMA RecvEndsStep ==
  ASSUME Inv, NEW c \in Conns, RecvEnds(c)
  PROVE  Inv'
<1>1. buf[c] = <<>> /\ buf' = buf /\ buf \in [Conns -> Seq({"good", "bad"})]
  BY DEF RecvEnds, In, Inv, TypeOK, ConnsOK, BufferIsDrained
<1>2. WorldOK'
  BY Kept DEF RecvEnds
<1> QED BY <1>1, <1>2, WorkerContinues DEF RecvEnds, In, world, masters

\* Back to the while only once the buffer is drained.
LEMMA DrainedStep ==
  ASSUME Inv, NEW c \in Conns, Drained(c)
  PROVE  Inv'
<1>1. buf' = buf /\ buf \in [Conns -> Seq({"good", "bad"})]
  BY DEF Drained, Inv, TypeOK, ConnsOK
<1>2. WorldOK'
  BY Kept DEF Drained
<1> QED BY <1>1, <1>2, WorkerContinues DEF Drained, In, world, masters

\* A frame no decoder accepts: close and return.
LEMMA FramingErrorStep ==
  ASSUME Inv, NEW c \in Conns, FramingError(c)
  PROVE  Inv'
  BY WorkerCloses DEF FramingError, In

\* A transaction opens or closes the serial port at most, in a free number.
LEMMA HandleStep ==
  ASSUME Inv, NEW c \in Conns, Handle(c)
  PROVE  Inv'
<1> USE DEF Handle, In
<1>1. /\ fds' \in [Fds -> {"free", "listen", "port"} \cup Conns]
      /\ \A n \in Fds : fds[n] \in {"listen"} \cup Conns => fds'[n] = fds[n]
  <2>1. fds \in [Fds -> {"free", "listen", "port"} \cup Conns]
    BY DEF Inv, TypeOK, ProcessOK
  <2>2. CASE UNCHANGED fds
    BY <2>1, <2>2
  <2>3. CASE FreeFds # {} /\ Open("port")
    BY <2>1, <2>3, LowestIsFree, Distinct DEF Open
  <2>4. CASE \E n \in Ports : Close(n)
    BY <2>1, <2>4, Distinct DEF Ports, Close
  <2> QED BY <2>2, <2>3, <2>4
<1>2. /\ wpc' \in [Conns -> {"none", "while", "recv", "drain", "send", "close", "ended"}]
      /\ \A d \in Conns : wpc'[d] = IF d = c THEN "send" ELSE wpc[d]
      /\ AcceptedIsMains' /\ BacklogIsNew' /\ AllAreJoined'
  BY <1>1, WorkerGoes DEF world, sockets, masters
<1>3. ProcessOK' /\ ConnsOK'
  BY <1>1, <1>2 DEF Inv, TypeOK, ProcessOK, ConnsOK, globals
<1>4. TypeOK'
  BY <1>3, Kept DEF TypeOK
<1>5. WorkersOwn'
  BY <1>1, <1>2 DEF Inv, WorkersOwn
<1>6. ListenerIsKept'
  <2>1. mpc \notin {"report", "exited"}
    BY DEF Inv, AllAreJoined
  <2> QED BY <1>1, <2>1 DEF Inv, ListenerIsKept, globals, signals, mainVars
<1>7. BufferIsDrained'
  BY <1>2 DEF Inv, BufferIsDrained, world, masters
<1> QED BY <1>2, <1>4, <1>5, <1>6, <1>7 DEF Inv

\* The answer is out, its frame dropped.
LEMMA SendStep ==
  ASSUME Inv, NEW c \in Conns, Send(c)
  PROVE  Inv'
<1> USE DEF Send, In
<1> DEFINE S == Seq({"good", "bad"})
<1>1. buf \in [Conns -> S] /\ buf[c] # <<>>
  BY DEF Inv, TypeOK, ConnsOK, BufferIsDrained
<1>2. Tail(buf[c]) \in S
  BY <1>1, HeadTailProperties
<1> HIDE DEF S
<1>3. buf' \in [Conns -> S] /\ \A d \in Conns : d # c => buf'[d] = buf[d]
  BY <1>1, <1>2
<1>4. WorldOK'
  BY Kept
<1> QED BY <1>3, <1>4, WorkerContinues DEF S, world, masters

\* The master left during the answer: close and return.
LEMMA SendFailsStep ==
  ASSUME Inv, NEW c \in Conns, SendFails(c)
  PROVE  Inv'
  BY WorkerCloses DEF SendFails, In

\* The close after the loop, with the buffer drained.
LEMMA CloseConnStep ==
  ASSUME Inv, NEW c \in Conns, CloseConn(c)
  PROVE  Inv'
<1>1. buf[c] = <<>>
  BY DEF CloseConn, In, Inv, BufferIsDrained
<1> QED BY <1>1, WorkerCloses DEF CloseConn, In

-----------------------------------------------------------------------------
\* Every step of the server preserves the invariant.
LEMMA NextInv == Inv /\ [Next]_vars => Inv'
<1> SUFFICES ASSUME Inv, [Next]_vars PROVE Inv'
  OBVIOUS
<1>1. CASE MainStep
  BY <1>1, ListenStep, ListenFailsStep, PublishStep, WhileStep, AcceptStep, AcceptFailsStep,
     DumpStep, DispatchStep, SpawnStep, JoinStep, CloseListenerStep, ReportStep DEF MainStep
<1>2. CASE \E c \in Conns : WorkerStep(c)
  BY <1>2, WhileRunningStep, RecvStep, RecvEndsStep, DrainedStep, FramingErrorStep,
     HandleStep, SendStep, SendFailsStep, CloseConnStep DEF WorkerStep
<1>3. CASE \E t \in Threads : HandlerStep(t)
  BY <1>3, SignalExchangeStep, SignalShutdownStep DEF HandlerStep
<1>4. CASE Environment
  BY <1>4, ConnectStep, StallStep, LeaveStep, SubmitStep, SignalClearStep, on_sigusr1Step
     DEF Environment
<1>5. CASE UNCHANGED vars
  BY <1>5, Kept DEF Inv, TypeOK, vars, process, globals, signals, mainVars, connVars, world,
                    sockets, masters
<1> QED BY <1>1, <1>2, <1>3, <1>4, <1>5 DEF Next

\* Typing: the server's state, at every moment of its life.
THEOREM TypeCorrect == Spec => []TypeOK
<1>1. Inv => TypeOK
  BY DEF Inv
<1> QED BY <1>1, InitInv, NextInv, PTL DEF Spec

\* main.cpp:56, 126, 137, 144: no thread and no signal handler ever uses a
\* descriptor whose number stands for something else by then.
THEOREM DescriptorsOwned == Spec => []DescriptorsAreOwn
<1>1. ASSUME Inv PROVE DescriptorsAreOwn
  <2>1. \A c \in Conns : wpc[c] \notin {"none", "ended"} => fds[wfd[c]] = c
    BY <1>1 DEF Inv, WorkersOwn
  <2>2. ASSUME NEW t \in Threads, fd[t] # None
        PROVE  fds[fd[t]] \in {"listen", "free"}
    <3>1. fd[t] = lfd /\ lfd # None
      BY <1>1, <2>2 DEF Inv, ListenerIsKept
    <3> QED BY <1>1, <3>1 DEF Inv, ListenerIsKept
  <2> QED BY <2>1, <2>2 DEF DescriptorsAreOwn
<1> QED BY <1>1, InitInv, NextInv, PTL DEF Spec

\* main.cpp:300: when the report is printed every thread has ended, and left no
\* frame it had received unanswered but for the two reasons serve_client has.
THEOREM InFlightFinished == Spec => []InFlightFinishes
<1>1. Inv => InFlightFinishes
  BY DEF Inv, AllAreJoined, BufferIsDrained, InFlightFinishes
<1> QED BY <1>1, InitInv, NextInv, PTL DEF Spec
=============================================================================
