------------------------------- MODULE Server -------------------------------
(***************************************************************************)
(* The server around the connections: main of src/main.cpp from the moment *)
(* its signal handlers are in place, that is the listening socket, the     *)
(* accept loop, one thread per connection, SIGINT or SIGTERM (on_signal),  *)
(* SIGUSR1 (on_sigusr1), the join of all threads and the final report.     *)
(*                                                                         *)
(* serve_client is here with what it shares with main: g_running, its      *)
(* descriptor and its end.  Its stream is StreamServer's business, so what *)
(* a master sends is a sequence of "good" and "bad" frames.  The           *)
(* gateway is its promise: a call returns.  It may have opened or closed   *)
(* the serial port meanwhile.                                              *)
(*                                                                         *)
(* The kernel is the environment: it delivers a signal to any thread and   *)
(* restarts the system call it interrupts (signal() of glibc), gives out   *)
(* the lowest free descriptor, fails accept once the listening socket has  *)
(* been shut down or when no descriptor is free, and blocks a send while   *)
(* the master does not read.                                               *)
(***************************************************************************)
EXTENDS Integers, Sequences, FiniteSets

CONSTANTS
  Conns,      \* connections masters may make, and the threads that serve them
  Main,       \* the main thread
  Fds,        \* the descriptors the process may use
  MaxFrames,  \* bound: frames the masters send
  MaxStops    \* bound: SIGINT or SIGTERM sent

ASSUME ServerAssumption ==
  /\ IsFiniteSet(Conns) /\ Main \notin Conns
  /\ Conns \cap {"free", "listen", "port"} = {}
  /\ IsFiniteSet(Fds) /\ Fds \subseteq Nat
  /\ MaxFrames \in Nat /\ MaxStops \in Nat

Threads == Conns \cup {Main}

VARIABLES
  g_running, g_listen_fd, g_dump_stats,
  fds,       \* what each descriptor is: "free", "listen", "port" or a connection
  handler,   \* where each thread is in on_signal, "none" if it is not
  fd,        \* on_signal's fd, a local of the thread that runs it
  mpc, lfd, cfd,                      \* main
  workers,   \* the connections of main's thread objects, in order
  joined,    \* how many of them are joined
  wpc, wfd,                           \* serve_client
  buf,       \* the frames in its stream assembler
  listener,  \* the listening socket: "none", "open", "shut"
  backlog,   \* connections not yet accepted
  peer,      \* the master's end: "away", "open", "stalled" (not reading), "left"
  sock,      \* the frames in the connection's receive queue
  frames,    \* how many frames were sent
  stops      \* how many SIGINT or SIGTERM were sent

globals  == <<g_running, g_listen_fd, g_dump_stats>>
process  == <<globals, fds>>
signals  == <<handler, fd>>
mainVars == <<mpc, lfd, cfd, workers, joined>>
connVars == <<wpc, wfd, buf>>
sockets  == <<listener, backlog>>
masters  == <<peer, sock, frames>>
world    == <<sockets, masters, stops>>
vars     == <<process, signals, mainVars, connVars, world>>

None == -1

Init ==
  /\ g_running = TRUE /\ g_listen_fd = None /\ g_dump_stats = FALSE
  /\ fds = [n \in Fds |-> "free"]
  /\ handler = [t \in Threads |-> "none"] /\ fd = [t \in Threads |-> None]
  /\ mpc = "start" /\ lfd = None /\ cfd = None /\ workers = <<>> /\ joined = 0
  /\ wpc = [c \in Conns |-> "none"] /\ wfd = [c \in Conns |-> None]
  /\ buf = [c \in Conns |-> <<>>]
  /\ listener = "none" /\ backlog = <<>>
  /\ peer = [c \in Conns |-> "away"] /\ sock = [c \in Conns |-> <<>>]
  /\ frames = 0 /\ stops = 0

-----------------------------------------------------------------------------
\* The kernel's table of descriptors.
FreeFds  == { n \in Fds : fds[n] = "free" }
Lowest   == CHOOSE n \in FreeFds : \A k \in FreeFds : n <= k
Open(x)  == fds' = [fds EXCEPT ![Lowest] = x]
Close(n) == fds' = [fds EXCEPT ![n] = "free"]

-----------------------------------------------------------------------------
\* The masters: they connect, send, leave (a connection that is reset loses
\* what it had in its queue), and stop reading, which matters while an answer is
\* being sent; one that reads again has only been slow.
Present(c) == peer[c] \in {"open", "stalled"}

\* Which name the next connection has makes no difference.
Away == { c \in Conns : peer[c] = "away" }
NewConn == CHOOSE c \in Away : TRUE

Connect ==
  /\ Away # {} /\ listener = "open"
  /\ peer' = [peer EXCEPT ![NewConn] = "open"]
  /\ backlog' = Append(backlog, NewConn)
  /\ UNCHANGED <<process, signals, mainVars, connVars, listener, sock, frames, stops>>

Submit(c, frame) ==
  /\ Present(c) /\ frames < MaxFrames
  /\ sock' = [sock EXCEPT ![c] = Append(@, frame)]
  /\ frames' = frames + 1
  /\ UNCHANGED <<process, signals, mainVars, connVars, sockets, peer, stops>>

Stall(c) ==
  /\ peer[c] = "open" /\ wpc[c] = "send"
  /\ peer' = [peer EXCEPT ![c] = "stalled"]
  /\ UNCHANGED <<process, signals, mainVars, connVars, sockets, sock, frames, stops>>

Leave(c) ==
  /\ Present(c)
  /\ peer' = [peer EXCEPT ![c] = "left"]
  /\ \E rest \in {sock[c], <<>>} : sock' = [sock EXCEPT ![c] = rest]
  /\ UNCHANGED <<process, signals, mainVars, connVars, sockets, frames, stops>>

-----------------------------------------------------------------------------
(***************************************************************************)
(* Signals.  on_signal runs on the thread the kernel chose, which does     *)
(* nothing else meanwhile, and beside all the others.                      *)
(***************************************************************************)
Alive(t) == IF t = Main THEN mpc \notin {"failed", "exited"}
                        ELSE wpc[t] \notin {"none", "ended"}

\* Defect: the flag is only cleared if there is a socket to shut down.
SignalClear_IfListening(t) ==
  /\ Alive(t) /\ handler[t] = "none" /\ stops < MaxStops
  /\ stops' = stops + 1
  /\ g_running' = (g_running /\ g_listen_fd = None)
  /\ handler' = [handler EXCEPT ![t] = "exchange"]
  /\ UNCHANGED <<g_listen_fd, g_dump_stats, fds, fd, mainVars, connVars, sockets, masters>>

\* SIGINT or SIGTERM comes: g_running = false
SignalClear(t) ==
  /\ Alive(t) /\ handler[t] = "none" /\ stops < MaxStops
  /\ stops' = stops + 1
  /\ g_running' = FALSE
  /\ handler' = [handler EXCEPT ![t] = "exchange"]
  /\ UNCHANGED <<g_listen_fd, g_dump_stats, fds, fd, mainVars, connVars, sockets, masters>>

\* Defect: 0 for "none", which is a descriptor.
SignalExchange_Zero(t) ==
  /\ handler[t] = "exchange"
  /\ fd' = [fd EXCEPT ![t] = g_listen_fd]
  /\ g_listen_fd' = 0
  /\ handler' = [handler EXCEPT ![t] = "shutdown"]
  /\ UNCHANGED <<g_running, g_dump_stats, fds, mainVars, connVars, world>>

\* fd = g_listen_fd.exchange(-1)
SignalExchange(t) ==
  /\ handler[t] = "exchange"
  /\ fd' = [fd EXCEPT ![t] = g_listen_fd]
  /\ g_listen_fd' = None
  /\ handler' = [handler EXCEPT ![t] = "shutdown"]
  /\ UNCHANGED <<g_running, g_dump_stats, fds, mainVars, connVars, world>>

\* if (fd >= 0) shutdown(fd): connections not yet accepted are reset.
SignalShutdown(t) ==
  /\ handler[t] = "shutdown"
  /\ IF fd[t] # None /\ fds[fd[t]] = "listen"
       THEN /\ listener' = "shut" /\ backlog' = <<>>
            /\ peer' = [c \in Conns |-> IF c \in { backlog[k] : k \in DOMAIN backlog }
                                          THEN "left" ELSE peer[c]]
       ELSE UNCHANGED <<listener, backlog, peer>>
  /\ handler' = [handler EXCEPT ![t] = "none"]
  /\ fd' = [fd EXCEPT ![t] = None]
  /\ UNCHANGED <<process, mainVars, connVars, sock, frames, stops>>

HandlerStep(t) == SignalExchange(t) \/ SignalShutdown(t)

\* on_sigusr1, on whatever thread: one store.
on_sigusr1 ==
  /\ Alive(Main)
  /\ g_dump_stats' = TRUE
  /\ UNCHANGED <<g_running, g_listen_fd, fds, signals, mainVars, connVars, world>>

-----------------------------------------------------------------------------
\* The main thread, when no handler has it.
At(l) == mpc = l /\ handler[Main] = "none"

\* socket, bind, listen
Listen ==
  /\ At("start") /\ FreeFds # {}
  /\ lfd' = Lowest /\ Open("listen") /\ listener' = "open"
  /\ mpc' = "publish"
  /\ UNCHANGED <<globals, signals, cfd, workers, joined, connVars, backlog,
                 masters, stops>>

\* One of the three fails: return 1.
ListenFails ==
  /\ At("start")
  /\ mpc' = "failed"
  /\ UNCHANGED <<process, signals, lfd, cfd, workers, joined, connVars, world>>

\* g_listen_fd = lfd
Publish ==
  /\ At("publish")
  /\ g_listen_fd' = lfd
  /\ mpc' = "while"
  /\ UNCHANGED <<g_running, g_dump_stats, fds, signals, lfd, cfd, workers,
                 joined, connVars, world>>

\* Defect: the connection is served before the next is accepted.
While_Serial ==
  /\ At("while") /\ \A k \in DOMAIN workers : wpc[workers[k]] = "ended"
  /\ mpc' = IF g_running THEN "accept" ELSE "join"
  /\ UNCHANGED <<process, signals, lfd, cfd, workers, joined, connVars, world>>

\* while (g_running)
While ==
  /\ At("while")
  /\ mpc' = IF g_running THEN "accept" ELSE "join"
  /\ UNCHANGED <<process, signals, lfd, cfd, workers, joined, connVars, world>>

Accept ==
  /\ At("accept") /\ listener = "open" /\ backlog # <<>> /\ FreeFds # {}
  /\ cfd' = Lowest /\ Open(Head(backlog)) /\ backlog' = Tail(backlog)
  /\ mpc' = "accepted"
  /\ UNCHANGED <<globals, signals, lfd, workers, joined, connVars, listener,
                 masters, stops>>

\* The socket is shut down, or no descriptor is left: -1 at once.
AcceptFails ==
  /\ At("accept") /\ (listener = "shut" \/ FreeFds = {})
  /\ cfd' = None
  /\ mpc' = "accepted"
  /\ UNCHANGED <<process, signals, lfd, workers, joined, connVars, world>>

\* if (g_dump_stats.exchange(false)): the dump.
Dump ==
  /\ At("accepted")
  /\ g_dump_stats' = FALSE
  /\ mpc' = "dispatch"
  /\ UNCHANGED <<g_running, g_listen_fd, fds, signals, lfd, cfd, workers,
                 joined, connVars, world>>

\* if (cfd < 0) { if (g_running) continue; break; }
Dispatch ==
  /\ At("dispatch") /\ cfd = None
  /\ mpc' = IF g_running THEN "while" ELSE "join"
  /\ UNCHANGED <<process, signals, lfd, cfd, workers, joined, connVars, world>>

\* workers.emplace_back(serve_client, cfd, ...)
Spawn ==
  /\ At("dispatch") /\ cfd # None
  /\ workers' = Append(workers, fds[cfd])
  /\ wpc' = [wpc EXCEPT ![fds[cfd]] = "while"]
  /\ wfd' = [wfd EXCEPT ![fds[cfd]] = cfd] /\ cfd' = None
  /\ mpc' = "while"
  /\ UNCHANGED <<process, signals, lfd, joined, buf, world>>

\* for (auto& t : workers) t.join(), one thread of it.
Join ==
  /\ At("join") /\ joined < Len(workers) /\ wpc[workers[joined + 1]] = "ended"
  /\ joined' = joined + 1
  /\ UNCHANGED <<process, signals, mpc, lfd, cfd, workers, connVars, world>>

\* All joined: if (g_listen_fd >= 0) close(lfd).
CloseListener ==
  /\ At("join") /\ joined = Len(workers)
  /\ IF g_listen_fd # None THEN Close(lfd) /\ listener' = "none"
                           ELSE UNCHANGED <<fds, listener>>
  /\ mpc' = "report"
  /\ UNCHANGED <<globals, signals, lfd, cfd, workers, joined, connVars,
                 backlog, masters, stops>>

\* The counters are printed: return 0.
Report ==
  /\ At("report")
  /\ mpc' = "exited"
  /\ UNCHANGED <<process, signals, lfd, cfd, workers, joined, connVars, world>>

MainStep ==
  \/ Listen \/ ListenFails \/ Publish \/ While \/ Accept \/ AcceptFails \/ Dump
  \/ Dispatch \/ Spawn \/ Join \/ CloseListener \/ Report

-----------------------------------------------------------------------------
\* The thread of connection c, when no handler has it.
In(c, l) == wpc[c] = l /\ handler[c] = "none"

Go(c, l) == wpc' = [wpc EXCEPT ![c] = l]

\* Defect: for (;;), which only the master can end.
WhileRunning_Forever(c) ==
  /\ In(c, "while")
  /\ Go(c, "recv")
  /\ UNCHANGED <<process, signals, mainVars, wfd, buf, world>>

\* while (g_running)
WhileRunning(c) ==
  /\ In(c, "while")
  /\ Go(c, IF g_running THEN "recv" ELSE "close")
  /\ UNCHANGED <<process, signals, mainVars, wfd, buf, world>>

\* recv takes some of what is there.
Recv(c) ==
  /\ In(c, "recv")
  /\ \E n \in DOMAIN sock[c] :
       /\ buf' = [buf EXCEPT ![c] = @ \o SubSeq(sock[c], 1, n)]
       /\ sock' = [sock EXCEPT ![c] = SubSeq(@, n + 1, Len(@))]
  /\ Go(c, "drain")
  /\ UNCHANGED <<process, signals, mainVars, wfd, sockets, peer, frames, stops>>

\* recv returns 0 or -1: break.
RecvEnds(c) ==
  /\ In(c, "recv") /\ peer[c] = "left" /\ sock[c] = <<>>
  /\ Go(c, "close")
  /\ UNCHANGED <<process, signals, mainVars, wfd, buf, world>>

\* Defect: g_running is looked at before every frame.
Drained_Hasty(c) ==
  /\ In(c, "drain") /\ (buf[c] = <<>> \/ ~ g_running)
  /\ Go(c, "while")
  /\ UNCHANGED <<process, signals, mainVars, wfd, buf, world>>

\* NeedMoreData: back to the while.
Drained(c) ==
  /\ In(c, "drain") /\ buf[c] = <<>>
  /\ Go(c, "while")
  /\ UNCHANGED <<process, signals, mainVars, wfd, buf, world>>

\* Defect: out of the loops after the close, to the close at the end.
FramingError_Break(c) ==
  /\ In(c, "drain") /\ buf[c] # <<>> /\ Head(buf[c]) = "bad"
  /\ Close(wfd[c])
  /\ Go(c, "close")
  /\ UNCHANGED <<globals, signals, mainVars, wfd, buf, world>>

\* close(fd); return
FramingError(c) ==
  /\ In(c, "drain") /\ buf[c] # <<>> /\ Head(buf[c]) = "bad"
  /\ Close(wfd[c])
  /\ Go(c, "ended")
  /\ UNCHANGED <<globals, signals, mainVars, wfd, buf, world>>

\* gw.handle, which leaves the serial port as it was, opened or closed.
Ports == { n \in Fds : fds[n] = "port" }

Handle(c) ==
  /\ In(c, "drain") /\ buf[c] # <<>> /\ Head(buf[c]) = "good"
  /\ \/ UNCHANGED fds
     \/ Ports = {} /\ FreeFds # {} /\ Open("port")
     \/ \E n \in Ports : Close(n)
  /\ Go(c, "send")
  /\ UNCHANGED <<globals, signals, mainVars, wfd, buf, world>>

\* The answer is sent, the frame dropped from buf.
Send(c) ==
  /\ In(c, "send") /\ peer[c] # "stalled"
  /\ buf' = [buf EXCEPT ![c] = Tail(@)]
  /\ Go(c, "drain")
  /\ UNCHANGED <<process, signals, mainVars, wfd, world>>

\* close(fd); return
SendFails(c) ==
  /\ In(c, "send") /\ peer[c] = "left"
  /\ Close(wfd[c])
  /\ Go(c, "ended")
  /\ UNCHANGED <<globals, signals, mainVars, wfd, buf, world>>

\* close(fd) at the end.
CloseConn(c) ==
  /\ In(c, "close")
  /\ Close(wfd[c])
  /\ Go(c, "ended")
  /\ UNCHANGED <<globals, signals, mainVars, wfd, buf, world>>

WorkerStep(c) ==
  \/ WhileRunning(c) \/ Recv(c) \/ RecvEnds(c) \/ Drained(c) \/ FramingError(c)
  \/ Handle(c) \/ Send(c) \/ SendFails(c) \/ CloseConn(c)

-----------------------------------------------------------------------------
Environment ==
  \/ Connect
  \/ \E c \in Conns : \/ Stall(c) \/ Leave(c)
                      \/ \E frame \in {"good", "bad"} : Submit(c, frame)
  \/ \E t \in Threads : SignalClear(t)
  \/ on_sigusr1

Next ==
  \/ MainStep
  \/ \E c \in Conns : WorkerStep(c)
  \/ \E t \in Threads : HandlerStep(t)
  \/ Environment

\* Every thread runs, in a handler or out of it; nobody has to connect, send,
\* read, leave or signal.
Fairness ==
  /\ WF_vars(MainStep)
  /\ \A c \in Conns : WF_vars(WorkerStep(c))
  /\ \A t \in Threads : WF_vars(HandlerStep(t))

Spec == Init /\ [][Next]_vars /\ Fairness

-----------------------------------------------------------------------------
Descriptor == Fds \cup {None}

ProcessOK ==
  /\ g_running \in BOOLEAN /\ g_listen_fd \in Descriptor /\ g_dump_stats \in BOOLEAN
  /\ fds \in [Fds -> {"free", "listen", "port"} \cup Conns]

SignalsOK ==
  /\ handler \in [Threads -> {"none", "exchange", "shutdown"}]
  /\ fd \in [Threads -> Descriptor]

MainOK ==
  /\ mpc \in {"start", "failed", "publish", "while", "accept", "accepted", "dispatch",
              "join", "report", "exited"}
  /\ lfd \in Descriptor /\ cfd \in Descriptor
  /\ workers \in Seq(Conns) /\ joined \in 0 .. Len(workers)

ConnsOK ==
  /\ wpc \in [Conns -> {"none", "while", "recv", "drain", "send", "close", "ended"}]
  /\ wfd \in [Conns -> Descriptor] /\ buf \in [Conns -> Seq({"good", "bad"})]

WorldOK ==
  /\ listener \in {"none", "open", "shut"} /\ backlog \in Seq(Conns)
  /\ peer \in [Conns -> {"away", "open", "stalled", "left"}]
  /\ sock \in [Conns -> Seq({"good", "bad"})]
  /\ frames \in 0 .. MaxFrames /\ stops \in 0 .. MaxStops

\* The process, its threads and the masters.
TypeOK == ProcessOK /\ SignalsOK /\ MainOK /\ ConnsOK /\ WorldOK

(***************************************************************************)
(* Descriptor numbers are used again, so each must be closed once and not  *)
(* used after (main.cpp:126, 137, 144): a thread of serve_client that has  *)
(* not ended still owns the connection its fd stands for, and on_signal    *)
(* (main.cpp:56) shuts down the listening socket or nothing, never a       *)
(* connection or the serial port that got its number.                      *)
(***************************************************************************)
DescriptorsAreOwn ==
  /\ \A c \in Conns : wpc[c] \notin {"none", "ended"} => fds[wfd[c]] = c
  /\ \A t \in Threads : handler[t] = "shutdown" /\ fd[t] # None =>
       fds[fd[t]] \in {"listen", "free"}

(***************************************************************************)
(* main.cpp:300: "in-flight transactions are allowed to finish".  When the *)
(* final report is printed, no thread is running, every frame that one had *)
(* received is answered (unless its master left, or bytes no decoder       *)
(* accepts came before it), so that the report has counted it.             *)
(***************************************************************************)
InFlightFinishes ==
  mpc \in {"report", "exited"} =>
    \A c \in Conns :
      /\ wpc[c] \in {"none", "ended"}
      /\ buf[c] # <<>> => Head(buf[c]) = "bad" \/ peer[c] = "left"

(***************************************************************************)
(* A stop is never lost, in whatever thread and at whatever point of main  *)
(* it comes, before g_listen_fd is set and between the test of g_running   *)
(* and accept too (main.cpp:53-57, 268-269): main leaves the accept loop.  *)
(***************************************************************************)
AcceptLoopEnds ==
  (stops > 0) ~> (mpc \in {"join", "report", "exited", "failed"})

\* The thread of c waits for its master: to send, or to read.
WaitsToSend(c) == wpc[c] = "send" /\ peer[c] = "stalled"
HeldUpBy(c) == WaitsToSend(c) \/ (wpc[c] = "recv" /\ Present(c) /\ sock[c] = <<>>)

(***************************************************************************)
(* main.cpp:104 and 305: once stopped, the program ends unless a master    *)
(* that stays connected holds a thread, and it holds it in the recv or the *)
(* send it was in: a thread that is anywhere else ends without waiting for *)
(* one more frame.                                                         *)
(***************************************************************************)
OnlyMastersDelayExit ==
  /\ <>[](stops = 0 \/ mpc \in {"exited", "failed"} \/ \E c \in Conns : HeldUpBy(c))
  /\ \A c \in Conns :
       (~ g_running /\ wpc[c] \in {"while", "drain", "send"}) ~>
         (wpc[c] = "ended" \/ WaitsToSend(c))

(***************************************************************************)
(* main.cpp:295-296: a connection waits for nothing but a descriptor.  A   *)
(* failing accept is tried again, and other masters, silent or stalled,    *)
(* have threads of their own.                                              *)
(***************************************************************************)
EveryMasterAccepted ==
  \A c \in Conns :
    []<>(c \notin { backlog[k] : k \in DOMAIN backlog } \/ FreeFds = {} \/ ~ g_running)

(***************************************************************************)
(* main.cpp:72-75: "diagnostics have to be available while it runs": a     *)
(* dump asked for with SIGUSR1 is printed, unless the program stops.       *)
(***************************************************************************)
DumpIsPrinted ==
  g_dump_stats ~> (~ g_dump_stats \/ ~ g_running \/ mpc = "failed")
=============================================================================
