# A TLA+ model of the Modbus TCP/RTU gateway

This directory models the gateway in `src/`: several Modbus TCP masters, one thread each, share one
Modbus RTU bus, which is either a bank of slaves in the same process or a serial line. TLC checks the
modules on small instances; TLAPS proves the safety properties of all components but two for every instance. `PROJECT.json` lists
components, runs, mutants, theorems and hazards and maps each definition to its lines of source.

## Inventory

| Component | State | Operations | What makes it correct |
|---|---|---|---|
| RTU slave core, `rtu-core/modbus_slave.c` | registers, six counters | `mb_slave_init`, `mb_slave_handle` | acknowledged writes are stored, refused frames change nothing, broadcasts are never answered, answers fit the buffer |
| Bridge, `src/gateway.cpp` | five counters, one of them (`malformed`) also written by `serve_client`; per call, the request in the caller's stack frame | `Gateway::handle`, `tcp_to_rtu`, `rtu_to_tcp` | the answer belongs to the request; a bad CRC is never forwarded; every call returns and is counted once |
| In-process bus, `InProcessRtu` | slaves, mutex `bus_` | `transact` | requests take effect one at a time, a broadcast at once |
| Fault injector, `FaultyRtu` | mutex `m_`, `dropped_`, `corrupted_` | `transact` | its faults end as exceptions and in the right counters |
| Serial bus, `src/serial_rtu.hpp` | descriptor, time of the last attempt, mutex `bus_`, five counters | `transact`, `ensure_open`, `close_port` | no stale or partial answer; a dead port is dropped, then reopened after the backoff |
| MBAP codec, `src/mbap.cpp` | none | `decode`, `encode`, `make_exception` | frame boundaries do not depend on how TCP cuts the stream |
| Connection, `serve_client` | assembler `buf`, send position | recv, decode, handle, send, erase, close | every frame answered once, in order, whole |
| Server, `main` | `g_running`, `g_listen_fd`, `g_dump_stats`, `workers` | accept loop, `on_signal`, `on_sigusr1`, join | a stop stops it, a dump is printed |
| Configuration, `config.hpp` and the command line | key/value map, `Options` | `load`, `str`, `num`, `real`, `units`, the merge in `main` | the command line wins over the file |
| CRC, `rtu-core/modbus_crc.c` | none | `mb_crc16` | detects a flipped bit; zero over an intact frame |

`main` accepts a connection and starts `serve_client` in a thread. That thread decodes frames and calls
`Gateway::handle`, which calls `transact` of whichever transport was built, through the injector if a fault rate was
given. All threads share the gateway, its counters and the transport. A signal handler runs on any thread; it clears
`g_running`, which every loop looks at, and shuts the listening socket down.

What is hard to test here: threads that meet on one bus, an answer that comes after its timeout, faults between the
effect of a request and its answer, TCP segmentation, the loss of the serial adapter at any point, a signal at any point of
any thread, descriptors that are used again, and what must happen eventually (answers, the end of a worker, the end of the
program). `PROJECT.json` lists each hazard at its line.

## Modules

| Module | Models | Remarks |
|---|---|---|
| `ModbusSlave` | `mb_slave_handle` as an operator from slave and frame to slave, result and response | A frame is a record: address, function code, length, two words, byte count, registers, and whether the CRC agrees. Every length test of the code is a test on `len`. |
| `SlaveNode` | one slave fed with frames | |
| `Gateway` | the callers' and the counters' part of the state; what `handle` does before and after `transact`; `serve_client`'s count of a framing error | extended by the two transports, which take a thread at `pc = "transact"` and give it back with `TransactReturns` |
| `InProcessGateway` | `Gateway` over `InProcessRtu`, optionally inside `FaultyRtu` | one step per lock, per slave of the loop, per draw of the injector; `mb_slave_handle` is one step, which `Exclusive` justifies |
| `RegisterService` | nothing in the code: the promise | register files on which each request acts at one instant; states the function codes' meaning on its own, but for the shape of an exception and the limits on quantities, which it takes from `ModbusSlave` |
| `SerialGateway` | `Gateway` over `SerialRtu` | one step between two points where the line may act; devices, tty, clock and adapter are the environment |
| `Mbap` | the codec, on bytes | |
| `StreamServer` | `serve_client`, one connection | over `Mbap`; the gateway is replaced by its proved promise, an answer with the request's transaction and unit |
| `Server` | `main` after its set-up, with `serve_client` as far as they share state | one step per statement that others can see, in `on_signal` too; masters and the kernel's descriptor table are the environment |
| `Config` | the option loop, `Config::load`, the merge, the choice of transport | ends with a reference definition of the settings that has no loops; it shares the conversions of texts with the model of the code, so it is a reference for the loops and the merge, not for them |
| `Crc16` | `mb_crc16`, one step per bit; sealing and testing a frame | ends with a reference by polynomials; for TLC only |
| `MC*` | instances for TLC | |
| `ModbusSlaveProofs`, `GatewayProofs` | lemmas and theorems about operators: the slave, and `handle` around any transport | what the next ones share |
| `SlaveNodeProofs`, `InProcessGatewayProofs`, `SerialGatewayProofs`, `StreamServerProofs`, `ServerProofs`, `ConfigProofs` | theorems about the specification of the same name | each begins with its inductive invariant |

Definitions named `X_Something` next to an `X`, marked *Defect*, are plausible bugs in `X`. No specification uses
them; `PROJECT.json` pairs each with a property that fails once `X` is replaced by it.

### State and code

In the gateway modules `pc[c]` is where thread `c` is: `idle` (outside `handle`), `closed` (ended by a framing error), `transact` (waiting for the
transport's first lock), the transport's own places, and `return` (back in `handle`). `req[c]` is the argument of
`handle`, `rsp[c]` the vector `rtu_rsp` (empty where `transact` returned false), `stats` is `GatewayStats`, which has two writers: `handle`, and
`serve_client`, which counts a framing error in `malformed` without a request and ends its thread (`FramingError`, `main.cpp:122`). `log`
is history. Mutexes are the sets `bus` and `m` of their holders, so that a missing lock is visible as a set of
two. In `InProcessGateway`, `idx[c]` is the position in `for (auto& s : slaves_)`.

In `SerialGateway`, `fd` is `closed`, `live` or `dead` (still open, the adapter gone), `since` is the time since
`last_attempt_` as far as the backoff tells it apart, `rx` is `rsp` as the fragments read into it, `books` the port's
counters. `OpenFails` stands for `open`, `tcgetattr` and `tcsetattr` failing, which they may do with the adapter there too. `pend` holds the fragments on their way and `line` those in the tty's queue. A device's answer carries the number of
the request it was sent for as its register value, so that properties can tell whose answer it is; `at` and
`flushes` tell whether it was in the queue before the flush. `MayBeLate` allows `Silence` while bytes are on their way: both
timeouts of the read loop, the response timeout before the first byte and the gap after it, may then be too short.

In `Server`, `mpc` and `wpc[c]` are where main and the thread of connection `c` are, `handler[t]` where thread `t` is
in `on_signal` (a thread in its handler does nothing else). `fds` is the process's descriptor table; descriptors are given out
lowest first and shared by the listening socket, the connections and the serial port, which a call of the gateway may open
or close. What a master sends is a sequence of good and bad frames: `StreamServer` shows that `serve_client` reduces its bytes to
that. Connections have no identity before they are made, so the next one is chosen and not enumerated. The arrival of a stop signal and
`g_running = false` are one step, as are a call of the gateway and its return: nothing another thread can see lies
between.

In `Config`, a text is the sequence of its pieces between commas, and `stoi`, `stod`, `strtoul` are constant functions on
pieces: `0x11` is 0 to the command line and 17 to the file, `x` throws there and is 0 here. `argv` and `file` are chosen at the
start; `i` and `lineno` walk through them. In `Crc16`, `calc` is what the slave's test looks at, `crc` at the end what the
gateway's does.

In `StreamServer`, `items` is what this master will ever send, `arrived` how many of the bytes `recv` has
returned; `answered`, `replies` and `wire` are history. An item is a whole frame (`WholeFrame`), bytes whose header must be refused
(`BadHeader`), or the beginning of a frame that is never finished (`CutShort`), which only the last can be. The three are defined by
what the bytes say, not by the decoder, and every stream can be cut that way: they are the reference `decode` and the loop of
`serve_client` are held against.

## Runs

| Run | Instance | Checks |
|---|---|---|
| `slave` | 130 registers, 132 frames at every limit, sequences of two | `CountersAgree`, `ReplyFits`, `AckedWriteIsStored`, `RefusedLeavesRegisters` |
| `inproc_clean` | 3 masters, 1 call each, 11 requests, 2 slaves of 2 registers | `Exclusive`, no deadlock, `RefinesRegisterService` |
| `inproc_faulty` | 2 masters, 2 calls each, 4 requests, drop and corruption | `RoutingInvariant`, `StatsConserved`, `FaultsAccounted`, `EveryCallReturns`, `RefinesRegisterService` |
| `stream` | up to 3 items, chunks up to 16 bytes, sends up to 5 | `AnswersTheFramesSent`, `BufferIsTheRest`, `NothingLeftBehind`, `AnswersArriveWhole`, `MalformedIsTheBadItem`, `EveryFrameAnswered`, `EndsWithThePeer` |
| `serial_prompt` | 2 masters, alike (symmetry), 2 calls each, 2 devices, two unpluggings, answers in time | `AnswersOwnRequest`, `RoutingInvariant`, `BooksAgree`, `DeadPortIsDropped`, `BacksOff` |
| `serial_late` | 2 masters, 1 call each, late answers, noise, one unplugging | `InputIsFresh`, `OnlyWholeAnswers`, `EveryCallReturns` |
| `serial_routing` | 2 masters, 1 call each, late answers | `RoutingInvariant` is **violated** |
| `server` | 2 masters, 3 descriptors, 1 frame, 2 stop signals, SIGUSR1 | `DescriptorsAreOwn`, `InFlightFinishes`, `AcceptLoopEnds`, `OnlyMastersDelayExit`, `EveryMasterAccepted` |
| `server_dump` | 1 master | `DumpIsPrinted` is **violated** |
| `config` | up to 3 options, 2 lines | `StartsAsConfigured`, `BadInputNeverStarts` |
| `config_units` | the same | `CommandLineWins` is **violated** |
| `crc` | 27 bodies of 2 or 6 bytes, each intact or with one of 12 bursts anywhere | `CrcIsRemainder`, `DamageIsDetected` |

Each passing run that has a `TypeOK` in its configuration checks it too.

**Bounds.** Two slaves are enough for a broadcast to be half done and for an answer to come from the wrong one;
two threads for every pair of steps to interleave, the third in `inproc_clean` to have two waiters for one mutex.
Two calls per thread let a second transaction begin on what the first left behind. Register values include 65535, addresses
include 65535, and 130 registers exceed the limits of both reads (125) and writes (123). `ChunkSize` 16 stands for 1024:
what matters is that a chunk may hold more than one frame and less than one, and both happen (the shortest frame has
8 bytes, the longest 260). `NoiseSize` 128 lets two bursts reach the ADU limit. `MaxTicks` and `MaxUnplugs` are 1 in
`serial_late`: a lost port, a failing attempt, a backoff and a successful one fit in a behaviour. `serial_prompt` has two unpluggings, so that a
descriptor that was opened again can go as well.
Three descriptors for the listening socket, two connections and the serial port: `accept` runs out of them, and a number that is
closed is soon somebody else's. Two stop signals let two handlers race each other and `main`; one frame is enough to have a
request in flight, or a framing error, when they come. The options and lines of `config` include every key, repeated ones, an
option whose value is missing or looks like an option, unreadable numbers and numbers that are cut off. The bodies of `crc` hold
the bytes at which carries and shifts differ; bursts have 1 to 16 bits, the length the CRC is meant to detect.
`CHECK_DEADLOCK FALSE` is set where behaviours end because a bound is reached or a connection closes; in
`inproc_clean` deadlock is checked, with `Finished` as the only way to stop.

**Fairness.** `WF(Progress(c))` for each thread: the operating system runs every thread that can run. `std::mutex`
is not fair, so no strong fairness is assumed; a thread that waits for a mutex gets it because the others make a bounded number of
calls. In `SerialGateway`, `WF(Arrive)`: bytes on the wire arrive; `poll` has a timeout, so `Silence` is a step of
the thread. In `StreamServer` only the thread is fair: the master and the operator may stop at any time. There `send` is assumed to
return, that is, a master that is not gone reads its answers (`EveryFrameAnswered`, `EndsWithThePeer`); `Server` has the `send` that blocks. In `Server`, main, each
worker and each handler are weakly fair; no master has to connect, send, read or leave, and no signal has to come. `recv`, `send` and
`accept` are steps that are only enabled when the system call returns.

**What they show.** The in-process gateway implements the atomic register service, faults included: that is the
routing invariant with its data. The faults of the injector never reach a master as data. The connection handler neither
loses, repeats nor merges frames. The serial transport keeps its books, drops a dead port after at most one more call and
never forwards a partial frame.
A stop signal always ends the accept loop, what was received is answered before the report, and only a
master that stays connected, silent or not reading, can keep the program from ending (it can, for ever: nothing wakes its thread). The settings
are those of a declarative reading of the inputs, and `mb_crc16` is the division it is named after; both receivers' tests accept
exactly the intact frames, which is what the `crc` field of the other modules stands for.

**Findings.** (1) `serial_rtu.hpp` flushes the input before a request so that "a late reply to the previous request" is not
"read as the answer to this one". A reply that arrives after the flush is read as just that, and as neither the unit id nor the
function of the frame is compared with the request, the second master gets the first one's reading under the
wrong unit id: the invariant of `gateway.hpp:32-34` does not hold on a line where answers may be late. With answers in
time (`serial_prompt`) it holds. (2) `on_sigusr1` sets a flag that main looks at when `accept` returns, and `signal` restarts
`accept`: the dump "without stopping the gateway" (`main.cpp:72`) waits for the next connection. (3) The file's `units` replace those of the
command line (`main.cpp:206`), where the comment above promises that a command-line value wins, as it does for all other keys.

## Proofs

All theorems hold for every value of the constants that satisfies the named assumptions: `GatewayAssumption` (finitely many
threads, requests are MBAP frames, of at most 65532 bytes where they do not come from TCP: the sizes are cast to `uint16_t` on their way to the slave), `BusAssumption` (unit ids are bytes; 1 to 256 registers per slave, the
range in which the constructor's `(id << 8) | i` is an addition), `NodeAssumption` (an address that is a byte, at least one and at most
65535 registers), `SerialAssumption` (devices have the unit ids 1 to 255; a burst of noise has 1 to 256 bytes), `StreamAssumption` (a master sends
items, an unfinished frame last; `chunk` has room), `ServerAssumption` (finitely many connections and descriptors), `ConfigAssumption` (the
conversions are functions on the pieces, command lines are sequences of texts and files sequences of lines). TLC evaluates them in every run.
In each module an invariant that is inductive (`Init => Inv`, `Inv /\ [Next]_vars => Inv'`, one lemma per action) implies the
properties; all the parts of these invariants were checked by TLC on the runs' instances before they were proved.

**Slave.**
- `HandleSound`, `HandleEffect` (`ModbusSlaveProofs`): what one call of `mb_slave_handle` guarantees. The counters must be in balance before the
  call (`Balanced`); `Owed` is the intermediate fact, an accepted frame that has been counted and not yet
  answered. `HandleEffect` adds what happens to the registers and how long the answer is. Each case of the switch has its lemma.
- `NodeTypeCorrect`, `CountersAlwaysAgree`, `RepliesFit`, `AckedWritesStored`, `RefusedKeepsRegisters` (`SlaveNodeProofs`): `NodeInv`, the
  conjunction of the first four properties, is inductive by the two theorems above; the fifth is an action property and follows from
  `HandleEffect` for the step that is taken.

**In-process gateway** (`InProcessGatewayProofs`, over `GatewayProofs`).
- `TypeCorrect`, `RoutingHolds`: `RoutingInvariant` speaks of finished calls and is not inductive. `RouteInv` adds that
  a thread inside `handle` has a request (`HasRequest`), that an intact answer it holds is from the unit that request
  names (`AnswerIsFromUnit`), and that the slaves are balanced (`SlavesBalanced`), for `HandleSound`. Three lemmas cover the shapes
  of steps: `MoveStep` (before an answer), `AnswerStep` (the end of an exchange), `LogStep` (the return of `handle`); a corrupted
  frame is harmless because its CRC is wrong (`FlippedShape`) and `rtu_to_tcp` looks at it (`RtuToTcpFrame`).
- `MutualExclusion`: `Exclusive` is inductive on its own once `pc` is typed (`ExclusiveMove`). It covers `m_` as well, which the run
  `inproc_clean`, without the injector, does not.
- `StatsAreConserved`: by the change of `Cardinality(InFlight)` in each step, and of `Cardinality(Closed)` where `serve_client` counts a framing error: such a
  connection is counted in `malformed` and is no request, so it stands on the side of the requests in the equation.
- `FaultsAlwaysAccounted`: `FaultInv` adds that an answer nobody has touched has a good CRC and is long enough to be forwarded
  (`AnswersIntact`), so that a CRC failure is always the injector's work. The threads that hold a damaged frame and those that return with
  none are counted as they come and go.
- `ImplementsRegisterService`: `Spec => RefinesRegisterService`, with the mapping of `InProcessGateway`. It has three layers.
  1. *The slave.* `HandleMeans`: one call of `mb_slave_handle` does to the registers what `Effect` says of one unit, answers exactly when the PDU is
     well formed and no broadcast, and answers what `AnswerOf` says. There is one lemma per function code, for what the service says (`ReadSaid`, ...)
     and for what the code does (`ReadMeans`, ...). This is where two statements of the function codes meet: the code's, and the service's, which says what is refused and what happens to the
     registers in its own terms but shares `ExceptionPdu` and the limits on quantities with the code's.
  2. *The bus.* The state functions of the mapping as operators on the slaves, the request and the place of the loop (`Bank`, `Awaited`; `BankInLoop`,
     `ThreadsMapped`). `BankStarts`: when a thread gets `bus_`, the bank as its loop will leave it is `Effect` of its request, and what it will
     return is `Answer`: a unicast is answered by the first unit with its id and goes no further, a broadcast by none.
     `BankGoesOn`, `BankAnswers`, `BankAtEnd`: no turn of the loop changes either.
  3. *The steps.* `BusLockMapped` is `Execute`; a drop is `LoseRequest` (`EntryMapped`), a flipped bit `LoseAnswer` (`InjectorMapped`), the three ways out of
     `handle` are `Return` (`LeaveMapped`), the rest stutter. They rest on `MapInv`: the invariants above, that the slaves keep
     their ids (`IdsKept`), and that a request inside `handle` is not empty (`NotEmpty`). `Exclusive` is essential: the mapping looks ahead for
     one thread, which is right only if no other can touch the slaves meanwhile.

  The proof found an error of the abstract specification. A caller of `handle` may pass a PDU of more than 253 bytes, which TCP cannot; the frame then
  exceeds `MB_ADU_MAX` and the slave is silent, where `RegisterService` promised an exception for an unknown function. `WellFormed` now asks that
  the PDU fits a frame, and `inproc_clean` has such a request.

**Serial gateway** (`SerialGatewayProofs`), in three layers.
- `TypeCorrect`, `InputFresh`, `DeadPortDropped`, `BackoffHolds`, `BooksAlwaysAgree`: `Inv` says that `bus_` is held by exactly the thread inside `transact`
  (`Holds`), that the queue behind a flush holds nothing older (`Fresh`), that a transaction on a dead descriptor is still before its
  write (`Dropping`), that every attempt to open was paid for by a backoff (`Paid`), and that the books agree. The proof of `Dropping` found an error of
  the model: the history variable `stale` was not reset when the port was opened again. TLC had not met it because `serial_prompt` had only one
  unplugging; it has two now.
- `OnlyWhole`, on any line: `Routed` numbers the answers by the requests they were sent for. The answers on their way are answers to requests
  that were written (`Traced`), in the order of the requests along wire, queue and buffer (`Ordered`); what a thread takes out of
  `transact` is newer than everything taken before (`Past`), so nothing is taken twice (`Once`).
- `OwnAnswers`, `RoutesOnPromptLine`, with `~ MayBeLate` and `~ MayBabble` as hypotheses: `Prompt` adds that only a thread that polls a live port has anything on its way
  (`NoLeftovers`), that this is one answer, in at most two fragments, to the request it wrote last (`OneAnswer`), and so that the buffer never
  fills (`NeverFull`; two bursts of noise could fill it and leave the answer on the line, as a late one). The run `serial_routing` shows that the hypothesis on timing is needed.

**Connection** (`StreamServerProofs`): `TypeCorrect`, `FramesAnswered`, `BufferRest`, `NothingStaysBehind`, `AnswersWhole`, `MalformedCounted`.
- `decode` finds in a buffer that begins with a whole frame that frame, and takes its bytes (`DecodeTakes`); it refuses a bad header as soon as it is complete and
  asks for more bytes in front of a frame that is not (`DecodeFails`). So what a drain does depends on the next item of the stream alone, however
  the bytes were cut into segments (`Drained`).
- `Inv`: the frames answered so far are the first items (`AnswersTheFramesSent`), the buffer is a part of the stream that begins behind them
  (`Assembled`), the answer in hand is to the next item (`Answering`), and what has been sent is a beginning of the answers (`Sending`).
- `Bytes` is a recursive function. Its equation is derived for every length with `Induct`, induction over the natural numbers for a *set* of them, which
  follows from the well-foundedness of finite sets in the library; the library's own induction theorems take an operator and cannot be used here.

**Server** (`ServerProofs`): `TypeCorrect`, `DescriptorsOwned`, `InFlightFinished`. The invariant says who owns what: a thread its descriptor (`WorkersOwn`), main the
connection `accept` returned (`AcceptedIsMains`), the backlog those that have no thread (`BacklogIsNew`); that the listening socket's number is not
given away while a handler may still shut it down (`ListenerIsKept`); that main has joined every thread before it reports (`AllAreJoined`); and that a thread
leaves its loop with a frame in hand only for a framing error or a master that left (`BufferIsDrained`).

**Configuration** (`ConfigProofs`): `AlwaysStartsAsConfigured`, `BadInputStops`, for every command line and every file.
- The reference `Starts` is a recursive function on the words. That it exists needs no induction: the least set of words that has the first, and with a word
  the one the loop goes to from there, satisfies its equation (`LeastIsFixed`, `StartsUnfolded`).
- `ConfigInv`: the option loop is at a word of `Starts`, has come past all those before it, and none of them was a reason to stop (`AtStart`); the options and
  the name of the file are what those words say (`AsSaid`); `kv` holds the last pair of each key of the lines read, none of which was bad (`AsRead`); and after the merge
  the options are the settings of the reference (`AsMerged`). `OneWordMore` and `OneLineMore` are the steps: the last word (line) for a key is the one
  just read, or the one it was before. That no word of `Starts` lies between two places of the loop (`NextStart`) is why an
  option's value that looks like an option is never taken for one.
- In preparing it, `Merge` was restated: it had a `CASE` whose guards overlapped for `units`, which TLC resolves and the semantics of TLA+ does not.

**Only model-checked.** Liveness and everything that rests on fairness (`EveryCallReturns`, `EveryFrameAnswered`, `EndsWithThePeer`, `AcceptLoopEnds`,
`OnlyMastersDelayExit`, `EveryMasterAccepted`), which the prover does not reach; and all of `Crc16`, which computes with the recursive operators of
`Bitwise` and is out of its reach too. Every other property of a passing run is a theorem.

## Not modelled

Termios settings; the text of log output, of the dump and of the report; the serial counters' unsynchronised reads by the dump, which only
prints them (`serial_rtu.hpp:108`); a thread or an allocation that fails; `FaultyRtu` around `SerialRtu`, which `main` can build
(`Config` shows when) and whose parts are modelled apart. Counters are unbounded. The order in which the injector's generator draws is not
kept: any draw may come out either way. Numbers on the command line or in the file that do not fit an `int` are left out. The comment on
`drop_rate` (`rtu_transport.hpp:109`) speaks of a lost response, the code loses the request (`:125`); the model follows the code. Tests
and tools are clients of the system.

## Status

Every component has its module and its runs, and every safety property the runs check is a theorem, except those of `Crc16`. What could be added: the
CRC on words as sets of bits instead of numbers, where the shift register is linear and injective, so that the detection of a damaged byte in a frame of any length
would be within the prover's reach; and `FaultyRtu` around `SerialRtu`.
