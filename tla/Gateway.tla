------------------------------ MODULE Gateway ------------------------------
(***************************************************************************)
(* The bridge, src/gateway.cpp: Gateway::handle, called concurrently by    *)
(* one thread per TCP client (serve_client, or the threads of the routing  *)
(* test), with the transaction id of a request held in its caller's frame  *)
(* while the request is on the bus.  serve_client also counts in           *)
(* GatewayStats by itself, when it closes a connection on a framing error. *)
(*                                                                         *)
(* This module holds the part of the state that belongs to the callers and *)
(* to GatewayStats, and what handle does before and after                  *)
(* rtu_.transact().  The transport in between is the business of the       *)
(* modules that extend this one: it takes over a thread whose pc is        *)
(* "transact" and gives it back with TransactReturns.                      *)
(***************************************************************************)
EXTENDS ModbusSlave, FiniteSets

CONSTANTS
  Clients,   \* the threads that call Gateway::handle
  Requests,  \* the MBAP frames they may hand to it
  MaxCalls   \* bound: calls each thread makes

EX_GATEWAY_PATH_UNAVAILABLE   == 10
EX_GATEWAY_TARGET_NO_RESPONSE == 11

\* An MbapFrame.  protocol_id is 0 in every frame the decoder lets through
\* and in every frame built here, so it is not kept.
RequestFrame  == [transaction_id : U16, unit_id : Byte, pdu : RequestPdu]
ResponseFrame == [transaction_id : U16, unit_id : Byte, pdu : ResponsePdu]

ASSUME GatewayAssumption ==
  /\ IsFiniteSet(Clients)
  /\ Requests \subseteq RequestFrame
  /\ MaxCalls \in Nat

VARIABLES
  pc,     \* where each thread is: "idle" outside handle, "closed" for good
  req,    \* handle's argument
  rsp,    \* what transact left in rtu_rsp: <<adu>>, or <<>> if it was false
  stats,  \* GatewayStats
  log     \* history: each thread's calls, the request and the response

gatewayVars == <<pc, req, rsp, stats, log>>

Counters == {"requests", "responses", "timeouts", "crc_failures", "malformed"}

-----------------------------------------------------------------------------
make_exception(txn, unit, fc, ex) ==
  [transaction_id |-> txn, unit_id |-> unit, pdu |-> ExceptionPdu(fc, ex)]

\* The CRC appended is the CRC of what precedes it.
tcp_to_rtu(f) == [addr |-> f.unit_id, pdu |-> f.pdu, crc_ok |-> TRUE]

\* Defect: the response is forwarded without looking at its CRC.
rtu_to_tcp_NoCrc(rtu, txn) ==
  << [transaction_id |-> txn, unit_id |-> rtu.addr, pdu |-> rtu.pdu] >>

\* <<frame>>, or <<>> where the code returns nullopt.
rtu_to_tcp(rtu, txn) ==
  IF Size(rtu) < 4 \/ ~ rtu.crc_ok
    THEN <<>>
    ELSE << [transaction_id |-> txn, unit_id |-> rtu.addr, pdu |-> rtu.pdu] >>

-----------------------------------------------------------------------------
GatewayInit ==
  /\ pc    = [c \in Clients |-> "idle"]
  /\ req   = [c \in Clients |-> <<>>]
  /\ rsp   = [c \in Clients |-> <<>>]
  /\ stats = [k \in Counters |-> 0]
  /\ log   = [c \in Clients |-> <<>>]

\* handle returns f for the request r.
Reply(c, r, f) == log' = [log EXCEPT ![c] = Append(@, [req |-> r, rsp |-> f])]

\* Defect: a refused call is not counted as malformed.
HandleEmpty_Uncounted(c, r) ==
  /\ pc[c] = "idle" /\ Len(log[c]) < MaxCalls
  /\ r.pdu.len = 0
  /\ stats' = [stats EXCEPT !["requests"] = @ + 1]
  /\ Reply(c, r, make_exception(r.transaction_id, r.unit_id, 0,
                                EX_GATEWAY_PATH_UNAVAILABLE))
  /\ UNCHANGED <<pc, req, rsp>>

\* A call with an empty PDU: counted and answered without touching the bus.
\* serve_client cannot make it (decode wants a function code), a direct
\* caller can.
HandleEmpty(c, r) ==
  /\ pc[c] = "idle" /\ Len(log[c]) < MaxCalls
  /\ r.pdu.len = 0
  /\ stats' = [stats EXCEPT !["requests"] = @ + 1, !["malformed"] = @ + 1]
  /\ Reply(c, r, make_exception(r.transaction_id, r.unit_id, 0,
                                EX_GATEWAY_PATH_UNAVAILABLE))
  /\ UNCHANGED <<pc, req, rsp>>

HandleCall(c, r) ==
  /\ pc[c] = "idle" /\ Len(log[c]) < MaxCalls
  /\ r.pdu.len # 0
  /\ stats' = [stats EXCEPT !["requests"] = @ + 1]
  /\ pc'  = [pc  EXCEPT ![c] = "transact"]
  /\ req' = [req EXCEPT ![c] = <<r>>]
  /\ rsp' = [rsp EXCEPT ![c] = <<>>]
  /\ UNCHANGED log

\* The request thread c is handling, and its RTU form.
Req(c)    == req[c][1]
RtuReq(c) == tcp_to_rtu(Req(c))

\* For the transports: rtu_.transact returns to thread c with result x.
TransactReturns(c, x) ==
  /\ pc'  = [pc  EXCEPT ![c] = "return"]
  /\ rsp' = [rsp EXCEPT ![c] = x]

-----------------------------------------------------------------------------
\* serve_client cannot decode what its master sent: it counts that in malformed,
\* without a request, and ends the thread.
FramingError(c) ==
  /\ pc[c] = "idle"
  /\ stats' = [stats EXCEPT !["malformed"] = @ + 1]
  /\ pc' = [pc EXCEPT ![c] = "closed"]
  /\ UNCHANGED <<req, rsp, log>>

-----------------------------------------------------------------------------
\* After transact: the three ways out of handle.
Leave(c, counter, f) ==
  /\ stats' = [stats EXCEPT ![counter] = @ + 1]
  /\ Reply(c, Req(c), f)
  /\ pc'  = [pc  EXCEPT ![c] = "idle"]
  /\ req' = [req EXCEPT ![c] = <<>>]
  /\ rsp' = [rsp EXCEPT ![c] = <<>>]

NoResponse(c) ==
  make_exception(Req(c).transaction_id, Req(c).unit_id, Req(c).pdu.fc,
                 EX_GATEWAY_TARGET_NO_RESPONSE)

HandleTimeout(c) ==
  /\ pc[c] = "return" /\ rsp[c] = <<>>
  /\ Leave(c, "timeouts", NoResponse(c))

Translated(c) == rtu_to_tcp(rsp[c][1], Req(c).transaction_id)

\* Defect: a bad CRC is booked as a timeout.
HandleCrcFailure_AsTimeout(c) ==
  /\ pc[c] = "return" /\ rsp[c] # <<>> /\ Translated(c) = <<>>
  /\ Leave(c, "timeouts", NoResponse(c))

HandleCrcFailure(c) ==
  /\ pc[c] = "return" /\ rsp[c] # <<>> /\ Translated(c) = <<>>
  /\ Leave(c, "crc_failures", NoResponse(c))

HandleResponse(c) ==
  /\ pc[c] = "return" /\ rsp[c] # <<>> /\ Translated(c) # <<>>
  /\ Leave(c, "responses", Translated(c)[1])

-----------------------------------------------------------------------------
InFlight == { c \in Clients : pc[c] \notin {"idle", "closed"} }

\* The threads that ended with a framing error.
Closed == { c \in Clients : pc[c] = "closed" }

(***************************************************************************)
(* gateway.hpp:32: each response a caller of handle gets carries the       *)
(* transaction id of its own request and comes from the unit it asked,     *)
(* also when it was corrupted on the way, dropped, or never sent.          *)
(***************************************************************************)
RoutingInvariant ==
  \A c \in Clients : \A i \in DOMAIN log[c] :
    /\ log[c][i].rsp.transaction_id = log[c][i].req.transaction_id
    /\ log[c][i].rsp.unit_id = log[c][i].req.unit_id

(***************************************************************************)
(* GatewayStats loses nothing: every request that was counted has been     *)
(* counted once more under exactly one outcome, or is still inside handle; *)
(* and what malformed counts beyond that are the connections closed on a   *)
(* framing error (main.cpp:122), each of them once.                        *)
(***************************************************************************)
StatsConserved ==
  stats["requests"] + Cardinality(Closed)
    = stats["responses"] + stats["timeouts"] + stats["crc_failures"]
      + stats["malformed"] + Cardinality(InFlight)

(***************************************************************************)
(* Every call of handle returns: neither the two mutexes nor a fault       *)
(* leaves a master without an answer.                                      *)
(***************************************************************************)
EveryCallReturns ==
  \A c \in Clients : (c \in InFlight) ~> (pc[c] = "idle")
=============================================================================
