---------------------------- MODULE MCInProcess ----------------------------
(***************************************************************************)
(* Two slaves of two registers, and one request of each kind that takes    *)
(* its own way through the gateway.                                        *)
(***************************************************************************)
EXTENDS InProcessGateway

MCUnitIds == <<17, 34>>

Pdu(fc, a, b) == [fc |-> fc, len |-> 5, a |-> a, b |-> b, bc |-> 0, regs |-> <<>>]

WriteBoth(v, w) ==
  [fc |-> 16, len |-> 10, a |-> 0, b |-> 2, bc |-> 4, regs |-> <<v, w>>]

Frame(txn, unit, pdu) == [transaction_id |-> txn, unit_id |-> unit, pdu |-> pdu]

\* Reads and writes that meet on the registers of both units.
Contending ==
  { Frame(1, 17, Pdu(3, 0, 2)),
    Frame(2, 34, Pdu(3, 0, 2)),
    Frame(3, 0,  WriteBoth(7, 8)),
    Frame(4, 34, Pdu(6, 1, 65535)) }

\* The ways to be refused: a range too far (a read's, a write's), an unknown
\* function, a unit that is not there, a PDU of the wrong length, one too long
\* for a frame, no PDU at all.
Refused ==
  { Frame(5, 17, Pdu(3, 1, 2)),
    Frame(8, 17, Pdu(6, 2, 9)),
    Frame(6, 17, Pdu(171, 0, 0)),
    Frame(65535, 51, Pdu(3, 0, 1)),
    Frame(0, 34, [Pdu(6, 0, 9) EXCEPT !.len = 4]),
    Frame(7, 34, [Pdu(171, 0, 0) EXCEPT !.len = 254, !.regs = [i \in 1 .. 124 |-> 0]]),
    Frame(1, 34, [Pdu(0, 0, 0) EXCEPT !.len = 0]) }

AllRequests == Contending \cup Refused

\* What the fault injector is run on: an answer to corrupt, a write to drop,
\* an answer that is a write's, a request that never gets there.
FaultRequests ==
  { Frame(2, 34, Pdu(3, 0, 2)),
    Frame(3, 0,  WriteBoth(7, 8)),
    Frame(4, 34, Pdu(6, 1, 65535)),
    Frame(1, 34, [Pdu(0, 0, 0) EXCEPT !.len = 0]) }
=============================================================================
