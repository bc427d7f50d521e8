------------------------------ MODULE MCSerial ------------------------------
(***************************************************************************)
(* Two devices on the line, a request for each of them, and one without a  *)
(* PDU, which never gets there.                                            *)
(***************************************************************************)
EXTENDS SerialGateway, TLC

ReadOf(txn, unit) ==
  [transaction_id |-> txn, unit_id |-> unit,
   pdu |-> [fc |-> 3, len |-> 5, a |-> 0, b |-> 1, bc |-> 0, regs |-> <<>>]]

NoPdu == [ReadOf(9, 17) EXCEPT !.pdu = [@ EXCEPT !.fc = 0, !.len = 0]]

\* No action tells one thread from another.
Alike == Permutations(Clients)

TwoUnits == { ReadOf(1, 17), ReadOf(2, 34) }
AndNoPdu == TwoUnits \cup { NoPdu }
=============================================================================
