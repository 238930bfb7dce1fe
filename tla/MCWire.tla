-------------------------------- MODULE MCWire --------------------------------
(* Packets of every type: empty and longer strings, a string that contains  *)
(* the codes of types, NULL values and negative row counts.                 *)
EXTENDS Wire

Pkt(t, items, rows) == [type |-> t, items |-> items, rows |-> rows]

SomePackets ==
  {Pkt("Query", << <<<<4, 0>>>> >>, 0), Pkt("ErrorResponse", << <<<<>>>> >>, 0),
   Pkt("TupleDescription", << <<<<1>>>>, <<<<>>>> >>, 0), Pkt("DataRow", <<>>, 0),
   Pkt("DataRow", << <<>>, <<<<5, 5>>>>, <<<<>>>> >>, 0),
   Pkt("CommandComplete", << <<<<1, 3>>>> >>, -1), Pkt("CommandComplete", << <<<<>>>> >>, 8)}

\* What the theorems about Wire take for granted of a single packet.
ASSUME PacketsAssumption == \A p \in Packets : ReadsBack(p)
=============================================================================
