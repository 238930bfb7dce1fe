-------------------------------- MODULE MCLogs --------------------------------
(* Attributes of every kind, whose bitmap takes two bytes, and rows without  *)
(* NULL, with NULLs in each byte of the bitmap, with shorter and longer       *)
(* strings, and with numbers that are negative or too large.                 *)
EXTENDS Logs

Attr(byVal, length) == [byVal |-> byVal, length |-> length]
SomeDesc == <<Attr(TRUE, 2), Attr(FALSE, -1), Attr(FALSE, 1), Attr(TRUE, 1)>>

Change(op, tids, row) == [op |-> op, tids |-> tids, row |-> row]
SomeChanges ==
  {Change("insert", <<1>>, << <<>>, <<<<3>>>>, <<<<1>>>>, <<>> >>),
   Change("update", <<2, 1>>, << <<-3>>, <<<<3, 1>>>>, <<<<2>>>>, <<1>> >>),
   Change("delete", <<2>>, << <<13>>, <<>>, <<>>, <<-2>> >>),
   Change("update", <<1, 1>>, << <<>>, <<<<2>>>>, <<>>, <<>> >>)}

\* What the theorems about Logs take for granted of a single row.
ASSUME RowsAssumption == \A c \in Changes : RowReadsBack(c.row)
==============================================================================
