-------------------------------- MODULE MCHeap --------------------------------
(* Identifiers are given out in order and tell transactions apart by nothing *)
(* else: that the row under conflict is inserted by the first one is no loss. *)
EXTENDS Heap
FirstInserts == undo # <<>> => undo[1].xid = 1
===============================================================================
