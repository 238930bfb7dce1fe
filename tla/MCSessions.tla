------------------------------ MODULE MCSessions ------------------------------
(* One client sends everything; the other one is there for what transactions *)
(* do to each other.                                                         *)
EXTENDS Sessions
MCKinds == <<AllKinds, Tcl \union {"dml"}>>
===============================================================================
