------------------------------ MODULE MCHeapPage ------------------------------
(* Model checking of HeapPage: workers are interchangeable.                  *)
EXTENDS HeapPage, TLC
Symmetry == Permutations(Workers)
=============================================================================
