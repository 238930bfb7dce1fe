----------------------------- MODULE MCBufferPool -----------------------------
(* Model checking of BufferPool: workers are interchangeable; the server     *)
(* starts with a new file or with one that has pages.                        *)
EXTENDS BufferPool, TLC
SomeStarts == {[file |-> 0, calls |-> 6], [file |-> 1, calls |-> 5], [file |-> 2, calls |-> 3]}
Symmetry == Permutations(Workers)
=============================================================================
