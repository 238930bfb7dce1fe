-------------------------------- MODULE Latch --------------------------------
(***************************************************************************)
(* What a caller may rely on: a latch that is owned by any number of       *)
(* workers in share mode or by one worker in exclusive mode. LWLatch       *)
(* implements it.                                                          *)
(***************************************************************************)
CONSTANT Workers

VARIABLE owner     \* the mode in which each worker owns the latch, or "none"

Share     == "Share"
Exclusive == "Exclusive"
Modes == {Share, Exclusive}

Compatible(m, n) == m = Share /\ n = Share

Init == owner = [w \in Workers |-> "none"]

Acquire(w, mode) ==
  /\ owner[w] = "none"
  /\ \A v \in Workers : owner[v] = "none" \/ Compatible(mode, owner[v])
  /\ owner' = [owner EXCEPT ![w] = mode]

Release(w) ==
  /\ owner[w] # "none"
  /\ owner' = [owner EXCEPT ![w] = "none"]

Next ==
  \E w \in Workers :
    \/ \E mode \in Modes : Acquire(w, mode)
    \/ Release(w)

Spec == Init /\ [][Next]_owner
=============================================================================
