----------------------------- MODULE Transactions -----------------------------
(***************************************************************************)
(* What the transaction manager promises to the storage that uses it: a    *)
(* status per transaction that changes in one step, and snapshots that     *)
(* divide the committed transactions by their commit sequence number.      *)
(* TransactionManager implements this specification; Heap is built on it.  *)
(***************************************************************************)
EXTENDS Naturals

CONSTANT MaxXid       \* bound: transactions started

ASSUME MaxXidAssumption == MaxXid \in Nat

Xids == 1..MaxXid

\* CommitSeqNumber
InvalidCsn    == 0
InProgressCsn == 2
AbortedCsn    == 3
MinCsn        == 5
IsNormal(c) == c >= MinCsn

VARIABLES
  status,    \* InvalidCsn before the transaction begins, its CSN once it committed
  nextCsn,   \* the CSN the next commit gets
  snapCsn    \* the CSN of the transaction's snapshot

transVars == <<status, nextCsn, snapCsn>>

TransInit ==
  /\ status = [x \in Xids |-> InvalidCsn]
  /\ nextCsn = MinCsn
  /\ snapCsn = [x \in Xids |-> InvalidCsn]

Begin(x) ==
  /\ status[x] = InvalidCsn
  /\ status' = [status EXCEPT ![x] = InProgressCsn]
  /\ UNCHANGED <<nextCsn, snapCsn>>

TakeSnapshot(x) ==
  /\ status[x] = InProgressCsn /\ snapCsn[x] = InvalidCsn
  /\ snapCsn' = [snapCsn EXCEPT ![x] = nextCsn]
  /\ UNCHANGED <<status, nextCsn>>

Commit(x) ==
  /\ status[x] = InProgressCsn
  /\ status' = [status EXCEPT ![x] = nextCsn]
  /\ nextCsn' = nextCsn + 1
  /\ UNCHANGED snapCsn

Abort(x) ==
  /\ status[x] = InProgressCsn
  /\ status' = [status EXCEPT ![x] = AbortedCsn]
  /\ UNCHANGED <<nextCsn, snapCsn>>

\* The snapshot goes with the transaction's object.
Forget(x) ==
  /\ status[x] = AbortedCsn \/ IsNormal(status[x])
  /\ snapCsn' = [snapCsn EXCEPT ![x] = InvalidCsn]
  /\ UNCHANGED <<status, nextCsn>>

TransNext ==
  \E x \in Xids : Begin(x) \/ TakeSnapshot(x) \/ Commit(x) \/ Abort(x) \/ Forget(x)

TransSpec == TransInit /\ [][TransNext]_transVars

\* What tuple_is_visible makes of the status of another transaction.
Visible(c, x) == IsNormal(c) /\ c < snapCsn[x]

=============================================================================
