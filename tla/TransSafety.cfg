SPECIFICATION Spec
CONSTANTS
  Workers = {w1, w2}
  NoWorker = NoWorker
  MaxXid = 3
  MaxUsn = 2
  MaxOrphans = 0
SYMMETRY Symmetry
INVARIANTS TypeOK SnapshotExact CsnUnique AbortedUndone StatementSeparated
PROPERTIES SnapshotStable TransactionsAtomic
CHECK_DEADLOCK FALSE
