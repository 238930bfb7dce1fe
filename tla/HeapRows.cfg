SPECIFICATION Spec
CONSTANTS
  MaxXid = 3
  Kinds = {"insert", "update", "delete", "select"}
  RowsPerPage = 2
  MaxPages = 2
  MaxUsn = 3
  Moves = TRUE
INVARIANTS TypeOK SelectExact AbortRestores ChangedOnce ChainDescends
CHECK_DEADLOCK FALSE
