SPECIFICATION Spec
CONSTANTS
  MaxXid = 4
  Kinds = {"insert", "update", "delete"}
  RowsPerPage = 1
  MaxPages = 1
  MaxUsn = 4
  Moves = FALSE
INVARIANT LostOnlyClobbered
PROPERTY UndoFailsClobbered
CHECK_DEADLOCK FALSE
CONSTRAINT FirstInserts
