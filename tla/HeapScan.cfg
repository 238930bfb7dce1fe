SPECIFICATION Spec
CONSTANTS
  MaxXid = 2
  Kinds = {"insert", "select"}
  RowsPerPage = 1
  MaxPages = 2
  MaxUsn = 2
  Moves = FALSE
INVARIANT SelectComplete
CHECK_DEADLOCK FALSE
