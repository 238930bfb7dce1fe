SPECIFICATION Spec
CONSTANTS
  BitsPerByte = 2
  Desc <- SomeDesc
  Workers = {1, 2}
  Changes <- SomeChanges
  Alignment = 4
  MaxChanges = 2
  MaxFaults = 1
  MaxCrashes = 1
INVARIANT LogsReadBack
CHECK_DEADLOCK FALSE
