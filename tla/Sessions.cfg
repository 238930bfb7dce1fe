SPECIFICATION FairSpec
CONSTANTS
  NumClients = 2
  NumWorkers = 3
  Kinds <- MCKinds
  MaxQueries = 2
  MaxRows = 1
  MaxStuck = 1
INVARIANTS InStep TransactionAgrees
PROPERTY Answered
CHECK_DEADLOCK FALSE
