SPECIFICATION Spec
CONSTANTS
  Workers = {w1, w2}
  NoWorker = none
  PoolSizes = {2}
  MaxPages = 3
  Starts <- SomeStarts
  MaxVersion = 1
  Width = 100
  IoFails = TRUE
SYMMETRY Symmetry
INVARIANTS TypeOK IoExclusive ReadsLatest OneOwner
PROPERTY PinnedStays
CHECK_DEADLOCK FALSE
