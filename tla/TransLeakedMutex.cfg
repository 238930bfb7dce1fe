SPECIFICATION FairSpec
CONSTANTS
  Workers = {w1, w2}
  NoWorker = NoWorker
  MaxXid = 2
  MaxUsn = 1
  MaxOrphans = 1
PROPERTY EndsEventually
CHECK_DEADLOCK FALSE
