SPECIFICATION FairSpec
CONSTANTS
  Workers = {w1, w2}
  NoWorker = NoWorker
  MaxXid = 3
  MaxUsn = 1
  MaxOrphans = 1
INVARIANTS TableNotBroken WaitedEnded
PROPERTY WaitersReleased
CHECK_DEADLOCK FALSE
