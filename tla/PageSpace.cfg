SPECIFICATION Spec
CONSTANTS
  Workers = {w1, w2, w3}
  NoWorker = NoWorker
  PageBytes = 10
  HeaderBytes = 3
  ItemBytes = 1
  Align = 2
  Sizes = {2, 3}
  MaxPages = 2
  Moves = TRUE
SYMMETRY Symmetry
INVARIANTS TypeOK HeaderSane ItemsCounted RowsDisjoint
PROPERTY PlacedClear
CHECK_DEADLOCK FALSE
