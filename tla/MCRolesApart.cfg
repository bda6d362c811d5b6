SPECIFICATION MCSpec
CONSTANTS
  Node = {1, 2, 3}
  First = 1
  Settings <- OnlyRestarting
  MaxTerm = 4
CHECK_DEADLOCK FALSE
CONSTRAINT OnlyLastRestarts
INVARIANTS
  WholeMeshAgrees
