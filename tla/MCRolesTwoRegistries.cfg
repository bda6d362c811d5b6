SPECIFICATION MCSpec
CONSTANTS
  Node = {1, 2, 3}
  First = 1
  Settings <- OnlyTwoOfThree
  MaxTerm = 4
CHECK_DEADLOCK FALSE
INVARIANTS
  OneRegistry
