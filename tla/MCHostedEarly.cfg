SPECIFICATION EarlySpec
CONSTANTS
  Node = {1, 2, 3, 4}
  MaxPlayers = 4
\* Once the budget is spent everything settles.
CHECK_DEADLOCK FALSE
INVARIANTS
  AlwaysOneHost
