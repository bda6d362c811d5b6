SPECIFICATION GoneSpec
CONSTANTS
  Peer = {1, 2, 3}
  Path = {"a", "b", "n", "s", "t", "x"}
  Controller <- MCController
  Doll = {"n", "x"}
  SpawnName <- MCSpawnName
  Killer = "a"
  Victim = "b"
  History = 8
  Redundancy = 2
  MinBuffer = 1
  MaxBuffer = 2
  Resync = 1
  MaxDelay = 2
  DollBudget = 1
\* Once the budget is spent everything settles.
CHECK_DEADLOCK FALSE
INVARIANTS
  OthersJoinAgain
