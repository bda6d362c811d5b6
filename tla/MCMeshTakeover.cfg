SPECIFICATION MCSpec
CONSTANTS
  Node = {1, 2, 3}
  First = 1
  Path = {1, 2}
  MaxId = 4
  MaxBoot = 2
  MaxDeferred = 1
  MaxHops = 3
CHECK_DEADLOCK FALSE
INVARIANTS
  ViewsFollowRegistry
  ReleasesAnswered
  SpawnsKept
  EventsKept
