SPECIFICATION PlayingSpec
CONSTANTS
  npc = npc
  player = player
  Object = {npc, player}
  Controlled = {npc}
  Var = {"position", "firing"}
  Value = {0, 1, 2, 3}
  Plays <- AGame
  MaxNetId = 2
  MaxFrame = 5
  MaxInputs = 1
  Settings <- AnySettings
  Budgets <- AnyBudget
CHECK_DEADLOCK FALSE
INVARIANTS
  TypeOK
  BaseHeld
  NeverLacksSilently
  Recovers
PROPERTIES
  RecordsFaithful
