SPECIFICATION MCSpec
CONSTANTS
  Node = {1, 2, 3}
  SerialMod = 11
  SerialJump = 4
  MaxSamples = 2
  MinSamples = 2
  SlewPerMille = 500
  StepUsec = 2
  Masters <- ThreeMasters
  MaxTrip = 3
  MaxTime = 7
\* The clock's time ends.
CHECK_DEADLOCK FALSE
INVARIANTS
  SerialTypeOK
  DistanceInv
  OrderKept
  NeverApart
  TypeOK
  Accurate
PROPERTIES
  NoJump
  NeverBack
