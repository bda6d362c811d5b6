SPECIFICATION MCSpec
CONSTANTS
  reg = reg
  a = a
  b = b
  c = c
  s1 = s1
  s2 = s2
  Registry = reg
  Nobody = Nobody
  None = None
  Schema = {s1, s2}
  SchemaOf <- OtherSchemas
  Controller = a
  Node = {reg, a, b, c}
  Environment = {"connect", "register", "unregister", "release", "request", "assign", "refuse", "timeout", "disconnect", "restart"}
  MaxId = 2
  MaxVersion = 3
  MaxFlight = 1
CHECK_DEADLOCK FALSE
INVARIANTS
  TypeOK
  QuiescentViews
  LedgerInv
  Agreement
  AnswerComing
  PendingSane
  OneSimulator
  SchemaFromRegistry
  NoDepartedOwner
PROPERTIES
  LedgerSpec
  ReleaseEnds
  RequestEnds
