SPECIFICATION MCFairSpec
CONSTANTS
  Node = {1, 2, 3}
  First = 1
  Settings <- AnySettings
  MaxTerm = 4
CHECK_DEADLOCK FALSE
INVARIANTS
  TypeOK
  RegistryFound
  TermsPerFault
  BrokenLinkKeepsRoles
  RolesAgree
  ReservesOnly
PROPERTIES
  RolesSettle
