SPECIFICATION Spec
CONSTANTS
  Clients = {c1, c2, c3}
  MaxConnections = 2
INVARIANT PermitsConserved
PROPERTIES StalledReleased ShutdownEnds
CHECK_DEADLOCK FALSE
