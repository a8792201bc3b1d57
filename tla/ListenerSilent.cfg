SPECIFICATION Spec
CONSTANTS
  Clients = {c1}
  MaxConnections = 1
PROPERTY SilentReleased
CHECK_DEADLOCK FALSE
