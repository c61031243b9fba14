SPECIFICATION FairSpec
CONSTANTS
  Node = {1, 2}
  Key = {1}
  Slot = {1}
  Scopes <- RecoveringScopes
PROPERTY Recovers
CHECK_DEADLOCK FALSE
