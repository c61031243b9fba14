SPECIFICATION Spec
CONSTANTS
  Node = {1, 2}
  Key = {1}
  Slot = {1, 2}
  Scopes <- OverlappingScopes
INVARIANT UpToDateConfirmed
CHECK_DEADLOCK FALSE
