SPECIFICATION LiveSpec
CONSTANTS
  Devices = {1, 2, 3}
  Scopes <- RefreshScopes
  MaxCounter = 4
PROPERTY NeverReverts
CHECK_DEADLOCK FALSE
