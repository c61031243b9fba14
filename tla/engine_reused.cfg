SPECIFICATION LiveSpec
CONSTANTS
  Devices = {1, 2}
  Scopes <- EngineScopes
  MaxCounter = 4
PROPERTY SameFiles
CHECK_DEADLOCK FALSE
