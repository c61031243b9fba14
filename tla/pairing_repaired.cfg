SPECIFICATION RepairSpec
CONSTANTS
  Device = {h, j}
  Invitation = {i1, i2, i3}
  Scopes <- RepairingScopes
PROPERTY Repaired
CHECK_DEADLOCK FALSE
