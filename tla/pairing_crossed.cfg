SPECIFICATION FairSpec
CONSTANTS
  Device = {h, j}
  Invitation = {i1, i2}
  Scopes <- CrossedScopes
PROPERTY StartupReconciles
CHECK_DEADLOCK FALSE
