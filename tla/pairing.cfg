SPECIFICATION Spec
CONSTANTS
  Device = {d1, d2, d3}
  Invitation = {i1, i2}
  Scopes <- SafetyScopes
INVARIANTS KeysAgree InviterFirst SingleUse Recoverable
PROPERTY RemovalSticks
SYMMETRY Symmetry
CHECK_DEADLOCK FALSE
