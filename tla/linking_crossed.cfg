SPECIFICATION Spec
CONSTANTS
  Device = {1, 2}
  Overlap = TRUE
  MaxLinks = 3
  MaxCert = 1
INVARIANT NewestWins
CHECK_DEADLOCK FALSE
