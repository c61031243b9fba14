SPECIFICATION ProgressLiveSpec
CONSTANTS
  one = one
  other = other
  invite = invite
  again = again
PROPERTIES Convergence Reconciles LogicalNeverReverts FilesAgree
CHECK_DEADLOCK FALSE
