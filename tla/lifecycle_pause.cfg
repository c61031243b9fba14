SPECIFICATION Spec
CONSTANTS
  Peer = {p1}
  App = {a1}
  Worker = {w1}
  Calls = {"start", "consent_cancel", "resume_peer"}
  MaxGeneration = 2
INVARIANT PauseSticks
CHECK_DEADLOCK FALSE
