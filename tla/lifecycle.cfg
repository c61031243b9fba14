SPECIFICATION FairSpec
CONSTANTS
  Peer = {p1}
  App = {a1, a2}
  Worker = {w1}
  Calls = {"start", "pause", "shutdown", "pause_peer", "remove_peer", "resume_peer", "consent_cancel", "cancel_operations"}
  MaxGeneration = 2
INVARIANTS StopCancelsAll FencedStaysOut
PROPERTY StopReturns
CHECK_DEADLOCK FALSE
