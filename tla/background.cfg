SPECIFICATION FairSpec
CONSTANTS
  App = {a1, a2}
  Kind = {"sync", "start", "stop"}
  MaxTicket = 2
INVARIANT OnlyAskedCancelled
PROPERTIES TaskFinishes ShutdownReturns
CHECK_DEADLOCK FALSE
