SPECIFICATION Spec
CONSTANTS
  App = {a1, a2}
  Kind = {"sync"}
  MaxTicket = 1
INVARIANT CancelReaches
CHECK_DEADLOCK FALSE
