SPECIFICATION HostsLiveSpec
CONSTANTS
  Device = {1}
  MaxTicket = 2
  HostScopes <- FfiScopes
  Caller = {1, 2}
  MaxId = 3
  MaxSubs = 1
INVARIANTS CancelTruthful ContextReleasedLast
PROPERTIES EventsTaken EverythingAnnounced ClosedEnds
CHECK_DEADLOCK FALSE
