SPECIFICATION FairSpec
CONSTANTS
  Node = {1, 2}
  Key = {1}
  Field = {1}
  Slot = {1}
  Legacy = {}
  Applier = "lww"
  MaxCounter = 2
  MaxEpoch = 2
PROPERTY SameEverywhere
