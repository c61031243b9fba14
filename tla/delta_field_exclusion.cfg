SPECIFICATION Spec
CONSTANTS
  Node = {1, 2}
  Key = {1}
  Field = {1, 2}
  Slot = {1}
  Legacy = {}
  Applier = "logical"
  MaxCounter = 2
  MaxEpoch = 1
INVARIANT ExcludedHeld
