SPECIFICATION Spec
CONSTANTS
  Node = {1, 2, 3}
  Key = {1}
  Field = {1}
  Slot = {1, 2}
  Legacy = {3}
  Applier = "lww"
  MaxCounter = 2
  MaxEpoch = 2
CONSTRAINT Scope
INVARIANTS CursorSound ExcludedHeld
PROPERTIES Implements
