SPECIFICATION Spec
CONSTANTS
  Device = {1, 2}
  Writers = {1}
  Modes = {"both"}
  MaxPages = 2
  MaxEdit = 3
INVARIANT WholeDatabase
CHECK_DEADLOCK FALSE
