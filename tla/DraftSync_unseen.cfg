\* A session list arrives at a window that has lost its connection.
SPECIFICATION Spec
CONSTANTS
  Windows = {w1, w2}
  Acts = {"paste", "list", "drop"}
  MaxTyped = 2
  MaxActs = 2
PROPERTIES OldCopyRefused
CHECK_DEADLOCK FALSE
