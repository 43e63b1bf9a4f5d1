\* Two windows on the draft of one terminal.
SPECIFICATION Spec
CONSTANTS
  Windows = {w1, w2}
  Acts = {"key", "paste", "clear", "tab", "submit", "list", "drop", "restart"}
  MaxTyped = 2
  MaxActs = 1
INVARIANTS TypeOK PastedKept CopiesAgree
SYMMETRY WindowSymmetry
CHECK_DEADLOCK FALSE
