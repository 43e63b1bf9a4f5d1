\* Refused text is rescued into a note that is held itself.
SPECIFICATION CourseSpec
CONSTANTS
  Windows = {w1, w2}
  One = w1
  Other = w2
  Notes = {n1, n2, n3}
  NoNote = NoNote
  FirstNotes = {n1}
  Acts = {"select", "save"}
  Overtaking = TRUE
  MaxTyped = 4
  MaxActs = 6
PROPERTIES RefusedKept
CHECK_DEADLOCK FALSE
