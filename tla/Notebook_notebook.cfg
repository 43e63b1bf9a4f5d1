\* Two windows on two notes, one piece typed and one other thing happening.
SPECIFICATION FairSpec
CONSTANTS
  Windows = {w1, w2}
  Notes = {n1, n2, n3, n4}
  NoNote = NoNote
  FirstNotes = {n1, n2}
  Acts = {"select", "save", "new", "close", "away"}
  Overtaking = TRUE
  MaxTyped = 1
  MaxActs = 1
INVARIANTS TypeOK
PROPERTIES TypingUndisturbed DeletedStaysGone  QuietAgain
CHECK_DEADLOCK FALSE
