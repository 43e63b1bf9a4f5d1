\* Two submissions or queue edits of any kind, which read alike or not, a person who types two keys, and a
\* screen that misbehaves once.
SPECIFICATION FairSpec
CONSTANTS
  Subs = {1, 2}
  Kinds = {"prompt", "queue", "blank", "replace", "remove"}
  Readings <- MCReadings
  Upsets = {"absorb", "cut", "dialog", "search", "exit"}
  MaxTyped = 2
  MaxUpsets = 1
  HoldPolls = 1
  MaxPolls = 3
INVARIANTS TypeOK TypingKept PasteIntact SendsOnlyItsPrompt CutPasteHealed DraftIsComposer
CHECK_DEADLOCK FALSE
PROPERTY SubmissionsEnd
