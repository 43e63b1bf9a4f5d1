\* One view over three connections, two troubles, and a queue that one chunk fills.
SPECIFICATION FairSpec
CONSTANTS
  Views = {1}
  MaxItems = 1
  WireMax = 1
  Faults = {}
  MaxOutput = 4
  MaxTroubles = 2
  MaxSockets = 3
INVARIANTS TypeOK StreamWhole ScreenReplays
PROPERTY CatchesUp
