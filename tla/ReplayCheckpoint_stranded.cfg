\* One terminal, no faults: what it prints just before it exits.
SPECIFICATION FairSpec
CONSTANTS
  Terms = {1}
  RawRecorded = {}
  Limit = 2
  HistoryMax = 1
  Faults = {}
  MaxOutput = 2
  MaxReopens = 0
  MaxTroubles = 0
PROPERTY LastOutputWritten
