\* A shell and an agent, one reopening, and one write that fails or death of the server.
SPECIFICATION FairSpec
CONSTANTS
  Terms = {1, 2}
  RawRecorded = {2}
  Limit = 2
  HistoryMax = 1
  Faults = {"fail"}
  MaxOutput = 4
  MaxReopens = 1
  MaxTroubles = 1
INVARIANTS TypeOK FileIsOutput RestoreShowsBuffer WriterOwns
PROPERTIES OwnedSpared OutputWritten
