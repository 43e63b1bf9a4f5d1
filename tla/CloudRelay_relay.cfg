\* Two computers, one request and one websocket; two of pairing, revoking, losing, timing out.
SPECIFICATION FairSpec
CONSTANTS
  Computers = {c1, c2}
  NoComputer = NoComputer
  Paired = c1
  Calls = {r1}
  Channels = {ch1}
  MaxLinks = 2
  MaxData = 2
  MaxActs = 2
INVARIANTS TypeOK StreamInOrder NoneStranded
PROPERTIES ComesBack LocalsFollow
CHECK_DEADLOCK FALSE
