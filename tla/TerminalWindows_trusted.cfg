\* A view that comes back after one trouble and keeps what it shows.
SPECIFICATION Spec
CONSTANTS
  Views = {1}
  MaxItems = 1
  WireMax = 1
  Faults = {}
  MaxOutput = 4
  MaxTroubles = 1
  MaxSockets = 2
INVARIANT LossMadeGood
