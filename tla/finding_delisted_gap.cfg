SPECIFICATION FairSpec
CONSTANTS
  None = None
  MinRoi = 2
  Hysteresis = 1
  FastMultiple = 2
  EnterAfter = 0
  FastAfter = 0
  MinSamples = 2
  ExitAfter = 0
  MaxLifetime = 1
  Pairs = {p1, p2}
  Directions = {a}
  Readings = {2}
  Exits = {0}
  BookLimit = 2
  TrackingLimit = 1
  Records = {"tradable", "absent"}
  MaxPinned = 0
PROPERTY DelistedGapEnds
