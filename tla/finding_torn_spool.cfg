SPECIFICATION FairSpec
CONSTANTS
  Bad = {}
  MaxBatch = 2
  MaxRows = 2
  MaxOutages = 1
  Ends = {"crash"}
  MaxEnds = 1
PROPERTY ReplayGoesOn
CHECK_DEADLOCK FALSE
