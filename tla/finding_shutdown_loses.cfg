SPECIFICATION Spec
CONSTANTS
  Bad = {}
  MaxBatch = 2
  MaxRows = 2
  MaxOutages = 1
  Ends = {"shutdown"}
  MaxEnds = 1
INVARIANT NothingLost
CHECK_DEADLOCK FALSE
