SPECIFICATION FairSpec
CONSTANTS
  Requested = 1
  Step = 1
  MinQty = 1
  StatusAttempts = 1
  BackgroundRounds = 2
  CloseAttempts = 2
  NotFoundConfirmations = 2
  MissingPollsForLost = 2
  UserActions = {"close_pair", "close_leg", "close_record"}
  LoadOutcomes = {TRUE, FALSE}
  MaxLiquidations = 1
  MaxRestarts = 1
INVARIANTS RowFollowsMemory
PROPERTIES LostLegIsNoticed
