SPECIFICATION FairSpecAll
CONSTANTS
  Requested = 3
  Step = 1
  MinQty = 2
  StatusAttempts = 1
  BackgroundRounds = 2
  CloseAttempts = 2
  NotFoundConfirmations = 2
  MissingPollsForLost = 2
  UserActions = {"close_pair"}
  LoadOutcomes = {TRUE}
  MaxLiquidations = 0
  MaxRestarts = 1
  HeldQty = 2
INVARIANTS TypeOK NakedLegIsAlarmed OpenIsHedged GoneIsFlat
PROPERTIES OpeningEnds TokenReleased
