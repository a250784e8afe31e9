SPECIFICATION Spec
CONSTANTS
  Requested = 2
  Step = 1
  MinQty = 2
  StatusAttempts = 2
  BackgroundRounds = 1
  CloseAttempts = 1
  NotFoundConfirmations = 2
  MissingPollsForLost = 2
  UserActions = {}
  LoadOutcomes = {TRUE}
  MaxLiquidations = 0
  MaxRestarts = 0
INVARIANT NakedLegStaysVisible
