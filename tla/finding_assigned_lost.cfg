SPECIFICATION Spec
CONSTANTS
  None = None
  Failed = Failed
  Exchanges = {"a", "b"}
  Places <- FourLegs
  Pollers = {"timer"}
  MissingPollsForLost = 2
  LoadOutcomes = {TRUE}
  MaxTrades = 2
  MaxEvents = 3
  CloseRecordWhileBusy = FALSE
PROPERTY OnlyPollsDeclareLoss
CHECK_DEADLOCK FALSE
