SPECIFICATION SpecAll
CONSTANTS
  None = None
  Failed = Failed
  Order <- EnabledOrder
  Listings <- Contracts
  Quotes <- QuotesOfToken
  MaxPriceGapPct = 20
  MaxIndexGapPct = 1
  RenamePerMille = 2
  Affixes <- LongNames
  MaxRefreshes = 2
  MaxDecisions = 1
  MaxRestarts = 1
  Exchanges = {"a", "b"}
  Places <- OneLegEach
  Pollers = {"timer"}
  MissingPollsForLost = 2
  LoadOutcomes = {TRUE}
  MaxTrades = 2
  MaxEvents = 3
  CloseRecordWhileBusy = FALSE
  MaxSamples = 5
  Bad = {2}
  MaxBatch = 2
  MaxRows = 4
  MaxOutages = 2
  MaxEnds = 2
  Probed = {"mexc"}
  FailuresBeforeDown = 2
  Hold = 2
  QuietStart = 3
  QuietEnd = 1
  Day = 4
  MaxTime = 6
INVARIANTS StoredDecisionsStand HandLegsOwnedOnce ActiveFollowsTrades ShownWhenEarned LeavesAfterLongDip SpooledIsCounted LastingBreakIsTold
PROPERTIES PairsOutliveFailures SpooledIsKept
CHECK_DEADLOCK FALSE
