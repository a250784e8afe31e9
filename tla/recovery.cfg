SPECIFICATION FairSpecAll
CONSTANTS
  Pairs = {"p", "q"}
  Prices = {10, 11}
  FreshTicks = 1
  QuietTicks = 3
  ResubscribeAfter = 2
  Cooldown = 2
  MaxChoices = 3
  MaxFreezes = 1
  None = None
  Bad = {2}
  MaxBatch = 2
  MaxRows = 4
  MaxOutages = 2
  Contracts = {"x", "y", "z"}
  PerConnection = 2
  Batch = 1
  Wishes <- Rankings
  MaxWishes = 2
  MaxResubscribes = 1
  MaxDrops = 1
  Keys = {"k1", "k2"}
  CoinOf <- SharedCoin
  Values = {2}
  CoinCooldown = 2
  GoneAfter = 1
  Hour = 3
  MaxPerHour = 2
  MinTotal = 2
  QuietTimes = {}
  QueueLimit = 1
  MaxTime = 4
INVARIANTS WithinLimit NewestWins FreshIsTrue
PROPERTIES ImplementsLog RowsArrive DepthSettles CoinIsNewsOnce WatchedHasBook
CHECK_DEADLOCK FALSE
