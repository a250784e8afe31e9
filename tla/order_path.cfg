SPECIFICATION SpecAll
CONSTANTS
    None = None
    Exchanges = {"a", "b", "c"}
    Catalogs <- PairLists
    Limits <- RiskLimits
    NotionalUsd = 20
    MarginUsd = 2
    Funds = 3
    MaxEvents = 1
    TradingVenues = {"binance", "aster", "bingx", "bybit", "bitget", "mexc", "gate", "kucoin", "hyperliquid"}
    Req = 2
    StatusPolls = 2
    MaxFetches = 2
    MaxQty = 4
    LongExchanges = {"binance", "aster", "bingx", "bybit", "bitget", "mexc", "gate", "kucoin", "hyperliquid"}
    ShortExchanges = {"gate", "binance"}
    Shapes <- EveryShape
    ShortShapes <- ThreeShapes
    Wanted = {7}
    MinOrderUsd = 5
    Leverage = 3
    MaxFailures = 1
    MaxParts = 2
    Demo = FALSE
    Keys <- TwoKeys
    Powers <- PowerMaps
    MaxChanges = 2
    MaxGaps = 1
    BookPrices = {10, 11, 13}
    BookQuantities = {1, 2, 3}
    MaxLevels = 2
    StepSizes = {1, 2}
    Thresholds = {0, 1}
    Percent = 10
    FundedVenues = {"binance", "gate", "mexc", "bitget", "kucoin", "hyperliquid", "variational"}
    OtherVenues = {"mexc"}
    Fractions <- BothWays
    Hour = 1
    Intervals = {1, 2}
    DefaultInterval = 2
    Horizon = 3
    MaxHourly = 4
    StaleAfter = 1
    SchedulePoll = 1
    MaxTime = 2
    MaxSwings = 1
    Listings <- PairOrders
    Bests <- BestPrices
    FullPass = 2
    Slices = 2
    MostPerTick = 2
    MaxMoves = 2
INVARIANTS PlanHedges PlanAlerts UnitsAgree CloseFlattens MarginAsAsked OkKeysAreFit CapacityIsLargest ProjectionAddsUp CachedIsCurrent WithinRisk TopsFollowPrices
PROPERTY ImplementsVerdict
CHECK_DEADLOCK FALSE
