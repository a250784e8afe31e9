----------------------------- MODULE MCOrderPath -----------------------------
(***************************************************************************)
(* What one order rests on and meets on its way to the exchange: the best  *)
(* prices that rank its pair, the size the books can take, the funding the *)
(* pair will pay, the checks of the click, the decision on the two legs,   *)
(* the adapter that sends it, the units it is counted in and the account   *)
(* it is sent from.  The eight do not share state, so a behaviour follows  *)
(* one of them while the others rest in one of their initial states.       *)
(***************************************************************************)
EXTENDS Admission, MCLegs

CONSTANTS
    TradingVenues, Req, StatusPolls, MaxFetches,                           \* AdapterOrders
    LongExchanges, ShortExchanges, Shapes, ShortShapes, Wanted, MinOrderUsd, Leverage, MaxFailures, MaxParts, \* AdapterContracts
    Demo, Keys, Powers, MaxChanges, MaxGaps,                        \* AdapterAccounts
    BookPrices, BookQuantities, MaxLevels, StepSizes, Thresholds, Percent, \* BookMath
    FundedVenues, OtherVenues, Fractions, Hour, Intervals, DefaultInterval, Horizon, MaxHourly, StaleAfter, SchedulePoll,
    MaxTime, MaxSwings,                                             \* FundingRates
    Listings, Bests, FullPass, Slices, MostPerTick, MaxMoves        \* Radar

VARIABLES
    focus,                                                          \* the part followed
    exchange, order, call, report, said, fetches,                   \* AdapterOrders
    venue, contract, ledger, asked, stage, todo, failures, quantity, fills,
    position,                                                       \* AdapterContracts
    keyExchange, power, keystore, adapter, generation, keyMasked, checking, check,
    replacing,                                                      \* AdapterAccounts
    asks, bids, capacity,                                           \* BookMath
    now, market, fraction, changes, schedule, held, updated, polled,
    cache,                                                          \* FundingRates
    listing, legs, bests, tops, cursor, quiet, moves                \* Radar

orderVars == <<exchange, order, call, report, said, fetches>>
contractVars == <<venue, contract, ledger, asked, stage, todo, failures, quantity, fills, position>>
accountVars == <<keyExchange, power, keystore, adapter, generation, keyMasked, checking, check, replacing>>
bookVars == <<asks, bids, capacity>>
fundingVars == <<now, market, fraction, changes, schedule, held, updated, polled, cache>>
radarVars == <<listing, legs, bests, tops, cursor, quiet, moves>>
allVars == <<focus, vars, planVars, orderVars, contractVars, accountVars, bookVars, fundingVars, radarVars>>

Parts == {"legs", "orders", "contracts", "accounts", "books", "funding", "clicks", "radar"}

(* Symbols of 1 and 3 tokens, contracts of 1 and 2 coins, every way a limit may be missing. *)
EveryShape ==
    [mult : {1, 3}, size : {1, 2}, step : {0, 1, 2}, lot : {1}, min : {0, 1}, max : {None, 2},
     notional : {0, 9}, listed : {TRUE}]

Shape(mult, size, listed) ==
    [mult |-> mult, size |-> size, step |-> 1, lot |-> 1, min |-> 1, max |-> None, notional |-> 0, listed |-> listed]

ThreeShapes == {Shape(1, 2, TRUE), Shape(3, 1, TRUE), Shape(1, 1, FALSE)}

TwoKeys == {"good", "other"}

GoodPower ==
    [reading |-> TRUE, futures |-> TRUE, withdrawals |-> FALSE, oneWay |-> TRUE, ipBound |-> TRUE, funded |-> TRUE]

OtherPowers ==
    {[GoodPower EXCEPT !.withdrawals = TRUE], [GoodPower EXCEPT !.oneWay = FALSE],
     [GoodPower EXCEPT !.reading = FALSE, !.futures = FALSE, !.ipBound = FALSE], [GoodPower EXCEPT !.funded = FALSE]}

PowerMaps == {[k \in TwoKeys |-> IF k = "good" THEN GoodPower ELSE p] : p \in OtherPowers}

Orders == INSTANCE AdapterOrders WITH Exchanges <- TradingVenues

Units == INSTANCE AdapterContracts

Accounts == INSTANCE AdapterAccounts WITH exchange <- keyExchange, Exchanges <- TradingVenues, Accounts <- Powers

Books == INSTANCE BookMath WITH
    asked <- capacity, Prices <- BookPrices, Quantities <- BookQuantities, Unit <- Percent

BothWays == {-1, 9}

Funding == INSTANCE FundingRates WITH
    venue <- market, LongVenues <- FundedVenues, ShortVenues <- OtherVenues, MaxChanges <- MaxSwings

(* Two pairs of one token on three exchanges, or of two tokens on the same two. *)
Pair(token, buyer, seller) == [token |-> token, long |-> buyer, short |-> seller]

PairLists == {{Pair("t", "a", "b"), Pair("t", "a", "c")}, {Pair("t", "a", "b"), Pair("u", "a", "b")}}

RiskLimits == {[pairs |-> 1, usd |-> 40], [pairs |-> 2, usd |-> 30], [pairs |-> 2, usd |-> 40]}

Best(bid, ask) == [bid |-> bid, ask |-> ask]

(* The pair pays one way, the other way, not at all, or is not watched. *)
BestPrices ==
    {[watched |-> TRUE, a |-> a, b |-> Best(12, 13)] : a \in {None, Best(10, 11), Best(14, 15)}}
        \cup {[watched |-> FALSE, a |-> Best(10, 11), b |-> Best(12, 13)]}

PairOrders == {<<"p", "q">>, <<"p", "q", "r", "s", "t">>, <<"t", "s", "r", "q", "p">>}

Ranking == INSTANCE Radar WITH
    catalog <- listing, market <- bests, changes <- moves, Catalogs <- Listings, Markets <- Bests, MaxChanges <- MaxMoves

One(S) == CHOOSE x \in S : TRUE

(* The initial state a part rests in. *)
RestOf(part) ==
    CASE part = "legs" -> /\ wanted = 1 /\ lot = 1 /\ least = 0
                          /\ longLeg = One(Answers(1)) /\ shortLeg = One(Answers(1))
      [] part = "orders" -> exchange = One(TradingVenues)
      [] part = "contracts" ->
            /\ venue = [long |-> One(LongExchanges), short |-> One(ShortExchanges \ {One(LongExchanges)})]
            /\ contract = [long |-> One(Shapes), short |-> One(ShortShapes)]
            /\ asked = [wanted |-> One(Wanted), isolated |-> TRUE]
            /\ ledger = [long |-> [held |-> 0, mode |-> "cross", leverage |-> 1],
                         short |-> [held |-> 0, mode |-> "isolated", leverage |-> 1]]
      [] part = "accounts" -> keyExchange = One(TradingVenues) /\ power = One(Powers) /\ keystore = <<None, None>>

(* The initial state a part rests in, for the parts that only read. *)
QuoteRestOf(part) ==
    CASE part = "books" -> asks = <<>> /\ bids = <<>>
      [] part = "funding" ->
            /\ market = [long |-> One(Funding!Venues(FundedVenues)), short |-> One(Funding!Venues(OtherVenues))]
            /\ fraction = [s \in Funding!Sides |-> One(Fractions)]
      [] part = "clicks" -> catalog = One(PairLists) /\ limits = [pairs |-> 1, usd |-> 40]
      [] part = "radar" -> listing = One(Listings) /\ bests = [p \in Ranking!Pairs |-> One(Bests)]
      [] OTHER -> RestOf(part)

Start(part) == IF focus = part THEN TRUE ELSE QuoteRestOf(part)

InitAll ==
    /\ focus \in Parts
    /\ \A part \in Parts : Start(part)
    /\ PlanInit /\ Orders!Init /\ Units!Init /\ Accounts!Init /\ Books!Init /\ Funding!Init /\ Ranking!Init
    /\ IF focus = "clicks" THEN Init \/ InitWarm ELSE Init

ClickStep ==
    /\ focus = "clicks" /\ Next
    /\ UNCHANGED <<focus, planVars, orderVars, contractVars, accountVars, bookVars, fundingVars, radarVars>>

LegsStep ==
    /\ focus = "legs" /\ Ask
    /\ UNCHANGED <<focus, vars, orderVars, contractVars, accountVars, bookVars, fundingVars, radarVars>>

OrderStep ==
    /\ focus = "orders" /\ Orders!Next
    /\ UNCHANGED <<focus, vars, planVars, contractVars, accountVars, bookVars, fundingVars, radarVars>>

ContractStep ==
    /\ focus = "contracts" /\ Units!Next
    /\ UNCHANGED <<focus, vars, planVars, orderVars, accountVars, bookVars, fundingVars, radarVars>>

AccountStep ==
    /\ focus = "accounts" /\ Accounts!Next
    /\ UNCHANGED <<focus, vars, planVars, orderVars, contractVars, bookVars, fundingVars, radarVars>>

BookStep ==
    /\ focus = "books" /\ Books!Next
    /\ UNCHANGED <<focus, vars, planVars, orderVars, contractVars, accountVars, fundingVars, radarVars>>

FundingStep ==
    /\ focus = "funding" /\ Funding!Next
    /\ UNCHANGED <<focus, vars, planVars, orderVars, contractVars, accountVars, bookVars, radarVars>>

RadarStep ==
    /\ focus = "radar" /\ Ranking!Next
    /\ UNCHANGED <<focus, vars, planVars, orderVars, contractVars, accountVars, bookVars, fundingVars>>

NextAll == ClickStep \/ LegsStep \/ OrderStep \/ ContractStep \/ AccountStep \/ BookStep \/ FundingStep \/ RadarStep

SpecAll == InitAll /\ [][NextAll]_allVars
--------------------------------------------------------------------------------
(* The properties of the parts, stated in their modules; those of the clicks *)
(* and the plans come with Admission and MCLegs.                            *)
UnitsAgree == Units!UnitsAgree

CloseFlattens == Units!CloseFlattens

MarginAsAsked == Units!MarginAsAsked

OkKeysAreFit == Accounts!OkKeysAreFit

CapacityIsLargest == Books!CapacityIsLargest

ProjectionAddsUp == Funding!ProjectionAddsUp

CachedIsCurrent == Funding!CachedIsCurrent

TopsFollowPrices == Ranking!TopsFollowPrices

ImplementsVerdict == Orders!ImplementsVerdict
==============================================================================
