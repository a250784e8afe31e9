# Verification of ludiki_parcer

The program is a trading terminal for price gaps of perpetual contracts: it
watches ten exchanges, shows a gap between two of them, opens a token pair
(long on the cheap exchange, short on the dear one) on one click, follows it
and closes it. It is one asyncio process with a PostgreSQL database.

This directory holds TLA+ models of the parts where steps of several tasks,
exchanges, outages and restarts meet, the TLC runs that check them on small
instances, and TLAPS proofs of what holds for every value of the parameters.

Contents: [inventory](#inventory), [modules](#modules), [runs](#runs),
[fairness](#fairness), [proofs](#proofs), [findings](#findings),
[stated and broken](#stated-and-broken), [not modelled](#not-modelled),
[plan](#plan).

## Inventory

All paths are relative to `src/app/`.

| Part | State it keeps | Operations | Hard behaviour | What makes it correct |
|---|---|---|---|---|
| `core/legs.py`, `actions.py`, `qty.py` | none | `decide_open`, `decide_close`, `floor_to_step` | fourteen combinations of outcomes, uneven fills, minimum sizes | a plan leaves equal legs; no repair in silence |
| `execution/service.py` | `_busy`, `_warmed`, tickets in task locals | `open_pair`, `_keep_resolving`, `close_pair`, `close_leg`, `close_all`, `run_warmup` | lost answers, late orders, status queries, repair orders, a background resolver beside the buttons, several clicks to close a pair | no naked leg without an alarm; a token is always released; a result with all its fees |
| `core/pretrade.py` | none | `open_blocks` | clicks on other tokens between the check and the order, facts that age | risk limits hold |
| `portfolio/service.py` | `trades`, accounts, `_foreign` | `run_positions`, `_apply_reconciliation`, `load`, `save`, `finish`, `close_record`, `assign_pair`, `run_funding` | polls between any two awaits of execution; polls that overlap; restarts | shown status = saved status; a lost leg is noticed; a leg belongs to one pair |
| `core/episodes.py` | a record per gap | `step`, `end` | durations and counts kept in a few fields over many samples | a gap is shown when it has earned it and leaves after a long dip |
| `strategies/price_gap/engine.py`, `recorder.py`, `core/radar.py` | books, episodes, rows being kept, a cursor, cached funding | `tick`, `_radar`, `_choose`, `_measure`, `_end_unwatched`, `close` | limited slots, a changing catalog, two tables of the same gaps, contracts shared by pairs, books that stop | one complete row per shown gap; open pairs keep their books; a fresh book is true |
| `core/roi.py`, `vwap.py`, `funding.py`, `account.py` | none | `capacity_tokens`, `avg_price`, `pair_funding`, account verdict | levels and steps, settlements on the edge of a horizon, missing facts | equal to a reference definition |
| `storage/writer.py`, `spool.py`, `database.py` | queue, spool files, counter, connection | `submit`, `flush`, `_replay_spool`, `_write`, `close` | outages at every await, lost acknowledgements, bad rows, shutdown, crash | nothing lost, in order, nothing blocked |
| `storage/ids.py` | last millisecond, counter | `next` | a clock that steps back | ids grow |
| `instruments/service.py`, `storage/catalog.py`, `core/pairs.py` | last good answers, records, flags | `refresh`, `set_flags` | an exchange that fails, a flag set during a refresh, a database that comes and goes | decisions of the user stand; pairs outlive failures |
| `exchanges/service.py`, `keystore/` | keys, last check, links | `save_keys`, `delete_keys`, `check`, the link monitor | keys replaced during a check | a verdict belongs to the keys shown |
| `exchanges/*/adapter.py` | none | contracts, orders, status, positions, fills, margin, permissions | ten wire formats, units, lagging status, lost answers | only the truth or "unknown" is told; units agree |
| `market/ws.py`, `depth_pool.py`, the market feeds | wanted and sent topics, placement | `set_depth`, reconnect, `resubscribe` | wanted topics change while sending | what is wanted is subscribed in the end, within the limit |
| `market/funding.py` | rates, schedules | polls | schedules fetched rarely, units per hour or settlement | the rate of a leg in one unit |
| `core/alerts.py`, `alerts/` | coins announced, queue, message ids, breaks held back | `check`, `on_event`, `flush_outages` | cooldown, rate, quiet hours, failing posts | a coin is news once; a lasting break is told |
| `api/` | latest message per topic | routes, hub | slow clients | newest message wins |
| `main.py` | tasks | start, stop | order of both | loading before trading, flush before the end |

Tasks share state through plain Python objects. The event loop runs one task
at a time, so the code between two awaits is atomic, and everything may change
across an await. Execution calls the portfolio directly; both hand rows to the
write queue without waiting; the engine reads the catalog, the market state and
the portfolio and calls the recorder, which hands rows to the same queue; the
exchange service, the write queue and the portfolio emit events the notifier
listens to; the API only calls.

## Modules

| Module | Models | Correspondence |
|---|---|---|
| `Legs` | `core/legs.py`, `actions.py`, `qty.py` | `DecideOpen`, `DecideClose` return a plan: the repairs (`CloseLeg`, `ReduceLeg`) in order, the mark and the alert. `Hedges` and `Alerts` say what a good plan is. Quantities are tokens. |
| `MCLegs` | every answer to an order of up to `MaxQty` tokens | a one-step machine around `Legs` |
| `Execution` | `execution/service.py` and reconciliation, `load`, `save`, `finish`, `close_record` of `portfolio/service.py`, for one pair; EXTENDS `Legs` | An action is the code between two awaits. `opener` is the `open_pair` task and the `_keep_resolving` it may become; `closer` the `close_pair` or `close_leg` task; `ticket` what the program knows of an order and `order`, `pos` what the exchange knows; `row` the status last handed to the queue. `Land`, `Liquidate` are the exchanges. |
| `Admission` | `core/pretrade.py`, `open_blocks_for`, warm-up, balances, maintenance | `OpenBlocks` is the list of reasons over `OpenFacts`; `OpenPair` is a click up to its first await, `AssignPair` takes positions over by hand; the other actions are where the facts come from. What becomes of the orders is left to `Execution`. |
| `TradeResult` | `_close`, `_settle`, `close_leg`, `run_funding`, `core/portfolio.py` `settle` | the amounts of one trade while it is closed: `closing` is the click under way with the orders it remembers, `fetched` the `run_funding` pass that holds the trade |
| `Portfolio` | `portfolio/service.py`, `core/portfolio.py` | several pairs of one token: `polls` are the polls under way with the answers they have, `foreign` is `_foreign`, `opener` and `closer` what execution is at; an opening may go on in the background |
| `AdapterOrders` | `place_market_order`, `fetch_order` of nine adapters | one order; every await is a step, `order` is the exchange's side, `said` the last report; implements `OrderVerdict` |
| `OrderVerdict` | the promise of `exchanges/base.py` | the truth of an order, and what may be said of it |
| `AdapterContracts` | contracts, quantities, margin, positions, fills of nine adapters | one pair from `parse_instruments` to the closing; `ledger` is the exchange's own account in its own units |
| `AdapterAccounts` | `check_account` of the adapters, `core/account.py`, keys and checks of `exchanges/service.py` | `generation` and `checking` are the service's guard against late answers |
| `BookMath` | `core/vwap.py`, `core/roi.py` | averages are kept as costs, so nothing is divided; `AskCapacity` starts the binary search of `capacity_tokens`, `Probe` is one round of it |
| `FundingRates` | `market/funding.py`, `core/funding.py`, `_pair_funding` of the engine | `Published` is what an exchange says, `held` the rate table, `cache` the engine's view |
| `Radar` | `_sync_catalog`, `_radar`, `best_price_roi` | `tops` are the results that rank pairs, `cursor` the place in the list |
| `Feed` | `engine.py`, `recorder.py`, `choose_books`, `close_dangling_episodes`; EXTENDS `Episodes` | `Tick` is one `tick()`, which has no await. `open` is the recorder's own table, `live` the rows without `ended_at` in the database. |
| `SharedBook` | `_choose`, `_measure`, `leg_fresh`, `market/state.py` | the book of one contract that several pairs share; time in ticks |
| `Episodes`, `GapHistory` | `core/episodes.py`; one key of the engine's episodes | pure operators on the record; every sample kept beside it |
| `Streams` | `ws.py`, `depth_pool.py`, `binance_streams.py` and the copies of the pool in three feeds | a socket's `desired`, `_subscribed` and the batches `_sync` still has to send; `server` is what the exchange streams |
| `Catalog`, `PairRules` | `instruments/service.py`, `storage/catalog.py`; `core/pairs.py` | a refresh over its awaits (answers, table, swap) beside `set_flags`; the verdict on a pair as pure operators |
| `GapAlerts` | `core/alerts.py`, `notifier.py`, `telegram.py` | one round of `check()`, the sender's queue, messages and their notes |
| `OutageAlarms` | link monitor, connection events, `notifier.py` | one time step is one round of `run_outages` |
| `WriteQueue`, `RowLog` | `storage/writer.py`, `spool.py`, `database.py`, start and stop in `main.py`; its promise | `task` says where `flush()` waits and which rows it holds; `files` are the spool files; `InsertLost` may lose the connection before or after the commit |
| `LocalIds` | `storage/ids.py` | `Draw(clock)` is `next()` |
| `MCExecution`, `MCFeed`, `MCPortfolio` | | `Execution` started from an open, hedged pair too; interchangeable pairs; every leg |
| `MCOrderPath`, `MCRecords`, `MCRecovery` | | several parts in one run, see below |
| `LegsProofs`, `ExecutionProofs`, `QueueProofs`, `FeedProofs`, `GapProofs` | | theorems on one part, see [proofs](#proofs) |
| `OrderPathProofs`, `RecordsProofs`, `RecoveryProofs` | | theorems on the parts of the run of that name |

**Compositions.** `Execution` composes the opener, the buttons, the poller, the
exchanges and the saved row; `Feed` the engine, the recorder, the catalog and
the portfolio; `WriteQueue` the queue, the disk and the server; `GapAlerts` the
rules, the notifier and the sender; `OutageAlarms` the monitor and the
notifier. `MCOrderPath`, `MCRecords` and `MCRecovery` are no compositions:
their parts share no variable, so every property of a part in the product would
be its property alone, and the product would only be larger. A behaviour
therefore follows one part, chosen by `focus` in the initial state, while the
others rest. Actions, properties and fairness are those of the part's module.
Each of the three extends one part and instantiates the others, with every
parameter of theirs a constant of its own: the theorems on it are about any
values of them, and the run is one choice.

### Abstractions that matter

* **Execution.** One pair, one token. `TimeOut` stands for any answer that
  leaves the outcome unknown, and the order may still be travelling then. An
  order that is not found may still be travelling, except at the last
  confirmation: the bet the code makes with its grace period, made explicit as
  a conjunct of `QueryNotFound`. `FreshLegs` waits until the exit orders of an
  earlier attempt have landed. Ticks of the poller are one action with a flag
  that says whether all exchanges answered. Amounts are in `TradeResult`. A
  restart at any await forgets every task and ticket; `load()` brings back what
  the rows say, and every row handed to the queue is taken to have reached the
  table: what a queue that ends may lose is findings 2 and 3.
* **Admission.** Pairs are of equal amounts; leverage and margin mode change with
  a restart only, limits not at all, and `one_pair_per_token` is on, its default.
  `InitWarm` starts with warm contracts and known balances, a state `Init`
  reaches, so that clicks and failures fit the bound.
* **TradeResult.** Every order is answered, prices of a leg do not differ, no
  position leaves but by an order: each makes a right result easier to reach.
* **Portfolio.** Quantities are left out; a differing quantity is an issue on
  the screen and changes no status. A pair can be dropped by `close_record`
  while execution works on it only with `CloseRecordWhileBusy`. `close_leg` runs
  beside the background resolver of a pair; a new opening waits for that
  resolver.
* **AdapterOrders.** Prices, ids and texts are left out; an exchange's record
  has the fields its adapter reads. A request or an answer may be lost, orders
  show late and may expire. An error that says "not found" is told from the
  others without fail, where the code looks for a type, a code or words in a
  text (`bingx/adapter.py:306`, `kucoin/adapter.py:264`). Gate lists every order
  of a contract, not the last hundred (`gate/adapter.py:389`).
  **AdapterContracts** has prices that are whole multiples of the coins of a
  symbol.
* **Catalog.** An exchange lists one contract of a token (of several, the code
  compares the index of the last, `instruments/service.py:63`), and one
  `set_flags` runs at a time: when the answers of two pass each other, memory has
  the older flags until the next refresh.
* **FundingRates.** Rates are whole numbers per settlement; an hour is a tick.
* **SharedBook.** Any exchange but Hyperliquid and Variational: their books are
  fresh up to a limit of their own, are not compared with best prices and are
  not subscribed again (`engine.py:407`). The first frame of a subscription made comes in the end,
  unless the stream froze; best prices are read before each tick.
* **WriteQueue.** Rows are numbers in the order of submit, each a newer version
  of one key, so that a replay that puts an old version over a newer one is
  visible in `newest`. The answer to an insert that was committed may be lost
  (`Unheard`), and a crash may cut the file being written (`Torn`). Time is left
  out: whether a spooling is due, and whether it is time to reconnect, is open.
* **Episodes.** ROI and spreads are integers, times integers. `last_ts_ms` and
  the counters for the view are left out.
* **Feed.** Time is left out, with `EnterAfter = ExitAfter = 0`; `GapHistory`
  has it. The engine's copy of the records, taken anew in each tick, is the
  catalog itself. Ranking, rotation and minimum hold are a free choice of
  `rest`, the pairs behind the ones that must have books. Gaps are numbered
  with any number that no unfinished row of the key carries, which is enough to
  tell a row of this gap from a row of an earlier one. In the passing run no
  pair is delisted: what happens then is [finding 4](#findings).
* **GapAlerts, OutageAlarms.** The feed, the clock, Telegram's answers and the
  links are free; a round of the loops is a time step.

## Runs

| Run | Question | Bounds, and why they are enough |
|---|---|---|
| `execution` | One click, or one closing: naked legs, hedged open pairs, flat gone pairs; does it end and release the token? | 3 tokens, minimum 2: a fill can be below, at and above the minimum; 1 query and 2 background rounds: found, not found once, twice, given up; 2 closing attempts; 1 restart |
| `execution_buttons` | Does the saved row follow the screen, is a lost leg noticed? | 1 token, all three buttons, 1 query and 2 background rounds, 1 liquidation, 1 restart with or without database |
| `order_path` | Plans of `decide_open`; units, margin and orders of nine adapters; verdicts on accounts; capacity; funding; the checks of a click; the radar | see below |
| `feed` | One complete row per gap; who gets the books? | 3 pairs for 2 books: an open pair, a shown gap and a candidate compete; one direction; 1 open trade |
| `records` | Decisions on pairs, legs of pairs, the record of a gap, spool files, outage notices | see below |
| `recovery` | The write queue, subscriptions, a shared book and alerts through failures | see below |
| `finding_*` | see [findings](#findings) | the smallest instance that shows it |

Bounds of the parts:

* `order_path`. Legs: quantities, steps and minimums up to 4, so every order of
  long, short, target and minimum occurs. Orders: 2 units, so a partial fill
  exists; 2 status questions and 2 later calls. Contracts: symbols of 1 and 3
  tokens, contracts of 1 and 2 coins, each limit present or missing, every
  adapter against two others, one failing request, orders executed in one part
  or two, split in every way. Accounts: a good key and one that can withdraw,
  hedges, lacks permissions or has no money, 2 key changes, 1 gap in what is
  told, clocks that agree or not. Books: 2 levels of 3
  prices and 3 quantities, 2 steps. Funding: 2 intervals, 2 rates, a change, a
  horizon of 3 hours: settlements on both edges. Clicks: 2 pairs that share an
  exchange or two, 3 limits, 1 mishap or pair assigned by hand. Radar: up to 5 pairs in slices of 2 and
  a catalog that changes order.
* `records`. Catalog: 3 exchanges, one naming the coin differently and one
  counting thousands, 2 refreshes, 1 decision, 1 restart, the database coming
  and going. Portfolio: 2 pairs of 1 token on 2 exchanges, 1 poller, 3 events.
  Gap: 5 samples with two delays, readings below, at and far above the
  threshold: into the feed, out of it and back. Queue: 4 rows in batches of 2,
  one refused, 2 outages, 2 shutdowns or crashes. Links: 1 exchange and the
  database, 6 rounds over a day of 4 with 2 quiet ones.
* `recovery`. Queue: the same without ends, which is where `NewestWins` holds
  (see [what the attempts showed](#what-the-attempts-showed)). Streams: 3 contracts
  on connections of 2, every ranking, 2 changes, 1 resubscription, 1 drop, pooled
  or single. Gaps: 2 of one coin, 4 rounds with a cooldown of 2, a queue of 1.
  Shared book: 2 pairs, 2 prices, 3 changes of the choice, 1 frozen source.

`CHECK_DEADLOCK FALSE` is set where the modelled part may really stop: one-step
machines, bounds on clocks, and the queue when the process has ended or all rows
have been submitted.

What the properties say:

* `PlanHedges`, `PlanAlerts`: for resolved legs, filled orders and filled
  repairs leave equal legs; no plan with repairs or an unknown leg is silent.
* `NakedLegIsAlarmed`: when no task is at work, unequal legs were reported
  CRITICAL or belong to a pair shown as opening or closing. The weaker "or" is
  what the code does: see findings.
* `OpenIsHedged`, `GoneIsFlat`: an unalarmed open pair holds exactly its
  quantity on both exchanges; a pair whose final row was written without an
  alarm left nothing behind.
* `OpeningEnds`, `TokenReleased`: a click ends; the `finally` is reached.
* `RowFollowsMemory`: every change of status is submitted before the next await.
* `LostLegIsNoticed`: when polls stop failing, a pair that lost a leg does not
  stay "open" without an alarm.
* `WithinRisk`: whatever clicks overlap, the pairs they opened pass neither limit
  and no token is opened twice. Pairs assigned by hand count when a click is
  judged, and are themselves not judged.
* `ImplementsVerdict`: each adapter's reports are "unknown" or true, final
  reports stay true, and "absent" is said only by a question.
* `UnitsAgree`, `CloseFlattens`, `MarginAsAsked`: both exchanges hold the
  planned tokens and show them as such, as positions and as executions; closing what was read leaves nothing;
  a position has the margin asked for.
* `OkKeysAreFit`: keys shown as fine are the ones traded with, do not hedge, and
  cannot withdraw, unless Bybit's answer said nothing of withdrawals: its adapter
  reads that as "no" (see [below](#stated-and-broken)).
* `CapacityIsLargest`, `ProjectionAddsUp`, `CachedIsCurrent`,
  `TopsFollowPrices`: capacity, funding, its cache and the radar against
  definitions that enumerate. `CapacityIsLargest` is about sizes both sides fill:
  a larger one has no price.
* `HandLegsOwnedOnce`, `ActiveFollowsTrades`: no two pairs assigned by hand
  share a leg; the machine is kept awake exactly while a pair is listed.
* `StoredDecisionsStand`, `PairsOutliveFailures`: decisions that met no refresh
  on their way stand everywhere; pairs go only after an answer that said so.
* `ImplementsLog`, `RowsArrive`, `NewestWins`, `SpooledIsCounted`,
  `SpooledIsKept`: refinement of `RowLog`; nothing blocks the rows behind it;
  replays and repeated inserts end with the newest version; the counter matches
  the disk; a row on disk leaves it only for the database or the rejected file.
* `DepthSettles`, `WithinLimit`: in the end every book wanted last is streamed,
  and a connection never carries too many.
* `FreshIsTrue`, `WatchedHasBook`: a leg counted fresh has a price of within
  `fresh_ms` while one source lives; a watched contract gets a usable book back.
* `CoinIsNewsOnce`, `LastingBreakIsTold`: two announcements of a coin are a
  cooldown apart; a break that lasted is told, by day or night.
* `ShownWhenEarned`, `LeavesAfterLongDip`: the record against the history, the
  first both ways: not earlier, not later.
* `OneRowPerGap`, `StoppedRowsAreComplete`, `FirstKeepBooks`: the recorder's
  table against the engine's; rows after an orderly stop; whatever is chosen
  next, open pairs and then shown gaps go first.

Each property has a mutant of a mapped definition that breaks it; the mutants
stand in the modules, marked "Mutant".

## Fairness

* `Execution`: placement calls have a timeout and status queries return, so a
  task is answered; an exchange lets no order travel for ever; the task's own
  steps are taken; `run_positions` never stops. Nothing is assumed of the user,
  of liquidations or of polls being complete: `LostLegIsNoticed` has "from some
  time on no poll fails" as its premise.
* `WriteQueue`: `run()` flushes for ever and attempts to connect when the
  interval is over; connecting, pinging and inserting return or raise; a
  terminal that is down is started. Nothing is assumed of the server: the
  properties have `<>[]reachable` as premise.
* `Streams`: a socket reconnects after a bounded pause and its `_sync` task is
  scheduled. Drops and changes of mind are bounded, which is the "in the end".
* `SharedBook`: the engine ticks, and a subscription made is answered. Nothing
  is assumed of the best prices or of prices moving.
* `Feed`: only in the finding: the engine ticks for ever and chooses books
  again and again. The passing run has safety only.

## Proofs

Checked by TLAPS for every value of the constants that meets the assumptions.
"Any" below means so: any number of pairs, rows, rounds and failures, with the
bounds of the runs as parameters.

| Module | Theorem | Property | For |
|---|---|---|---|
| `LegsProofs` | `DecideOpenHedges`, `DecideOpenAlerts` | | any answers, quantity, step and minimum |
| `ExecutionProofs` | `TypeCorrect`, `RowCorrect` | `TypeOK`, `RowFollowsMemory` | any quantity, attempts, restarts and buttons |
| | `NakedLegsAlarmed`, `OpenPairsHedged`, `GonePairsFlat` | `NakedLegIsAlarmed`, `OpenIsHedged`, `GoneIsFlat` | the same, with the button that closes pairs |
| `OrderPathProofs` | `PlansHedge`, `PlansAlert` | `PlanHedges`, `PlanAlerts` | any answers |
| | `RiskIsLimited` | `WithinRisk` | any catalogs, limits, clicks, assignments and failures |
| | `AdaptersKeepVerdict` | `ImplementsVerdict` | any size of order, questions, lost calls and lagging status |
| | `OkKeysFit` | `OkKeysAreFit` | any accounts, key changes, late checks |
| | `CloseLeavesNothing`, `MarginsAreAsked` | `CloseFlattens`, `MarginAsAsked` | contracts of any size, step and limits, on any two of the nine exchanges |
| | `UnitsAlwaysAgree` | `UnitsAgree` | the same, with orders executed in any number of parts |
| | `LegsHoldThePlan` | `HeldAsPlanned`, the part of it on positions | the same |
| | `RanksAreCurrent` | `TopsFollowPrices` | any lists in any order, slices and prices |
| | `CachedFundingIsCurrent`, `ProjectionsAddUp` | `CachedIsCurrent`, `ProjectionAddsUp` | any rates, times, horizon and intervals |
| | `CapacitiesAreLargest` | `CapacityIsLargest` | books of any depth, prices and quantities, any steps and thresholds |
| | `TotalsWalk` | | any book side and quantity: running totals and the walk over the levels give one cost |
| `QueueProofs` | `DiskKept`, `SpooledCounted` | `SpooledIsKept`, `SpooledIsCounted` of the part | any batches, refused rows, outages, shutdowns and crashes |
| | `QueueImplementsLog`, `LivingLosesNothing`, `NewestIsShown` | `ImplementsLog`, `NothingLost`, `NewestWins` | the same while the process lives |
| `RecoveryProofs` | `FreshLegsAreTrue` | `FreshIsTrue` | any pairs that share a contract, prices and limits |
| | `RowsKeepOrder`, `NewestRowWins` | `ImplementsLog`, `NewestWins` of the run | as `QueueProofs` |
| | `CoinsAreNewsOnce` | `CoinIsNewsOnce` | any gaps, coins, cooldown and feed |
| | `ConnectionsHold` | `WithinLimit` | any contracts, wishes, limits, sizes of message, drops and resubscriptions |
| `FeedProofs` | `EveryGapHasOneRow`, `StopsComplete` | `OneRowPerGap`, `StoppedRowsAreComplete` | any pairs, directions, readings and rules |
| | `FirstGetBooks` | `FirstKeepBooks` | any finite catalog and limits |
| `GapProofs` | `ShownAtFirstEarned`, `LeavesAtFirstLongDip` | `ShownWhenEarned`, `LeavesAfterLongDip` | samples, delays and histories of any size |
| `RecordsProofs` | `GapsShownWhenEarned`, `GapsLeaveAfterLongDip` | the same, of the run | as `GapProofs` |
| | `AwakeWhilePairs`, `HandLegsStayOwned` | `ActiveFollowsTrades`, `HandLegsOwnedOnce` | any exchanges, pollers and pairs |
| | `RowsStayOnDisk`, `SpooledLinesCounted` | `SpooledIsKept`, `SpooledIsCounted` of the run | as `QueueProofs` |
| | `LastingBreaksAreTold` | `LastingBreakIsTold` | any links, hold and quiet hours |
| | `DecisionsStand`, `PairsOutlive` | `StoredDecisionsStand`, `PairsOutliveFailures` | any exchanges, listings, outages and restarts |
| | `IdsAlwaysGrow` | `IdsGrow` of `LocalIds` | any clock, also one that steps back |

### What is assumed

Assumptions that say something of the program:

* `OnlyPairsClose` (legs of `Execution`): the user closes whole pairs. To close
  one leg or to drop the record of a pair is to leave a leg without its hedge on
  purpose. `NakedLegsAlarmed` also needs `LoadOutcomes \subseteq {TRUE}`, the
  database ready at each start: without it a pair is not loaded and nobody
  watches it (see [below](#stated-and-broken)).
* `Ends = {}` (order of the queue): the process lives. What its end may lose is
  findings 2 and 3.
* `Stays` (rows of `Feed`): no pair leaves the catalog; finding 4 is what
  happens when one does.
* `HandLegsStayOwned`: the database is ready at every start and no record is
  dropped while execution works on it. Both are necessary: without either TLC
  finds the second owner.
* `Limits` (books): `fresh_ms` is at most `quiet_book_max_ms`.
* `AccountsApart`: in the demo mode of Binance, where the adapter asks for no
  permissions and takes them for granted, no key withdraws.
* `FundingApart`: the ten exchanges, and intervals of whole hours that divide a
  year, since one exchange states its rate per year.
* `BooksApart`: prices and quantities of a level are naturals, a step is at least
  one, and no threshold is below minus a hundred percent: the settings keep it at
  minus five and more (`strategies/price_gap/settings.py:25`). Below that the
  comparison of two averages would turn round.
* `ListsApart`: the catalog lists a pair once, and a slice has a pair at least.
* `HoldsBack`: a break is held back for some time. `IdsAlwaysGrow`: a
  millisecond has room for an id.

The rest says what kind of things the constants are: amounts, times and sizes
are naturals (`QtyAssumption`, `AttemptsAssumption`, `EnvironmentAssumption`,
`RulesAssumption`, `LimitsAssumption`, `ContractsApart`, `Numbers`,
`MaxBatch \in Nat`), sets the code counts are finite, a connection takes one
contract at least (`StreamsApart`), and `None` is none of the values it stands
apart from (`NoneIsApart`, `OrdersApart`, `CatalogNone`, `NewsApart`). The
configurations of the runs meet all of them but those whose failure they are
there to show.

### The invariants behind them

* `Execution`. `TypeOK` is not inductive: `FixAnswered` takes the head of the
  opener's plan, so `IInv` adds that a task that is fixing has a repair left, and
  needs `DecideOpen` to return a plan, which needs `FloorToStep` between zero and
  its argument. The legs need `Watched`: as long as no CRITICAL was emitted the
  pair is `Sound`. `Sound` says, task by task, what the legs hold: what the
  entries filled while the opener waits (`LegsAreFills`); what the rest of the
  plan evens out while it trims (`RestHedges`, by `DecideOpenHedges`); the
  quantity on both sides while the pair is open (`OpenIsEven`); nothing once it
  is final (`FinalIsFlat`); and which orders may still be under way
  (`OrdersTravelInTime`). An alarm is never taken back, so a step that raises one
  owes nothing.
* `Orders`. `OrderInv`: every report a call may still give is `Honest` (unknown,
  or what the exchange is done with), a lookup in progress was asked of the right
  endpoint, and "not found" is not said by a question about an order that was
  shown (`Told`). The proof splits by exchange and kind of answer; it found two
  overlapping arms of a CASE in `AdapterOrders`, of which the first in the
  code's order must win: they are an IF chain now.
* `Accounts`. `AccountInv`: a check under way has the keys the adapter had when
  it began, and while the generation is the same those are the keys of now; a
  verdict is on the keys of now until the next replacement begins.
* `Contracts`. `UnitInv`: the plan is a whole number of units on either leg
  (`Planned`, from least common multiples), the ledger holds that `Lot`, each
  setting still to be sent is one the exchange takes (`WillFit`), and what is read
  back is what was planned (`ReadAs`). `FillsInv` is the same for the executions:
  for each exchange, the rows listed for the parts of an order read back as the
  parts in tokens (`FillsAre`; for BingX whichever unit it lists volumes in, for
  Hyperliquid past the executions of other orders), and a sum scales with its
  parts (`SumScales`).
* `Books`. `BooksInv`: the sides are sorted, and the search keeps its `Bracket`:
  the size `low` pays, and above `high` no size pays that both sides can fill. A
  probe may drop one half only because larger sizes price worse (`Worsens`): the
  average of a sorted side rises, or falls, with the quantity (`AverageRises`,
  `AverageFalls`, cross-multiplied from what is known of a prefix of the levels).
* `Radar`. `RadarInv`: there is a turn `k` such that pairs of the slice refreshed
  `a` ticks before have the rank of their prices if those stood still for `a`
  ticks; a pair keeps its slice while the set of pairs is the same.
* `Funding`. `FundingInv`: a rate held is what the exchange stated at the last
  poll, with settlements on the exchange's grid (`Quoted`), and the cache is what
  `PairFunding` made of such rates at an earlier time that nothing overtook.
  `NextIs` and `StaysAhead` say that the next settlement of the grid is the same
  until it is passed; `CountIs` counts the settlements in a horizon by a
  bijection with their numbers.
* `Queue`. `Sane` (disk, hands and memory are rows in their forms) carries
  `DiskKept` through any end. `Tally` is needed for the counter: a file that is
  being replayed has no torn line, and while the process is up the counter is the
  number of lines; the lines are counted as a set of places. `Ordered` is needed
  for the order: rows on disk come before those in hand, and those before memory;
  and there are `m <= n` such that rows up to `n` were dealt with and rows behind
  `m` are still here (`Dealt`). The rows between are those whose commit was not heard of: they are inserted
  again, in order, before any newer one.
* `Feed`. `RowsMatch`: for each key the row the recorder keeps, the unfinished
  rows of history and the phase of the gap agree (`Agree`). `Lawful` says of
  `step` what recorder and engine rely on: a shown gap stays shown until it ends.
  It stands for the catalog's gaps only because of `Stays`.
* `GapHistory`. The record has five fields, the history any number of samples.
  `IInv` names the samples the fields stand for: `aboveSince` is the time of a
  sample the gap has been up from without a long dip, and `aboveSamples` their
  number; `belowSince` the first of the unbroken readings below the level
  (`Watches`). `RecordsProofs` carries it over to the composite by an instance of
  `GapProofs` and a lemma that the two instances of the operators are the same
  (`SameGap`, like `SameQueue` for the rows).
* `Portfolio`. `Bookkeeping`: what `_foreign` offers belongs to no pair assigned
  by hand; of a pair assigned by hand the table tells what memory does and calls
  it active only while it is listed, so a restart brings none back that was let
  go. It holds because whatever execution may still write (`Writable`) is a
  listed pair or one opened by a click, never one assigned by hand and let go.
* `Links`. `BreaksKnown`: a link that is down was told of, or is held back since
  it went down or before; what the loop left held back is younger than the hold.
* `Catalog`. `Decided`: the table, memory and a refresh under way carry each
  decision that met no refresh. `UpToDate` adds that the assessed pairs are those
  of the last good answers.
* `News`. `NewsInv`: what is remembered of a coin is its last announcement, or
  that is a cooldown old.
* `Admission`. `RiskInv` is `WithinRisk`, over the pairs opened by a click
  (`Opened`), with what it takes to count;
  `OpenPairKeeps` is the step that matters: check and entry have no await between.
* `Streams`. `BooksInv`: whatever a socket has still to send, unsubscriptions go
  first, and neither what it is subscribed to until they are sent nor what it has
  afterwards is more than a connection takes (`FewOn`). That wanted books fit is a
  fact about `set_depth`, which fills connections one after the other (`Spread`).
* `SharedBook`. `Truthful`: a book is no older than it looks, a streaming book
  has the price of the exchange, live best prices are of this tick.
* `LocalIds`. `Drawn`: the id drawn last is the one of the state kept.

### What the attempts showed

`NewestWins` is false when the process may end, which the bounds of an earlier
run did not reach: a shutdown while rows are retried one by one after a lost
acknowledgement spools rows the database has behind ones that are newer
(`MaxBatch = 3`, `MaxRows = 3`, `Bad = {3}`), and so does a crash in the middle of
`Spool.append` after a lost acknowledgement (`MaxBatch = 3`, `MaxRows = 2`,
`Bad = {}`). The rows are replayed, and the database shows an old version of a key
with nothing left to write. The property is therefore checked and proved for a
process that lives (`recovery`).

### Recursion over data

The library's induction theorems take an operator as a parameter, and no
installed prover can instantiate them. Where a property is about the result of a
recursion (places of contracts, lines of files, sums over levels and executions)
the recursion is written as a function on the prefixes of its input, and a claim
about all prefixes is proved by its least counterexample: were there one, there
would be a least (`LeastOf`, from the well-foundedness of the naturals), which is
not the empty prefix, and the prefix before it meets the claim.

### Only model-checked

Liveness (`OpeningEnds`, `TokenReleased`, `LostLegIsNoticed`, `RowsArrive`,
`DepthSettles`, `WatchedHasBook`) and everything about ENABLED: out of the
prover's reach. Every safety property of a passing run is a theorem, under the
assumptions above. Where one of them narrows what the code does (`OnlyPairsClose`,
`Ends = {}`, `Stays`, the start without a database), the wider case is a finding,
stands under [stated and broken](#stated-and-broken), or is what the user asked
for.

## Findings

Each is shown by a run whose property restates what the repository says.

1. `finding_fix_forgotten` (`execution/service.py:459`). A repair fails and
   the trade becomes `leg_lost`; a position poll in between turns it back to
   `open`; the plan's last action then finishes the pair, which is forgotten
   with its leg still there. The header promises that the pair is kept visible.
2. `finding_shutdown_loses` (`storage/writer.py:99`). An orderly shutdown
   cancels `flush()` in `insert_batch`; the batch it had popped is lost.
3. `finding_torn_spool` (`storage/spool.py:58`). A crash while a spool file
   is written leaves a torn line, which `read()` raises on: the first flush of
   each later start fails and nothing behind it is ever replayed.
4. `finding_delisted_gap` (`strategies/price_gap/engine.py:329`). A pair
   with a gap leaves the catalog: the gap is still among the pairs that must
   have books, is no longer measured and never ends.
5. `finding_assigned_lost` (`portfolio/service.py:571`). `assign_pair` applies
   the reconciliation again over the positions of the last poll: a leg that one
   poll missed is declared lost by the click, against the header's "on two
   polls in a row".
6. `finding_result_lost` (`execution/service.py:542`). A closing click that
   gives up forgets its orders; the click that finishes settles with its own:
   the trade is stored without its result, or without the fees of the first.

## Stated and broken

Properties stated in the modules because a comment or document says them,
broken by the code, and not among the runs:

* `Streams!NoForgottenSubscription`: `resubscribe` (`market/ws.py:58-61`) drops
  an item from `_subscribed`; when it is given up before `_sync` gets to it, no
  unsubscribe is sent and the exchange streams it until the next reconnect.
* `SharedBook!SharedBookStays`: `drop_book` takes the book from a contract
  another chosen pair uses (`engine.py:379`). It comes back (`WatchedHasBook`).
* `TradeResult!RowAddsUp`: `run_funding` saves a funding of its own over the
  one a pair was settled with (`portfolio/service.py:384`).
* `Admission!OpensPrepared`: `_warmed` is not told of new keys, so a pair opens
  on an account that was not prepared (`execution/service.py:241`;
  docs/PLAN.md:533 does say that the result of a warm-up is kept).
* `Admission!AdmittedFits`: the margin one click was promised is promised to
  the next as well (`execution/service.py:189`).
* `OutageAlarms!ToldBreakIsLasting`: a recovery in quiet hours returns before it
  clears the held-back break (`alerts/notifier.py:146`), which is then told.
* `Catalog!DecisionsLiveUntilRestart`: a decision taken without the database is
  gone with the first refresh after it came back (`instruments/service.py:258`).
* `Portfolio!ClosedStaysClosed`: `close_record` during an unresolved opening;
  the resolver later writes the row again (`portfolio/service.py:575`). So it
  does when `close_leg` finishes the pair before the resolver ends
  (`execution/service.py:639`). With `CloseRecordWhileBusy` also
  `HandLegsOwnedOnce` falls, after a restart.
* `GapAlerts!NotesAreInPlace`: a gap that ends, returns and is announced while
  the sender is busy has its note put on the older message
  (`alerts/notifier.py:129`).
* `AdapterAccounts!OkKeysNeverWithdraw`: an answer of Bybit without the list of
  wallet powers counts as "cannot withdraw" (`bybit/adapter.py:247`), so a key
  that can is shown as fine, against `core/account.py:5`.
* `AdapterAccounts!NoSilentPass`: facts an exchange did not report pass as "ok"
  (`core/account.py:6`).

Met while modelling, read in the code and without a property:

* A restart leaves a pair `opening` or `closing` with no task behind it and no
  alarm (`portfolio/service.py:236-279`, reconciliation ignores these statuses,
  344-350). `NakedLegIsAlarmed` therefore allows such a pair.
* The last closing attempt with an unknown outcome leaves the status `closing`
  (`execution/service.py:585-586`); docs/PLAN.md:575 describes an alarm.
* An incomplete poll clears `leg_lost` and says the leg was found
  (`portfolio/service.py:338-353`).
* `close_leg` is allowed while the background resolver works on the pair
  (`execution/service.py:639-641`, docs/PLAN.md:566).
* When the database is not ready at start, neither open pairs are loaded nor
  dangling rows closed, then or later (`main.py:407-414`, docs/PLAN.md:609).
* A gap that left the feed returns with its old number of readings
  (`core/episodes.py:189` clears `above_since_ms` but not `above_samples`).
* A gap of a pair without a record is finished without the recorder hearing of
  it (`engine.py:573-575`), so its row stays open and is continued by the next
  gap of the key; `recorder.py:2` says one row per gap.
* A flag set while a refresh is under way is lost in memory until the next
  refresh (`instruments/service.py:255`).
* With more pairs than `RADAR_SLICES` times `RADAR_MAX_PAIRS_PER_TICK` a pass of
  the radar takes more ticks than the doc of `_radar` says.
* Execution, portfolio and recorder each have a generator of ids, and none
  remembers its last id over a restart: `LocalIds` is about one generator in
  one run of the process.

## Not modelled

Signatures, HTTP, dates and texts of ten exchanges; the reading of book
messages into a table; ranking by interest score; SQL; the UI and the API; the
journal; logs, settings and migrations. `PROJECT.json` lists each part with its
reason. `close_all` is a loop over `close_pair`. The older program under
`reference/` runs nowhere; it and the recorder of radar samples are left out.

## Plan

In order of weight:

1. Two pairs of one token through `Execution`, with whole positions closed by
   one of them; amounts of `TradeResult` inside it.
2. `StoredDecisionsStand` for decisions that meet a refresh, once the code
   keeps them.
3. Interest score and ranking of `core/measure.py` and `interest.py` against a
   reference, beside `BookMath`.
