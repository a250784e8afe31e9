---------------------------- MODULE OrderPathProofs ----------------------------
(***************************************************************************)
(* What holds of an order on its way to the exchange.  The risk limits,    *)
(* for every catalog, every limits and any number of exchanges, key        *)
(* changes and clicks.  decide_open put to every pair of answers, whatever *)
(* is asked: what MCLegs checks up to a bound, for every quantity.  The    *)
(* nine adapters: of an order of any size, after any number of questions,  *)
(* each tells the truth or that it does not know, and keys shown as fine   *)
(* are what their check saw.  The units of the two legs: contracts of any  *)
(* size, step and limits hold and list one quantity, executed in any       *)
(* number of parts, at the margin asked for, and are closed without a      *)
(* rest.  The ranking of the pairs: prices that stand still for a pass     *)
(* over the catalog decide it, for any lists.  The funding of a pair: what *)
(* is projected is the sum of the settlements, and what is cached is what  *)
(* would be computed now, for any rates and times.  And the size the books *)
(* can take is the largest that still pays, for books of any depth.        *)
(***************************************************************************)
EXTENDS MCOrderPath, LegsProofs, FiniteSetTheorems, WellFoundedInduction

--------------------------------------------------------------------------------
(* The checks of a click *)

TradeShape(t) == t = [status |-> t.status, byHand |-> t.byHand, account |-> t.account]

(* The pairs a click opened. *)
Opened == {p \in catalog : trades[p] # None /\ ~trades[p].byHand}

(* WithinRisk, with what it takes to count: whole amounts, and finitely many    *)
(* pairs.                                                                       *)
RiskInv ==
    /\ limits.pairs \in Nat /\ limits.usd \in Nat
    /\ IsFiniteSet(catalog)
    /\ trades = [p \in catalog |-> trades[p]]
    /\ \A p \in catalog : trades[p] # None => TradeShape(trades[p])
    /\ Cardinality(Opened) <= limits.pairs
    /\ Cardinality(Opened) * NotionalUsd <= limits.usd
    /\ \A p, q \in Opened : p.token = q.token => p = q

LEMMA TimesMonotone ==
    ASSUME NEW m \in Nat, NEW n \in Nat, NEW k \in Nat, m <= n
    PROVE  m * k <= n * k
  <1>1. n = m + (n - m) /\ n - m \in Nat
    OBVIOUS
  <1>2. \A d \in Nat : (m + d) * k = m * k + d * k /\ d * k >= 0
    OBVIOUS
  <1> QED
    BY <1>1, <1>2

(* Fewer pairs pass no limit. *)
LEMMA FewerKeeps ==
    ASSUME NotionalUsd \in Nat, RiskInv, UNCHANGED choices, Opened' \subseteq Opened,
           trades' = [p \in catalog |-> trades'[p]],
           \A p \in catalog : trades'[p] # None => TradeShape(trades'[p])
    PROVE  RiskInv'
  <1>1. IsFiniteSet(Opened)
    BY FS_Subset DEF RiskInv, Opened
  <1>2. Cardinality(Opened) \in Nat /\ Cardinality(Opened') \in Nat /\ Cardinality(Opened') <= Cardinality(Opened)
    BY <1>1, FS_Subset, FS_CardinalityType
  <1>3. Cardinality(Opened') * NotionalUsd <= Cardinality(Opened) * NotionalUsd
    BY <1>2, TimesMonotone
  <1>4. \A p, q \in Opened' : p.token = q.token => p = q
    BY DEF RiskInv
  <1>5. Cardinality(Opened)' = Cardinality(Opened')
    OBVIOUS
  <1>6. Cardinality(Opened') <= limits.pairs
    BY <1>2 DEF RiskInv
  <1>7. Cardinality(Opened') * NotionalUsd \in Int /\ Cardinality(Opened) * NotionalUsd \in Int
    BY <1>2
  <1>8. Cardinality(Opened') * NotionalUsd <= limits.usd
    BY <1>3, <1>7 DEF RiskInv
  <1> QED
    BY <1>4, <1>6, <1>8 DEF RiskInv, choices

(* open_blocks looked at the same pairs an instant before, with no await between. *)
LEMMA OpenPairKeeps ==
    ASSUME NotionalUsd \in Nat, RiskInv, NEW p \in catalog, OpenPair(p)
    PROVE  RiskInv'
  <1>1. IsFiniteSet(Open) /\ Cardinality(Open) \in Nat /\ Opened \subseteq Open
    BY FS_Subset, FS_CardinalityType DEF RiskInv, Open, Opened
  <1>2. /\ ~(Cardinality(Open) >= limits.pairs)
        /\ ~(OpenNotional + NotionalUsd > limits.usd)
        /\ p.token \notin OpenTokens
    BY DEF OpenPair, OpenBlocks, OpenFacts
  <1>3. /\ UNCHANGED choices /\ trades' = [q \in catalog |-> trades'[q]]
        /\ \A q \in catalog : trades'[q] # None => TradeShape(trades'[q])
    BY DEF OpenPair, Trade, TradeShape, RiskInv
  <1>4. Opened' \subseteq Opened \cup {p}
    BY <1>3 DEF OpenPair, Trade, RiskInv, Opened, choices
  <1>5. IsFiniteSet(Open \cup {p}) /\ Cardinality(Open \cup {p}) <= Cardinality(Open) + 1
    <2>1. /\ IsFiniteSet(Open \cup {p})
          /\ Cardinality(Open \cup {p}) = IF p \in Open THEN Cardinality(Open) ELSE Cardinality(Open) + 1
      BY <1>1, FS_AddElement
    <2> QED
      BY <1>1, <2>1
  <1>6. Cardinality(Opened') \in Nat /\ Cardinality(Opened') <= Cardinality(Open) + 1
    BY <1>1, <1>4, <1>5, FS_Subset, FS_CardinalityType
  <1>7. Cardinality(Opened') <= limits.pairs
    BY <1>1, <1>2, <1>6 DEF RiskInv
  <1>8. Cardinality(Opened') * NotionalUsd <= limits.usd
    <2>1. Cardinality(Opened') * NotionalUsd <= (Cardinality(Open) + 1) * NotionalUsd
      BY <1>1, <1>6, TimesMonotone
    <2>2. (Cardinality(Open) + 1) * NotionalUsd = NotionalUsd * Cardinality(Open) + NotionalUsd
      BY <1>1
    <2>3. Cardinality(Opened') * NotionalUsd \in Int /\ NotionalUsd * Cardinality(Open) \in Int
      BY <1>1, <1>6
    <2> QED
      BY <1>2, <2>1, <2>2, <2>3 DEF OpenNotional, RiskInv
  <1>9. \A q, r \in Opened' : q.token = r.token => q = r
    BY <1>1, <1>2, <1>4 DEF OpenTokens, RiskInv
  <1> QED
    BY <1>3, <1>7, <1>8, <1>9 DEF RiskInv, choices
--------------------------------------------------------------------------------
(* core/pretrade.py: with the checks and the entry into the portfolio in one    *)
(* step, no interleaving of clicks, endings and failures takes the pairs opened *)
(* by a click past a risk limit, whatever else is assigned by hand.             *)
THEOREM RiskIsLimited ==
    ASSUME NotionalUsd \in Nat,
           Limits \subseteq [pairs : Nat, usd : Nat],
           \A list \in Catalogs : IsFiniteSet(list)
    PROVE  Spec => []WithinRisk
  <1>1. Init => RiskInv
    <2> SUFFICES ASSUME Init PROVE RiskInv
      OBVIOUS
    <2>1. Opened = {} /\ Cardinality({}) = 0
      BY FS_EmptySet DEF Init, Started, Opened
    <2> QED
      BY <2>1 DEF Init, Started, RiskInv
  <1>2. RiskInv /\ [Next]_vars => RiskInv'
    <2> SUFFICES ASSUME RiskInv, [Next]_vars
                 PROVE  RiskInv'
      OBVIOUS
    <2>1. CASE UNCHANGED <<choices, trades>>
      BY <2>1 DEF RiskInv, choices, Opened
    <2>2. ASSUME NEW p \in catalog, OpenPair(p)
          PROVE  RiskInv'
      BY <2>2, OpenPairKeeps
    <2>3. ASSUME NEW p \in catalog, AssignPair(p) \/ OpeningEnds(p) \/ Closed(p)
          PROVE  RiskInv'
      <3>1. UNCHANGED choices /\ trades' = [q \in catalog |-> trades'[q]]
        BY <2>3 DEF AssignPair, OpeningEnds, Closed, RiskInv
      <3>2. \A q \in catalog : q # p => trades'[q] = trades[q]
        BY <2>3 DEF AssignPair, OpeningEnds, Closed, RiskInv
      <3>3. trades'[p] # None => TradeShape(trades'[p]) /\ (~trades'[p].byHand => trades[p] # None /\ ~trades[p].byHand)
        <4>1. CASE AssignPair(p)
          BY <4>1 DEF AssignPair, Trade, TradeShape, RiskInv
        <4>2. CASE OpeningEnds(p)
          <5>1. trades[p] # None /\ trades'[p] \in {[trades[p] EXCEPT !.status = "open"], None}
            BY <4>2 DEF OpeningEnds, RiskInv
          <5>2. TradeShape(trades[p])
            BY <5>1 DEF RiskInv
          <5> QED  BY <5>1, <5>2 DEF TradeShape
        <4>3. CASE Closed(p)
          BY <4>3 DEF Closed, RiskInv
        <4> QED  BY <2>3, <4>1, <4>2, <4>3
      <3>4. Opened' \subseteq Opened
        BY <3>1, <3>2, <3>3 DEF Opened, choices
      <3> QED
        BY <3>1, <3>2, <3>3, <3>4, FewerKeeps DEF RiskInv
    <2>4. CASE Warmup
      BY <2>1, <2>4 DEF Warmup, StartWarm, WarmAnswered, WarmFails, RetryDue, tradeVars
    <2>5. CASE Facts
      BY <2>1, <2>5 DEF Facts, BalanceComes, BalanceAges, KeysReplaced, KeysChecked, MaintenanceEnds, tradeVars
    <2>6. CASE Trading
      BY <2>1, <2>2, <2>3, <2>6 DEF Trading, OrderRefused, OpenReturns, tradeVars
    <2> QED
      BY <2>1, <2>4, <2>5, <2>6 DEF Next, vars, tradeVars
  <1>3. RiskInv => WithinRisk
    BY DEF RiskInv, WithinRisk, Opened
  <1> QED
    BY <1>1, <1>2, <1>3, PTL DEF Spec

--------------------------------------------------------------------------------
(* The decision on the two legs *)

(* Answers and limits are numbers, and a plan is what decide_open makes of them. *)
AskedAsStated ==
    /\ wanted \in Nat \ {0}
    /\ lot \in Nat \ {0}
    /\ least \in Nat
    /\ longLeg.filled \in 0 .. wanted
    /\ shortLeg.filled \in 0 .. wanted
    /\ plan = NotAsked \/ plan = DecideOpen(longLeg, shortLeg, wanted, lot, least)

LEMMA StaysAsStated == PlanSpec => []AskedAsStated
  <1>1. PlanInit => AskedAsStated
    BY DEF PlanInit, AskedAsStated, Answers
  <1>2. AskedAsStated /\ [Ask]_planVars => AskedAsStated'
    BY DEF AskedAsStated, Ask, planVars
  <1> QED  BY <1>1, <1>2, PTL DEF PlanSpec

(* core/legs.py decide_open, for all answers, steps and minima: once its orders  *)
(* fill, the legs of a decided pair are equal, and an open one is worth keeping. *)
THEOREM PlansHedge == PlanSpec => []PlanHedges
  <1>1. ASSUME AskedAsStated, plan.mark \in {"open", "failed"}
        PROVE  /\ Hedges(plan, [s \in Sides |-> IF s = "long" THEN longLeg.filled ELSE shortLeg.filled])
               /\ plan.mark = "open" => plan.qty > 0 /\ (plan.qty >= least \/ plan.qty = wanted)
    <2>1. plan = DecideOpen(longLeg, shortLeg, wanted, lot, least)
      BY <1>1 DEF AskedAsStated, NotAsked
    <2>2. /\ wanted \in Nat \ {0} /\ lot \in Nat \ {0} /\ least \in Nat
          /\ longLeg.filled \in Nat /\ shortLeg.filled \in Nat
      BY <1>1 DEF AskedAsStated
    <2>3. Hedges(plan, [s \in Sides |-> IF s = "long" THEN longLeg.filled ELSE shortLeg.filled])
      BY <1>1, <2>1, <2>2, DecideOpenHedges
    <2>4. plan.mark = "open" => plan.qty > 0 /\ (plan.qty >= least \/ plan.qty = wanted)
      <3> DEFINE target == FloorToStep(Lesser(longLeg.filled, shortLeg.filled), lot)
      <3>1. target \in Nat
        BY <2>2, TargetRange
      <3>2. plan.mark = "open" => plan.qty = wanted \/ (plan.qty = target /\ ~(target < least \/ target = 0))
        <4> HIDE DEF target
        <4> QED  BY <2>1 DEF DecideOpen, QueryPlan, Plan, target
      <3> HIDE DEF target
      <3> QED  BY <2>2, <3>1, <3>2
    <2> QED  BY <2>3, <2>4
  <1>2. AskedAsStated => PlanHedges
    BY <1>1 DEF PlanHedges
  <1> QED  BY <1>2, StaysAsStated, PTL

(* The same for its alarms: no repair and no unknown leg goes unreported. *)
THEOREM PlansAlert == PlanSpec => []PlanAlerts
  <1>1. AskedAsStated => PlanAlerts
    BY DecideOpenAlerts DEF AskedAsStated, PlanAlerts
  <1> QED  BY <1>1, StaysAsStated, PTL

--------------------------------------------------------------------------------
(* The orders of the adapters *)

Adapters ==
    {"binance", "aster", "bingx", "bybit", "bitget", "mexc", "gate", "kucoin", "hyperliquid"}

(* Orders are of one unit at least, and None is neither a report nor a call.    *)
OrdersApart ==
    /\ Req \in Nat \ {0}
    /\ TradingVenues \subseteq Adapters
    /\ \A o, s, f : None # Orders!Report(o, s, f)
    /\ \A b, a, k, p, s, g : None # Orders!Call(b, a, k, p, s, g)
    /\ None \notin {"place", "seen", "unseen"}

States == {"unsent", "travelling", "live", "refused", "lost", "done"}

(* The exchange is done with the order, with n units. *)
Settled(n) == (order.state = "done" /\ n = order.filled) \/ (order.state \in {"refused", "lost"} /\ n = 0)

(* A report that takes nothing for certain but what will stay. *)
Honest(r) == r # Orders!NotFound /\ (r.outcome = "unknown" \/ Settled(r.filled))

(* Records of the order, as an exchange has it. *)
OrderShape ==
    /\ exchange \in Adapters
    /\ order = [state |-> order.state, filled |-> order.filled, seen |-> order.seen, expired |-> order.expired]
    /\ order.state \in States /\ order.filled \in 0 .. Req
    /\ order.seen \in BOOLEAN /\ order.expired \in BOOLEAN
    /\ order.seen => order.state \in {"live", "done"}
    /\ order.expired => order.state = "done"

LEMMA ByWordHonest ==
    ASSUME NEW word, NEW full, NEW closed, NEW f, word # "not_found",
           order.state = "done" => (word \in full \cup closed) /\ f = order.filled,
           order.state = "live" => word \notin full \cup closed,
           order.state \in {"live", "done"}
    PROVE  Honest(Orders!ByWord(word, full, closed, f))
  <1>1. Orders!ByWord(word, full, closed, f).status = word
    BY DEF Orders!ByWord, Orders!Report
  <1>2. Orders!ByWord(word, full, closed, f).filled = f
    BY DEF Orders!ByWord, Orders!Report
  <1>3. order.state = "live" => Orders!ByWord(word, full, closed, f).outcome = "unknown"
    BY DEF Orders!ByWord, Orders!Report
  <1> QED  BY <1>1, <1>2, <1>3 DEF Honest, Settled, Orders!NotFound, Orders!Report

LEMMA ByAmountHonest ==
    ASSUME NEW word, NEW f, word # "not_found", order.state = "done", f = order.filled
    PROVE  Honest(Orders!ByAmount(word, f))
  BY DEF Honest, Settled, Orders!ByAmount, Orders!NotFound, Orders!Report

LEMMA UnknownHonest ==
    ASSUME NEW word, NEW f
    PROVE  Honest(Orders!Report("unknown", word, f))
  BY DEF Honest, Orders!NotFound, Orders!Report

(* parse_order of each exchange, put to the records it has. *)
ParsedOf(raw) ==
    CASE exchange \in {"binance", "aster"} -> Orders!BinanceParseOrder(raw)
      [] exchange = "bingx" -> Orders!BingxParseOrder(raw)
      [] exchange = "bybit" -> Orders!BybitParseOrder(raw)
      [] exchange = "bitget" -> Orders!BitgetParseOrder(raw)
      [] exchange = "mexc" -> Orders!MexcParseOrder(raw)
      [] exchange = "gate" -> Orders!GateParseOrder(raw)
      [] exchange = "kucoin" -> Orders!KucoinParseOrder(raw)
      [] exchange = "hyperliquid" -> Orders!HyperliquidParseOrderStatus(raw)

LEMMA RecordHonest ==
    ASSUME Req \in Nat \ {0}, OrderShape, order.state \in {"live", "done"}, NEW raw \in Orders!Records
    PROVE  Honest(ParsedOf(raw))
  <1>1. CASE exchange \in {"binance", "aster"}
    <2>1. raw \in [status : Orders!Word({"NEW", "PARTIALLY_FILLED"}, {"FILLED"}, {"EXPIRED", "CANCELED"}), executedQty : {order.filled}]
      BY <1>1 DEF Orders!Records
    <2>2. ParsedOf(raw) = Orders!BinanceParseOrder(raw)
      BY <1>1 DEF ParsedOf
    <2> QED  BY <2>1, <2>2, ByWordHonest DEF Orders!BinanceParseOrder, Orders!Word
  <1>2. CASE exchange = "bingx"
    <2>1. raw \in [status : Orders!Word({"PENDING"}, {"FILLED"}, {"CANCELLED", "FAILED"}), executedQty : {order.filled}]
      BY <1>2 DEF Orders!Records
    <2>2. ParsedOf(raw) = Orders!BingxParseOrder(raw)
      BY <1>2 DEF ParsedOf
    <2> QED  BY <2>1, <2>2, ByWordHonest DEF Orders!BingxParseOrder, Orders!Word
  <1>3. CASE exchange = "bybit"
    <2>1. raw \in [orderStatus : Orders!Word({"New"}, {"Filled"}, {"Cancelled", "PartiallyFilledCanceled"}), cumExecQty : {order.filled}]
      BY <1>3 DEF Orders!Records
    <2>2. ParsedOf(raw) = Orders!BybitParseOrder(raw)
      BY <1>3 DEF ParsedOf
    <2> QED  BY <2>1, <2>2, ByWordHonest DEF Orders!BybitParseOrder, Orders!Word
  <1>4. CASE exchange = "bitget"
    <2>1. raw \in [state : Orders!Word({"live", "partially_filled"}, {"filled"}, {"canceled"}), baseVolume : {order.filled}]
      BY <1>4 DEF Orders!Records
    <2>2. ParsedOf(raw) = Orders!BitgetParseOrder(raw)
      BY <1>4 DEF ParsedOf
    <2> QED  BY <2>1, <2>2, ByWordHonest DEF Orders!BitgetParseOrder, Orders!Word
  <1>5. CASE exchange = "mexc"
    <2>1. raw \in [state : Orders!Word({"1", "2"}, {"3"}, {"4", "5"}), dealVol : {order.filled}]
      BY <1>5 DEF Orders!Records
    <2>2. ParsedOf(raw) = Orders!MexcParseOrder(raw)
      BY <1>5 DEF ParsedOf
    <2> QED  BY <2>1, <2>2, ByWordHonest DEF Orders!MexcParseOrder, Orders!Word
  <1>6. CASE exchange = "gate"
    <2>1. raw \in [status : Orders!Word({"open"}, {"finished"}, {"finished"}), size : {-Req, Req},
                   left : {Req - order.filled, order.filled - Req}]
      BY <1>6 DEF Orders!Records
    <2>2. ParsedOf(raw) = Orders!GateParseOrder(raw)
      BY <1>6 DEF ParsedOf
    <2>3. Orders!Abs(raw.size) - Orders!Abs(raw.left) = order.filled
      BY <2>1 DEF Orders!Abs, OrderShape
    <2>4. CASE order.state = "live"
      <3>1. raw.status = "open"
        BY <2>1, <2>4 DEF Orders!Word
      <3> QED  BY <2>2, <3>1, UnknownHonest DEF Orders!GateParseOrder
    <2>5. CASE order.state = "done"
      <3>1. raw.status = "finished"
        BY <2>1, <2>5 DEF Orders!Word
      <3> QED  BY <2>2, <2>3, <2>5, <3>1, ByAmountHonest DEF Orders!GateParseOrder
    <2> QED  BY <2>4, <2>5
  <1>7. CASE exchange = "kucoin"
    <2>1. raw \in [status : Orders!Word({"open"}, {"done"}, {"done"}), isActive : {order.state = "live"}, filledSize : {order.filled}]
      BY <1>7 DEF Orders!Records
    <2>2. ParsedOf(raw) = Orders!KucoinParseOrder(raw)
      BY <1>7 DEF ParsedOf
    <2>3. raw.filledSize = order.filled /\ raw.isActive = (order.state = "live")
      BY <2>1
    <2>4. CASE order.state = "live"
      <3>1. raw.status = "open" /\ raw.isActive
        BY <2>1, <2>3, <2>4 DEF Orders!Word
      <3> QED  BY <2>2, <3>1, UnknownHonest DEF Orders!KucoinParseOrder
    <2>5. CASE order.state = "done"
      <3>1. raw.status = "done"
        BY <2>1, <2>5 DEF Orders!Word
      <3> QED  BY <2>2, <2>3, <2>5, <3>1, ByAmountHonest DEF Orders!KucoinParseOrder
    <2> QED  BY <2>4, <2>5
  <1>8. CASE exchange = "hyperliquid"
    <2>1. raw \in [status : Orders!Word({"open"}, {"filled"}, {"canceled"}), origSz : {Req}, sz : {Req - order.filled}]
      BY <1>8 DEF Orders!Records
    <2>2. ParsedOf(raw) = Orders!HyperliquidParseOrderStatus(raw)
      BY <1>8 DEF ParsedOf
    <2>3. raw.origSz - raw.sz = order.filled
      BY <2>1 DEF OrderShape
    <2>4. CASE order.state = "live"
      <3>1. raw.status = "open"
        BY <2>1, <2>4 DEF Orders!Word
      <3> QED  BY <2>2, <3>1, UnknownHonest DEF Orders!HyperliquidParseOrderStatus
    <2>5. CASE order.state = "done"
      <3>1. raw.status \in {"filled", "canceled"}
        BY <2>1, <2>5 DEF Orders!Word
      <3> QED  BY <2>2, <2>3, <2>5, <3>1, ByAmountHonest DEF Orders!HyperliquidParseOrderStatus
    <2> QED  BY <2>4, <2>5
  <1> QED  BY <1>1, <1>2, <1>3, <1>4, <1>5, <1>6, <1>7, <1>8 DEF OrderShape, Adapters

(* What a call under way knows. *)
CallKnows ==
    /\ call = Orders!Call(call.by, call.at, call.k, call.polls, call.seen, call.got)
    /\ call.by \in {"place", "fetch"}
    /\ call.at \in {"book", "order", "return", "sleep", "status"}
    /\ call.at # "status" => call.by = "place"
    /\ call.at = "book" => order.state = "travelling"
    /\ call.at = "return" => Honest(call.got) /\ call.got # None
    /\ call.at \in {"sleep", "status"} /\ call.by = "place" => report.outcome = "unknown" /\ report # None

(* An endpoint that did not show an order the exchange shows has left it to the *)
(* next one, and the last of them shows it.                                     *)
AskedWhere(k) ==
    /\ exchange = "gate" => k \in 1 .. 3
    /\ exchange = "bybit" => k \in 1 .. 2
    /\ call.by = "fetch" /\ call.seen =>
          /\ order.seen
          /\ exchange \in {"bybit", "gate"} /\ k = 2 => order.state = "done"
          /\ exchange = "gate" => k # 3

CallInv ==
    call # None =>
        /\ CallKnows
        /\ order.state # "unsent"
        /\ call.at = "status" =>
              /\ AskedWhere(call.k)
              /\ exchange = "hyperliquid" /\ call.k = 2 => Honest(call.got) /\ call.got # None

OrderInv ==
    /\ OrderShape
    /\ order.state = "unsent" => said = None
    /\ CallInv

LEMMA ErrorsHonest ==
    ASSUME NEW answer
    PROVE  /\ answer.kind = "cut" => Honest(Orders!OrderError(answer))
           /\ Settled(0) => Honest(Orders!OrderError(answer))
           /\ answer.kind # "missing" => Honest(Orders!StatusError(answer))
           /\ Honest(Orders!Submitted)
           /\ \A word : Honest(Orders!Unknown(word))
  BY DEF Honest, Orders!OrderError, Orders!StatusError, Orders!IsUnknownOutcomeError, Orders!NotFound, Orders!Report,
         Orders!Unknown, Orders!Submitted

(* The answers of a status endpoint: the truth, a failure, or an absence. *)
LEMMA StatusAnswersAre ==
    ASSUME OrderShape, NEW k, NEW answer \in Orders!StatusAnswers(k), ~(exchange = "hyperliquid" /\ k = 2)
    PROVE  \/ answer = Orders!Failed("cut") \/ answer = Orders!Failed("refused")
           \/ \E raw \in Orders!Records : order.seen /\ answer = Orders!Record(raw)
           \/ \E shown \in Orders!Shows(k) : ~(order.seen /\ shown) /\ answer \in Orders!Absences(k)
  BY Zenon DEF Orders!StatusAnswers

(* What a question gives: an honest report; or nothing yet, or "not found",     *)
(* which an order that is shown is never called.                                *)
Told(r, k) ==
    \/ Honest(r) /\ r # None
    \/ r = Orders!NotFound /\ ~(call.by = "fetch" /\ call.seen)
    \/ r = None /\ exchange \in {"bybit", "gate"} /\ AskedWhere(k + 1)

LEMMA AbsenceIsTold ==
    ASSUME OrdersApart, OrderShape, NEW k, AskedWhere(k), NEW shown \in Orders!Shows(k), ~(order.seen /\ shown),
           exchange # "hyperliquid" \/ k # 2,
           NEW answer \in Orders!Absences(k)
    PROVE  Told(Orders!FetchOrder(k, answer, call.got), k)
  <1>1. answer.kind \in {"missing", "empty"} /\ ~Orders!IsRecord(answer)
    BY DEF Orders!Absences, Orders!Failed, Orders!IsRecord
  <1>2. CASE exchange = "gate"
    <2>1. answer.kind = IF k = 1 THEN "missing" ELSE "empty"
      BY <1>2 DEF Orders!Absences, Orders!Failed
    <2>2. Orders!FetchOrder(k, answer, call.got) = IF k < 3 THEN None ELSE Orders!NotFound
      BY <1>1, <1>2, <2>1 DEF Orders!FetchOrder, Orders!GateFetchOrder
    <2>3. shown = CASE k = 1 -> ~order.expired [] k = 2 -> order.state = "done" [] k = 3 -> order.state = "live"
      BY <1>2 DEF Orders!Shows
    <2>4. k \in 1 .. 3
      BY <1>2 DEF AskedWhere
    <2>5. ASSUME call.by = "fetch", call.seen PROVE k = 1 /\ order.state = "done"
      <3>1. order.seen /\ k # 3 /\ (k = 2 => order.state = "done")
        BY <1>2, <2>5 DEF AskedWhere
      <3>2. CASE k = 1
        BY <2>3, <3>1, <3>2 DEF OrderShape
      <3>3. CASE k = 2
        BY <2>3, <3>1, <3>3
      <3> QED  BY <2>4, <3>1, <3>2, <3>3
    <2> QED  BY <1>2, <2>2, <2>4, <2>5 DEF Told, AskedWhere
  <1>3. CASE exchange = "bybit"
    <2>1. answer.kind = "empty"
      BY <1>3 DEF Orders!Absences, Orders!Failed
    <2>2. Orders!FetchOrder(k, answer, call.got) = IF k = 1 THEN None ELSE Orders!NotFound
      BY <1>1, <1>3, <2>1 DEF Orders!FetchOrder, Orders!BybitFetchOrder
    <2>3. order.state = "live" => shown = (k = 1)
      BY <1>3 DEF Orders!Shows
    <2>4. order.state # "live" => shown \in {k = 2, TRUE}
      BY <1>3 DEF Orders!Shows
    <2>5. ASSUME call.by = "fetch", call.seen PROVE k = 1 /\ order.state = "done"
      <3>1. order.seen /\ order.state \in {"live", "done"} /\ (k = 2 => order.state = "done") /\ k \in 1 .. 2
        BY <1>3, <2>5 DEF AskedWhere, OrderShape
      <3>2. ~shown
        BY <3>1
      <3>3. CASE order.state = "live"
        <4>1. k # 1
          BY <2>3, <3>2, <3>3
        <4> QED  BY <3>1, <3>3, <4>1
      <3>4. CASE order.state = "done"
        <4>1. k # 2
          BY <2>4, <3>2, <3>4
        <4> QED  BY <3>1, <3>4, <4>1
      <3> QED  BY <3>1, <3>3, <3>4
    <2> QED  BY <1>3, <2>2, <2>5 DEF Told, AskedWhere
  <1>4. CASE exchange \notin {"gate", "bybit"}
    <2>1. shown = TRUE
      BY <1>4 DEF Orders!Shows
    <2>2. ~(call.by = "fetch" /\ call.seen)
      BY <2>1 DEF AskedWhere
    <2>3. \/ Orders!FetchOrder(k, answer, call.got) = Orders!NotFound
          \/ \E word : Orders!FetchOrder(k, answer, call.got) = Orders!Unknown(word)
      BY <1>1, <1>4 DEF Orders!FetchOrder, Orders!BinanceFetchOrder, Orders!AsterFetchOrder, Orders!BingxFetchOrder,
             Orders!BitgetFetchOrder, Orders!MexcFetchOrder, Orders!KucoinFetchOrder, Orders!HyperliquidFetchOrder,
             Orders!StatusError, OrderShape, Adapters
    <2> QED  BY <2>2, <2>3, ErrorsHonest DEF Told, Orders!Unknown, OrdersApart
  <1> QED  BY <1>2, <1>3, <1>4

LEMMA AnswerIsTold ==
    ASSUME OrdersApart, OrderShape, NEW k, AskedWhere(k), exchange = "hyperliquid" /\ k = 2 => Honest(call.got) /\ call.got # None,
           NEW answer \in Orders!StatusAnswers(k)
    PROVE  Told(Orders!FetchOrder(k, answer, call.got), k)
  <1>1. CASE exchange = "hyperliquid" /\ k = 2
    <2>1. \/ Orders!FetchOrder(k, answer, call.got) = call.got
          \/ Orders!FetchOrder(k, answer, call.got) = Orders!Unknown("error")
      BY <1>1 DEF Orders!FetchOrder, Orders!HyperliquidFetchOrder
    <2> QED  BY <1>1, <2>1, ErrorsHonest DEF Told, Orders!Unknown, OrdersApart
  <1>2. CASE ~(exchange = "hyperliquid" /\ k = 2)
    <2>1. CASE answer = Orders!Failed("cut") \/ answer = Orders!Failed("refused")
      <3>1. answer.kind \in {"cut", "refused"} /\ ~Orders!IsRecord(answer)
        BY <2>1 DEF Orders!Failed, Orders!IsRecord
      <3>2. Orders!FetchOrder(k, answer, call.got) = Orders!Unknown("error")
        BY <1>2, <3>1 DEF Orders!FetchOrder, Orders!BinanceFetchOrder, Orders!AsterFetchOrder, Orders!BingxFetchOrder,
             Orders!BybitFetchOrder, Orders!GateFetchOrder,
             Orders!BitgetFetchOrder, Orders!MexcFetchOrder, Orders!KucoinFetchOrder, Orders!HyperliquidFetchOrder,
             Orders!StatusError, OrderShape, Adapters
      <3> QED  BY <3>2, ErrorsHonest DEF Told, Orders!Unknown, OrdersApart
    <2>2. ASSUME NEW raw \in Orders!Records, order.seen, answer = Orders!Record(raw)
          PROVE  Told(Orders!FetchOrder(k, answer, call.got), k)
      <3>1. Orders!IsRecord(answer) /\ answer.raw = raw
        BY <2>2 DEF Orders!Record, Orders!IsRecord
      <3>2. Orders!FetchOrder(k, answer, call.got) = ParsedOf(raw)
        BY <1>2, <3>1 DEF Orders!FetchOrder, Orders!BinanceFetchOrder, Orders!AsterFetchOrder, Orders!BingxFetchOrder,
             Orders!BybitFetchOrder, Orders!GateFetchOrder,
             Orders!BitgetFetchOrder, Orders!MexcFetchOrder, Orders!KucoinFetchOrder, Orders!HyperliquidFetchOrder,
             ParsedOf, OrderShape, Adapters
      <3>3. Honest(ParsedOf(raw))
        BY <2>2, RecordHonest DEF OrderShape, OrdersApart
      <3>4. ParsedOf(raw) # None
        BY DEF ParsedOf, OrderShape, Adapters, OrdersApart, Orders!BinanceParseOrder, Orders!BingxParseOrder, Orders!BybitParseOrder,
               Orders!BitgetParseOrder, Orders!MexcParseOrder, Orders!GateParseOrder, Orders!KucoinParseOrder,
               Orders!HyperliquidParseOrderStatus, Orders!ByWord, Orders!ByAmount
      <3> QED  BY <3>2, <3>3, <3>4 DEF Told
    <2>3. ASSUME NEW shown \in Orders!Shows(k), ~(order.seen /\ shown), answer \in Orders!Absences(k)
          PROVE  Told(Orders!FetchOrder(k, answer, call.got), k)
      BY <1>2, <2>3, AbsenceIsTold
    <2> QED  BY <1>2, <2>1, <2>2, <2>3, StatusAnswersAre
  <1> QED  BY <1>1, <1>2

LEMMA AnswerToOrderHonest ==
    ASSUME OrdersApart, OrderShape, order.state # "unsent", NEW answer \in Orders!OrderAnswers
    PROVE  Honest(Orders!PlaceMarketOrder(answer))
  <1>1. CASE answer = Orders!Failed("cut") \/ (answer = Orders!Failed("refused") /\ Settled(0))
    <2>1. ~Orders!IsRecord(answer)
      BY <1>1 DEF Orders!Failed, Orders!IsRecord
    <2>2. Orders!PlaceMarketOrder(answer) = Orders!OrderError(answer)
      BY <2>1 DEF Orders!PlaceMarketOrder, Orders!BinancePlaceMarketOrder, Orders!AsterPlaceMarketOrder,
         Orders!BingxPlaceMarketOrder, Orders!BybitPlaceMarketOrder, Orders!BitgetPlaceMarketOrder,
         Orders!MexcPlaceMarketOrder, Orders!GatePlaceMarketOrder, Orders!KucoinPlaceMarketOrder,
         Orders!HyperliquidPlaceMarketOrder, OrderShape, Adapters
    <2> QED  BY <1>1, <2>2, ErrorsHonest DEF Orders!Failed
  <1>2. CASE exchange \in Orders!ByIdOnly /\ answer = Orders!Record("id")
    <2>1. Orders!IsRecord(answer)
      BY <1>2 DEF Orders!Record, Orders!IsRecord
    <2>2. Orders!PlaceMarketOrder(answer) = Orders!Submitted
      BY <1>2, <2>1 DEF Orders!PlaceMarketOrder, Orders!ByIdOnly,
         Orders!BingxPlaceMarketOrder, Orders!BybitPlaceMarketOrder, Orders!BitgetPlaceMarketOrder,
         Orders!MexcPlaceMarketOrder, Orders!KucoinPlaceMarketOrder
    <2> QED  BY <2>2, ErrorsHonest
  <1>3. ASSUME NEW raw \in Orders!Records, answer = Orders!Record(raw), exchange \notin Orders!ByIdOnly \cup {"hyperliquid"},
               order.state \in {"live", "done"}
        PROVE  Honest(Orders!PlaceMarketOrder(answer))
    <2>1. Orders!IsRecord(answer) /\ answer.raw = raw
      BY <1>3 DEF Orders!Record, Orders!IsRecord
    <2>2. Orders!PlaceMarketOrder(answer) = ParsedOf(raw)
      BY <1>3, <2>1 DEF Orders!PlaceMarketOrder, Orders!ByIdOnly, ParsedOf, OrderShape, Adapters,
         Orders!BinancePlaceMarketOrder, Orders!AsterPlaceMarketOrder, Orders!GatePlaceMarketOrder
    <2> QED  BY <1>3, <2>2, RecordHonest DEF OrdersApart
  <1>4. CASE exchange = "hyperliquid" /\ order.state = "live" /\ answer = Orders!Record([oid |-> "resting"])
    <2>1. Orders!IsRecord(answer) /\ answer.raw = [oid |-> "resting"]
      BY <1>4 DEF Orders!Record, Orders!IsRecord
    <2>2. Orders!PlaceMarketOrder(answer) = Orders!Unknown("resting")
      BY <1>4, <2>1 DEF Orders!PlaceMarketOrder, Orders!HyperliquidPlaceMarketOrder, Orders!HyperliquidParseSubmit
    <2> QED  BY <2>2, ErrorsHonest
  <1>5. CASE exchange = "hyperliquid" /\ order.state = "done" /\ answer = Orders!Record([totalSz |-> order.filled])
    <2>1. Orders!IsRecord(answer) /\ answer.raw = [totalSz |-> order.filled]
      BY <1>5 DEF Orders!Record, Orders!IsRecord
    <2>2. /\ Orders!PlaceMarketOrder(answer).filled = order.filled
          /\ Orders!PlaceMarketOrder(answer).status = "filled"
      BY <1>5, <2>1 DEF Orders!PlaceMarketOrder, Orders!HyperliquidPlaceMarketOrder, Orders!HyperliquidParseSubmit,
         Orders!Report
    <2> QED  BY <1>5, <2>2 DEF Honest, Settled, Orders!NotFound, Orders!Report
  <1>6. \/ answer = Orders!Failed("cut") \/ (answer = Orders!Failed("refused") /\ Settled(0))
        \/ exchange \in Orders!ByIdOnly /\ answer = Orders!Record("id")
        \/ exchange \notin Orders!ByIdOnly \cup {"hyperliquid"} /\ order.state \in {"live", "done"}
              /\ \E raw \in Orders!Records : answer = Orders!Record(raw)
        \/ exchange = "hyperliquid" /\ order.state = "live" /\ answer = Orders!Record([oid |-> "resting"])
        \/ exchange = "hyperliquid" /\ order.state = "done" /\ answer = Orders!Record([totalSz |-> order.filled])
    <2>1. CASE answer = Orders!Failed("cut")
      BY <2>1
    <2>2. CASE order.state \in {"travelling", "lost"}
      BY <2>2, <2>1 DEF Orders!OrderAnswers
    <2>3. CASE order.state = "refused"
      BY <2>3, <2>1 DEF Orders!OrderAnswers, Settled
    <2>4. CASE order.state \in {"live", "done"} /\ exchange \in Orders!ByIdOnly
      BY <2>4, <2>1 DEF Orders!OrderAnswers
    <2>5. CASE order.state \in {"live", "done"} /\ exchange \notin Orders!ByIdOnly \cup {"hyperliquid"}
      BY <2>5, <2>1 DEF Orders!OrderAnswers
    <2>6. CASE order.state = "live" /\ exchange = "hyperliquid"
      BY <2>6, <2>1 DEF Orders!OrderAnswers, Orders!ByIdOnly
    <2>7. CASE order.state = "done" /\ exchange = "hyperliquid"
      BY <2>7, <2>1 DEF Orders!OrderAnswers, Orders!ByIdOnly, Settled
    <2> QED  BY <2>2, <2>3, <2>4, <2>5, <2>6, <2>7 DEF OrderShape, States
  <1> QED  BY <1>1, <1>2, <1>3, <1>4, <1>5, <1>6

(* What the promise is about: the ends the order may still come to, the         *)
(* question under way, and what was said last.                                  *)
Truth ==
    CASE order.state = "unsent" -> {}
      [] order.state = "done" -> {order.filled}
      [] order.state \in {"refused", "lost"} -> {0}
      [] OTHER -> 0 .. Req

Asked ==
    IF call = None THEN None
    ELSE IF call.by = "place" THEN "place"
    ELSE IF call.seen THEN "seen" ELSE "unseen"

Verdict ==
    IF said = None THEN [word |-> "nothing", units |-> 0]
    ELSE IF said = Orders!NotFound THEN [word |-> "absent", units |-> 0]
    ELSE IF said.outcome = "unknown" THEN [word |-> "unknown", units |-> 0]
    ELSE [word |-> "final", units |-> said.filled]

(* Steps of the promise. *)
Promised == [Orders!Verdict!Next]_(Orders!Verdict!vars)

LEMMA SameIsPromised ==
    ASSUME Truth' = Truth, order'.seen = order.seen, Asked' = Asked, Verdict' = Verdict
    PROVE  Promised
  BY Zenon DEF Truth, Asked, Verdict, Promised, Orders!Verdict!vars

LEMMA EndIsPromised ==
    ASSUME Truth = 0 .. Req, NEW n \in 0 .. Req, Truth' = {n}, order'.seen = order.seen, Asked' = Asked, Verdict' = Verdict
    PROVE  Promised
  BY Zenon DEF Truth, Asked, Verdict, Promised, Orders!Verdict!Next, Orders!Verdict!End, Orders!Verdict!Amounts

LEMMA ShowIsPromised ==
    ASSUME Truth # {}, Truth' = Truth, ~order.seen, order'.seen = TRUE, Asked' = Asked, Verdict' = Verdict
    PROVE  Promised
  BY Zenon DEF Truth, Asked, Verdict, Promised, Orders!Verdict!Next, Orders!Verdict!Show

LEMMA PlaceIsPromised ==
    ASSUME Truth = {}, Asked = None, Truth' = 0 .. Req, Asked' = "place", order'.seen = order.seen, Verdict' = Verdict
    PROVE  Promised
  BY Zenon DEF Truth, Asked, Verdict, Promised, Orders!Verdict!Next, Orders!Verdict!Place, Orders!Verdict!Amounts

LEMMA AskIsPromised ==
    ASSUME Truth # {}, Asked = None, Truth' = Truth, Asked' = IF order.seen THEN "seen" ELSE "unseen",
           order'.seen = order.seen, Verdict' = Verdict
    PROVE  Promised
  BY Zenon DEF Truth, Asked, Verdict, Promised, Orders!Verdict!Next, Orders!Verdict!Ask

LEMMA AnswerIsPromised ==
    ASSUME Asked # None, Asked' = None, Truth' = Truth, order'.seen = order.seen,
           \/ Verdict' = [word |-> "unknown", units |-> 0]
           \/ \E n \in 0 .. Req : Truth = {n} /\ Verdict' = [word |-> "final", units |-> n]
           \/ Asked = "unseen" /\ Verdict' = [word |-> "absent", units |-> 0]
    PROVE  Promised
  BY Zenon DEF Truth, Asked, Verdict, Promised, Orders!Verdict!Next, Orders!Verdict!Answer, Orders!Verdict!Amounts,
               Orders!Verdict!Said, Orders!Verdict!Final

LEMMA CallStays ==
    ASSUME OrderInv, UNCHANGED <<exchange, call, report, said>>, OrderShape',
           order.state # "unsent", order'.state # "unsent", order.seen => order'.seen,
           \A n : Settled(n) => Settled(n)',
           order.state = "done" => order'.state = "done",
           Orders!At("book") => order'.state = order.state
    PROVE  OrderInv' /\ Asked' = Asked /\ Verdict' = Verdict
  <1>1. \A r : Honest(r) => Honest(r)'
    BY DEF Honest
  <1>2. Asked' = Asked /\ Verdict' = Verdict
    BY DEF Asked, Verdict
  <1>3. ASSUME call # None PROVE CallKnows'
    BY <1>1, <1>3 DEF OrderInv, CallInv, CallKnows, Orders!At
  <1>4. ASSUME call # None, call.at = "status" PROVE AskedWhere(call.k)'
    BY <1>4 DEF OrderInv, CallInv, AskedWhere
  <1>5. CallInv'
    BY <1>1, <1>3, <1>4 DEF OrderInv, CallInv
  <1> QED  BY <1>2, <1>5 DEF OrderInv

LEMMA ExchangeActs ==
    ASSUME OrdersApart, OrderInv,
           Orders!Arrive \/ Orders!Match \/ Orders!End \/ Orders!Show \/ Orders!Expire
    PROVE  OrderInv' /\ Promised
  <1>1. CASE Orders!Arrive
    <2>1. PICK s \in {"live", "refused", "lost"} : order' = [order EXCEPT !.state = s]
      BY <1>1 DEF Orders!Arrive
    <2>2. order' = [state |-> s, filled |-> order.filled, seen |-> order.seen, expired |-> order.expired]
      BY <2>1 DEF OrderInv, OrderShape
    <2>3. order.state = "travelling" /\ ~Orders!At("book") /\ UNCHANGED <<exchange, call, report, said>>
      BY <1>1 DEF Orders!Arrive
    <2>4. OrderShape'
      BY <2>2, <2>3 DEF OrderInv, OrderShape, States
    <2>5. OrderInv' /\ Asked' = Asked /\ Verdict' = Verdict
      BY <2>2, <2>3, <2>4, CallStays DEF Settled
    <2>6. Truth = 0 .. Req /\ order'.seen = order.seen
      BY <2>2, <2>3 DEF Truth
    <2>7. Truth' = IF s = "live" THEN 0 .. Req ELSE {0}
      BY <2>2 DEF Truth
    <2> QED  BY <2>5, <2>6, <2>7, SameIsPromised, EndIsPromised DEF OrdersApart
  <1>2. CASE Orders!Match
    <2>1. order' = [state |-> "live", filled |-> order.filled + 1, seen |-> order.seen, expired |-> order.expired]
      BY <1>2 DEF Orders!Match, OrderInv, OrderShape
    <2>2. order.state = "live" /\ order.filled < Req /\ UNCHANGED <<exchange, call, report, said>>
      BY <1>2 DEF Orders!Match
    <2>3. OrderShape'
      BY <2>1, <2>2 DEF OrderInv, OrderShape, States, OrdersApart
    <2>4. OrderInv' /\ Asked' = Asked /\ Verdict' = Verdict
      BY <2>1, <2>2, <2>3, CallStays DEF Settled
    <2>5. Truth' = Truth /\ order'.seen = order.seen
      BY <2>1, <2>2 DEF Truth
    <2> QED  BY <2>4, <2>5, SameIsPromised
  <1>3. CASE Orders!End
    <2>1. order' = [state |-> "done", filled |-> order.filled, seen |-> order.seen, expired |-> order.expired]
      BY <1>3 DEF Orders!End, OrderInv, OrderShape
    <2>2. order.state = "live" /\ UNCHANGED <<exchange, call, report, said>>
      BY <1>3 DEF Orders!End
    <2>3. OrderShape'
      BY <2>1, <2>2 DEF OrderInv, OrderShape, States
    <2>4. OrderInv' /\ Asked' = Asked /\ Verdict' = Verdict
      BY <2>1, <2>2, <2>3, CallStays DEF Settled, Orders!At, OrderInv, CallInv, CallKnows
    <2>5. Truth = 0 .. Req /\ Truth' = {order.filled} /\ order.filled \in 0 .. Req /\ order'.seen = order.seen
      BY <2>1, <2>2 DEF Truth, OrderInv, OrderShape
    <2> QED  BY <2>4, <2>5, EndIsPromised
  <1>4. CASE Orders!Show
    <2>1. order' = [state |-> order.state, filled |-> order.filled, seen |-> TRUE, expired |-> order.expired]
      BY <1>4 DEF Orders!Show, OrderInv, OrderShape
    <2>2. order.state \in {"live", "done"} /\ ~order.seen /\ UNCHANGED <<exchange, call, report, said>>
      BY <1>4 DEF Orders!Show
    <2>3. OrderShape'
      BY <2>1, <2>2 DEF OrderInv, OrderShape
    <2>4. OrderInv' /\ Asked' = Asked /\ Verdict' = Verdict
      BY <2>1, <2>2, <2>3, CallStays DEF Settled
    <2>5. Truth' = Truth /\ Truth # {} /\ order'.seen = TRUE
      BY <2>1, <2>2 DEF Truth, OrdersApart
    <2> QED  BY <2>2, <2>4, <2>5, ShowIsPromised
  <1>5. CASE Orders!Expire
    <2>1. order' = [state |-> order.state, filled |-> order.filled, seen |-> order.seen, expired |-> TRUE]
      BY <1>5 DEF Orders!Expire, OrderInv, OrderShape
    <2>2. order.state = "done" /\ UNCHANGED <<exchange, call, report, said>>
      BY <1>5 DEF Orders!Expire
    <2>3. OrderShape'
      BY <2>1, <2>2 DEF OrderInv, OrderShape
    <2>4. OrderInv' /\ Asked' = Asked /\ Verdict' = Verdict
      BY <2>1, <2>2, <2>3, CallStays DEF Settled
    <2>5. Truth' = Truth /\ order'.seen = order.seen
      BY <2>1, <2>2 DEF Truth
    <2> QED  BY <2>4, <2>5, SameIsPromised
  <1> QED  BY <1>1, <1>2, <1>3, <1>4, <1>5

(* A call that returns what is honest, or that an order is absent which was not *)
(* shown when it was asked for.                                                 *)
LEMMA ReturnIsPromised ==
    ASSUME OrdersApart, OrderInv, call # None, UNCHANGED <<exchange, order>>, NEW r, Orders!Return(r), r # None,
           Honest(r) \/ (r = Orders!NotFound /\ call.by = "fetch" /\ ~call.seen)
    PROVE  OrderInv' /\ Promised
  <1>1. call' = None /\ said' = r /\ order.state # "unsent"
    BY DEF Orders!Return, OrderInv, CallInv
  <1>2. OrderInv'
    BY <1>1 DEF OrderInv, CallInv, OrderShape
  <1>3. Asked # None /\ Asked' = None /\ Truth' = Truth /\ order'.seen = order.seen
    BY <1>1 DEF Asked, Truth, OrdersApart
  <1>4. CASE r = Orders!NotFound /\ call.by = "fetch" /\ ~call.seen
    <2>1. Asked = "unseen" /\ Verdict' = [word |-> "absent", units |-> 0]
      BY <1>1, <1>4 DEF Asked, Verdict
    <2> QED  BY <1>2, <1>3, <2>1, AnswerIsPromised
  <1>5. CASE Honest(r)
    <2>1. CASE r.outcome = "unknown"
      <3>1. Verdict' = [word |-> "unknown", units |-> 0]
        BY <1>1, <1>5, <2>1 DEF Verdict, Honest
      <3> QED  BY <1>2, <1>3, <3>1, AnswerIsPromised
    <2>2. CASE r.outcome # "unknown"
      <3>1. Verdict' = [word |-> "final", units |-> r.filled]
        BY <1>1, <1>5, <2>2 DEF Verdict, Honest
      <3>2. Settled(r.filled)
        BY <1>5, <2>2 DEF Honest
      <3>3. r.filled \in 0 .. Req /\ Truth = {r.filled}
        BY <3>2 DEF Settled, Truth, OrderInv, OrderShape, OrdersApart
      <3> QED  BY <1>2, <1>3, <3>1, <3>3, AnswerIsPromised
    <2> QED  BY <2>1, <2>2
  <1> QED  BY <1>4, <1>5

(* A call that goes on. *)
LEMMA GoingOnIsPromised ==
    ASSUME OrdersApart, OrderInv, call # None, UNCHANGED <<exchange, order, said>>,
           call' # None, call'.by = call.by, call'.seen = call.seen, CallInv'
    PROVE  OrderInv' /\ Promised
  <1>1. OrderInv'
    BY DEF OrderInv, OrderShape
  <1>2. Truth' = Truth /\ order'.seen = order.seen /\ Asked' = Asked /\ Verdict' = Verdict
    BY DEF Truth, Asked, Verdict
  <1> QED  BY <1>1, <1>2, SameIsPromised

LEMMA PlacingIsPromised ==
    ASSUME OrdersApart, OrderInv, Orders!StartPlace
    PROVE  OrderInv' /\ Promised
  <1>1. order' = [state |-> "travelling", filled |-> order.filled, seen |-> order.seen, expired |-> order.expired]
    BY DEF Orders!StartPlace, OrderInv, OrderShape
  <1>2. call = None /\ order.state = "unsent" /\ UNCHANGED <<exchange, report, said, fetches>>
    BY DEF Orders!StartPlace
  <1>3. PICK at \in {"book", "order"} : call' = Orders!Call("place", at, 0, 0, FALSE, None)
    BY DEF Orders!StartPlace
  <1>4. OrderShape'
    BY <1>1, <1>2 DEF OrderInv, OrderShape, States
  <1>5. call' # None /\ call'.by = "place" /\ call'.at = at
    BY <1>3 DEF OrdersApart, Orders!Call
  <1>6. CallKnows'
    BY <1>1, <1>3, <1>5 DEF CallKnows, Orders!Call
  <1>7. OrderInv'
    BY <1>1, <1>4, <1>5, <1>6 DEF OrderInv, CallInv
  <1>8. Truth = {} /\ Truth' = 0 .. Req
    BY <1>1, <1>2 DEF Truth
  <1>9. Asked = None /\ Asked' = "place" /\ Verdict' = Verdict /\ order'.seen = order.seen
    BY <1>1, <1>2, <1>5 DEF Asked, Verdict
  <1> QED  BY <1>7, <1>8, <1>9, PlaceIsPromised

LEMMA BookReadIsPromised ==
    ASSUME OrdersApart, OrderInv, Orders!BookRead
    PROVE  OrderInv' /\ Promised
  <1>1. call # None /\ call.at = "book" /\ UNCHANGED <<exchange, order, report, said, fetches>>
    BY DEF Orders!BookRead, Orders!At
  <1>2. CallKnows /\ call.by = "place"
    BY <1>1 DEF OrderInv, CallInv, CallKnows
  <1>3. call' = Orders!Call("place", "order", call.k, call.polls, call.seen, call.got)
    BY <1>2 DEF Orders!BookRead, CallKnows, Orders!Call
  <1>4. call' # None /\ call'.by = "place" /\ call'.at = "order" /\ call'.seen = call.seen
    BY <1>3 DEF OrdersApart, Orders!Call
  <1>5. CallInv'
    BY <1>1, <1>3, <1>4 DEF OrderInv, CallInv, CallKnows, Orders!Call
  <1> QED  BY <1>1, <1>2, <1>4, <1>5, GoingOnIsPromised

LEMMA BookFailsIsPromised ==
    ASSUME OrdersApart, OrderInv, Orders!BookFails
    PROVE  OrderInv' /\ Promised
  <1>1. call # None /\ call.at = "book" /\ UNCHANGED <<exchange, report, said, fetches>>
    BY DEF Orders!BookFails, Orders!At
  <1>2. CallKnows /\ call.by = "place" /\ order.state = "travelling"
    BY <1>1 DEF OrderInv, CallInv, CallKnows
  <1>3. order' = [state |-> "lost", filled |-> order.filled, seen |-> order.seen, expired |-> order.expired]
    BY DEF Orders!BookFails, OrderInv, OrderShape
  <1>4. PICK answer \in {Orders!Failed("cut"), Orders!Failed("refused")} :
           call' = [call EXCEPT !.at = "return", !.got = Orders!HyperliquidPlaceMarketOrder(answer)]
    BY DEF Orders!BookFails
  <1> DEFINE got == Orders!HyperliquidPlaceMarketOrder(answer)
  <1>5. got = Orders!OrderError(answer)
    BY DEF Orders!HyperliquidPlaceMarketOrder, Orders!IsRecord, Orders!Failed
  <1>6. Honest(got)' /\ got # None
    <2>1. got \in {Orders!Report("unknown", "error", 0), Orders!Report("rejected", "error", 0)}
      BY <1>5 DEF Orders!OrderError, Orders!Unknown
    <2>2. Settled(0)'
      BY <1>3 DEF Settled
    <2> HIDE DEF got
    <2> QED  BY <2>1, <2>2 DEF Honest, Orders!Report, Orders!NotFound, OrdersApart
  <1> HIDE DEF got
  <1>7. call' = Orders!Call("place", "return", call.k, call.polls, call.seen, got)
    BY <1>2, <1>4 DEF CallKnows, Orders!Call, got
  <1>8. call' # None /\ call'.by = "place" /\ call'.at = "return" /\ call'.got = got
    BY <1>7 DEF OrdersApart, Orders!Call
  <1>9. OrderShape'
    BY <1>1, <1>2, <1>3 DEF OrderInv, OrderShape, States
  <1>10. CallKnows'
    BY <1>6, <1>7, <1>8 DEF CallKnows, Orders!Call
  <1>11. OrderInv'
    BY <1>3, <1>8, <1>9, <1>10 DEF OrderInv, CallInv
  <1>12. Truth = 0 .. Req /\ Truth' = {0} /\ 0 \in 0 .. Req /\ order'.seen = order.seen
    BY <1>2, <1>3 DEF Truth, OrdersApart
  <1>13. Asked' = Asked /\ Verdict' = Verdict
    BY <1>1, <1>2, <1>8 DEF Asked, Verdict
  <1> QED  BY <1>11, <1>12, <1>13, EndIsPromised

LEMMA NeverSentIsPromised ==
    ASSUME OrdersApart, OrderInv, Orders!NeverSent
    PROVE  OrderInv' /\ Promised
  <1>1. call # None /\ call.at = "return" /\ UNCHANGED <<exchange, order>> /\ Orders!Return(call.got)
    BY DEF Orders!NeverSent, Orders!At
  <1>2. Honest(call.got) /\ call.got # None
    BY <1>1 DEF OrderInv, CallInv, CallKnows
  <1> QED  BY <1>1, <1>2, ReturnIsPromised

(* Whatever was answered, the call has something to tell. *)
LEMMA PlacedIsReport ==
    ASSUME OrdersApart, OrderShape, NEW answer
    PROVE  Orders!PlaceMarketOrder(answer) # None
  <1>1. \A word, full, closed, f : Orders!ByWord(word, full, closed, f) # None
    BY DEF Orders!ByWord, OrdersApart
  <1>2. \A word, f : Orders!ByAmount(word, f) # None
    BY DEF Orders!ByAmount, OrdersApart
  <1>3. Orders!OrderError(answer) # None /\ Orders!Submitted # None
    BY DEF Orders!OrderError, Orders!Submitted, Orders!Unknown, OrdersApart
  <1>4. \A raw : /\ Orders!BinanceParseOrder(raw) # None /\ Orders!GateParseOrder(raw) # None
                 /\ Orders!HyperliquidParseSubmit(raw) # None
    BY <1>1, <1>2 DEF Orders!BinanceParseOrder, Orders!GateParseOrder, Orders!HyperliquidParseSubmit, Orders!Unknown,
       OrdersApart
  <1> QED
    BY <1>3, <1>4 DEF Orders!PlaceMarketOrder, Orders!BinancePlaceMarketOrder, Orders!AsterPlaceMarketOrder,
       Orders!BingxPlaceMarketOrder, Orders!BybitPlaceMarketOrder, Orders!BitgetPlaceMarketOrder,
       Orders!MexcPlaceMarketOrder, Orders!GatePlaceMarketOrder, Orders!KucoinPlaceMarketOrder,
       Orders!HyperliquidPlaceMarketOrder, OrderShape, Adapters

LEMMA AnsweredIsPromised ==
    ASSUME OrdersApart, OrderInv, Orders!OrderAnswered
    PROVE  OrderInv' /\ Promised
  <1>1. call # None /\ call.at = "order" /\ UNCHANGED <<exchange, order, fetches>>
    BY DEF Orders!OrderAnswered, Orders!At
  <1>2. CallKnows /\ call.by = "place" /\ order.state # "unsent" /\ OrderShape
    BY <1>1 DEF OrderInv, CallInv, CallKnows
  <1>3. PICK answer \in Orders!OrderAnswers :
           LET r == Orders!PlaceMarketOrder(answer) IN
           IF r = Orders!Submitted /\ StatusPolls > 0
           THEN call' = [call EXCEPT !.at = "sleep"] /\ report' = r /\ UNCHANGED said
           ELSE Orders!Return(r)
    BY DEF Orders!OrderAnswered
  <1> DEFINE r == Orders!PlaceMarketOrder(answer)
  <1>4. Honest(r)
    BY <1>2, AnswerToOrderHonest
  <1>5. r # None
    BY <1>2, PlacedIsReport
  <1>6. \/ r = Orders!Submitted /\ call' = [call EXCEPT !.at = "sleep"] /\ report' = r /\ UNCHANGED said
        \/ Orders!Return(r)
    BY <1>3, Zenon
  <1> HIDE DEF r
  <1>7. CASE Orders!Return(r)
    BY <1>1, <1>4, <1>5, <1>7, ReturnIsPromised
  <1>8. CASE r = Orders!Submitted /\ call' = [call EXCEPT !.at = "sleep"] /\ report' = r /\ UNCHANGED said
    <2>1. call' = Orders!Call("place", "sleep", call.k, call.polls, call.seen, call.got)
      BY <1>2, <1>8 DEF CallKnows, Orders!Call
    <2>2. call' # None /\ call'.by = "place" /\ call'.at = "sleep" /\ call'.seen = call.seen
      BY <2>1 DEF OrdersApart, Orders!Call
    <2>3. report'.outcome = "unknown" /\ report' # None
      BY <1>5, <1>8 DEF Orders!Submitted, Orders!Unknown, Orders!Report
    <2>4. CallInv'
      BY <1>1, <1>2, <2>1, <2>2, <2>3 DEF CallInv, CallKnows, Orders!Call
    <2> QED  BY <1>1, <1>2, <1>8, <2>2, <2>4, GoingOnIsPromised
  <1> QED  BY <1>6, <1>7, <1>8

LEMMA WakingIsPromised ==
    ASSUME OrdersApart, OrderInv, Orders!WakeAndAsk
    PROVE  OrderInv' /\ Promised
  <1>1. call # None /\ call.at = "sleep" /\ UNCHANGED <<exchange, order, report, said, fetches>>
    BY DEF Orders!WakeAndAsk, Orders!At
  <1>2. CallKnows /\ call.by = "place" /\ order.state # "unsent" /\ report.outcome = "unknown" /\ report # None
    BY <1>1 DEF OrderInv, CallInv, CallKnows
  <1>3. call' = Orders!Call("place", "status", 1, call.polls + 1, call.seen, None)
    BY <1>2 DEF Orders!WakeAndAsk, CallKnows, Orders!Call
  <1>4. call' # None /\ call'.by = "place" /\ call'.at = "status" /\ call'.seen = call.seen /\ call'.k = 1
    BY <1>3 DEF OrdersApart, Orders!Call
  <1>5. CallInv'
    BY <1>1, <1>2, <1>3, <1>4 DEF CallInv, CallKnows, AskedWhere, Orders!Call
  <1> QED  BY <1>1, <1>2, <1>4, <1>5, GoingOnIsPromised

LEMMA FetchingIsPromised ==
    ASSUME OrdersApart, OrderInv, Orders!StartFetch
    PROVE  OrderInv' /\ Promised
  <1>1. call = None /\ said # None /\ UNCHANGED <<exchange, order, report, said>>
        /\ call' = Orders!Call("fetch", "status", 1, 0, order.seen, None)
    BY DEF Orders!StartFetch
  <1>2. call' # None /\ call'.by = "fetch" /\ call'.at = "status" /\ call'.seen = order.seen /\ call'.k = 1
    BY <1>1 DEF OrdersApart, Orders!Call
  <1>3. OrderInv'
    BY <1>1, <1>2 DEF OrderInv, OrderShape, CallInv, CallKnows, AskedWhere, Orders!Call
  <1>4. Truth # {} /\ Truth' = Truth
    BY <1>1 DEF Truth, OrderInv, OrdersApart
  <1>5. Asked = None /\ Asked' = (IF order.seen THEN "seen" ELSE "unseen") /\ Verdict' = Verdict
    BY <1>1, <1>2 DEF Asked, Verdict
  <1> QED  BY <1>1, <1>3, <1>4, <1>5, AskIsPromised

LEMMA StatusIsPromised ==
    ASSUME OrdersApart, OrderInv, Orders!StatusAnswered
    PROVE  OrderInv' /\ Promised
  <1>1. call # None /\ call.at = "status" /\ UNCHANGED <<exchange, order, fetches>>
    BY DEF Orders!StatusAnswered, Orders!At
  <1>2. /\ CallKnows /\ order.state # "unsent" /\ OrderShape /\ AskedWhere(call.k)
        /\ exchange = "hyperliquid" /\ call.k = 2 => Honest(call.got) /\ call.got # None
    BY <1>1 DEF OrderInv, CallInv
  <1>3. PICK answer \in Orders!StatusAnswers(call.k) :
           LET r == Orders!FetchOrder(call.k, answer, call.got) IN
           IF r = None THEN Orders!NextRequest(None)
           ELSE IF exchange = "hyperliquid" /\ call.k = 1 /\ r.filled > 0 THEN Orders!NextRequest(r)
           ELSE IF call.by = "place" THEN Orders!Polled(r)
           ELSE Orders!Return(r)
    BY DEF Orders!StatusAnswered
  <1> DEFINE r == Orders!FetchOrder(call.k, answer, call.got)
  <1>4. Told(r, call.k)
    BY <1>2, AnswerIsTold
  <1>5. \/ r = None /\ Orders!NextRequest(None)
        \/ r # None /\ exchange = "hyperliquid" /\ call.k = 1 /\ r.filled > 0 /\ Orders!NextRequest(r)
        \/ r # None /\ call.by = "place" /\ Orders!Polled(r)
        \/ r # None /\ call.by = "fetch" /\ Orders!Return(r)
    BY <1>2, <1>3, Zenon DEF CallKnows
  <1> HIDE DEF r
  <1>6. ASSUME NEW g, Orders!NextRequest(g), AskedWhere(call.k + 1),
               exchange = "hyperliquid" => Honest(g) /\ g # None
        PROVE  OrderInv' /\ Promised
    <2>1. call' = Orders!Call(call.by, "status", call.k + 1, call.polls, call.seen, g) /\ UNCHANGED <<report, said>>
      BY <1>1, <1>2, <1>6 DEF Orders!NextRequest, CallKnows, Orders!Call
    <2>2. call' # None /\ call'.by = call.by /\ call'.at = "status" /\ call'.seen = call.seen /\ call'.k = call.k + 1
          /\ call'.got = g
      BY <2>1 DEF OrdersApart, Orders!Call
    <2>3. CallKnows'
      BY <1>1, <1>2, <2>1, <2>2 DEF CallKnows, Orders!Call
    <2>4. AskedWhere(call.k)'
      BY <1>1, <1>6, <2>2 DEF AskedWhere
    <2>5. exchange' = "hyperliquid" => Honest(call.got)' /\ call'.got # None
      BY <1>1, <1>6, <2>2 DEF Honest, Settled
    <2>6. CallInv'
      BY <1>1, <1>2, <2>2, <2>3, <2>4, <2>5 DEF CallInv
    <2> QED  BY <1>1, <2>1, <2>2, <2>6, GoingOnIsPromised
  <1>7. CASE r = None /\ Orders!NextRequest(None)
    <2>1. exchange \in {"bybit", "gate"} /\ AskedWhere(call.k + 1)
      BY <1>4, <1>7 DEF Told, OrdersApart, Orders!NotFound
    <2> QED  BY <1>6, <1>7, <2>1
  <1>8. CASE r # None /\ exchange = "hyperliquid" /\ call.k = 1 /\ r.filled > 0 /\ Orders!NextRequest(r)
    <2>1. Honest(r)
      BY <1>4, <1>8 DEF Told, Orders!NotFound, Orders!Report
    <2>2. AskedWhere(call.k + 1)
      BY <1>2, <1>8 DEF AskedWhere
    <2> QED  BY <1>6, <1>8, <2>1, <2>2
  <1>9. CASE r # None /\ call.by = "fetch" /\ Orders!Return(r)
    <2>1. Honest(r) \/ (r = Orders!NotFound /\ ~call.seen)
      BY <1>4, <1>9 DEF Told
    <2> QED  BY <1>1, <1>9, <2>1, ReturnIsPromised
  <1>10. CASE r # None /\ call.by = "place" /\ Orders!Polled(r)
    <2> DEFINE kept == IF r = Orders!NotFound THEN report ELSE r
    <2>1. report.outcome = "unknown" /\ report # None /\ report # Orders!NotFound
      BY <1>1, <1>2, <1>10 DEF CallKnows, Orders!NotFound, Orders!Report
    <2>2. Honest(kept)
      BY <1>4, <1>10, <2>1 DEF Told, Honest
    <2>3. \/ Orders!Return(kept)
          \/ kept.outcome = "unknown" /\ report' = kept /\ call' = [call EXCEPT !.at = "sleep"] /\ UNCHANGED said
      BY <1>10, Zenon DEF Orders!Polled
    <2>4. kept # None
      BY <1>10, <2>1
    <2> HIDE DEF kept
    <2>5. CASE Orders!Return(kept)
      BY <1>1, <2>2, <2>4, <2>5, ReturnIsPromised
    <2>6. CASE kept.outcome = "unknown" /\ report' = kept /\ call' = [call EXCEPT !.at = "sleep"] /\ UNCHANGED said
      <3>1. call' = Orders!Call("place", "sleep", call.k, call.polls, call.seen, call.got)
        BY <1>2, <1>10, <2>6 DEF CallKnows, Orders!Call
      <3>2. call' # None /\ call'.by = "place" /\ call'.at = "sleep" /\ call'.seen = call.seen
        BY <3>1 DEF OrdersApart, Orders!Call
      <3>3. CallInv'
        BY <1>1, <1>2, <2>4, <2>6, <3>1, <3>2 DEF CallInv, CallKnows, Orders!Call
      <3> QED  BY <1>1, <1>10, <2>6, <3>2, <3>3, GoingOnIsPromised
    <2> QED  BY <2>3, <2>5, <2>6
  <1> QED  BY <1>5, <1>7, <1>8, <1>9, <1>10

(* ImplementsVerdict, for orders of any size, any number of polls and of later  *)
(* questions: of every exchange the terminal is told the truth of an order, or  *)
(* that it is not known; and that the order is absent only when it was not      *)
(* shown.                                                                       *)
THEOREM AdaptersKeepVerdict ==
    ASSUME OrdersApart PROVE SpecAll => ImplementsVerdict
  <1>1. ASSUME InitAll PROVE OrderInv /\ Orders!Verdict!Init
    <2>1. exchange \in TradingVenues /\ call = None /\ said = None
          /\ order = [state |-> "unsent", filled |-> 0, seen |-> FALSE, expired |-> FALSE]
      BY <1>1 DEF InitAll, Orders!Init
    <2>2. OrderInv
      BY <2>1 DEF OrderInv, OrderShape, States, CallInv, OrdersApart
    <2>3. Truth = {} /\ ~order.seen /\ Asked = None /\ Verdict = [word |-> "nothing", units |-> 0]
      BY <2>1 DEF Truth, Asked, Verdict
    <2> QED
      BY <2>2, <2>3, Zenon DEF Truth, Asked, Verdict, Orders!Verdict!Init, Orders!Verdict!Said
  <1>2. ASSUME OrderInv, [NextAll]_allVars PROVE OrderInv' /\ Promised
    <2>1. CASE OrderStep
      BY <1>2, <2>1, ExchangeActs, PlacingIsPromised, BookReadIsPromised, BookFailsIsPromised, NeverSentIsPromised,
         AnsweredIsPromised, WakingIsPromised, FetchingIsPromised, StatusIsPromised DEF OrderStep, Orders!Next
    <2>2. CASE UNCHANGED orderVars
      <3>1. UNCHANGED <<exchange, order, call, report, said>>
        BY <2>2 DEF orderVars
      <3>2. OrderInv'
        BY <1>2, <3>1 DEF OrderInv, OrderShape, CallInv, CallKnows, AskedWhere, Honest, Settled
      <3>3. Truth' = Truth /\ order'.seen = order.seen /\ Asked' = Asked /\ Verdict' = Verdict
        BY <3>1 DEF Truth, Asked, Verdict
      <3> QED
        BY <3>2, <3>3, SameIsPromised
    <2> QED
      BY <1>2, <2>1, <2>2 DEF NextAll, ClickStep, LegsStep, ContractStep, AccountStep, BookStep, FundingStep, RadarStep, allVars
  <1> QED
    BY <1>1, <1>2, PTL DEF SpecAll, ImplementsVerdict, Orders!ImplementsVerdict, Orders!Verdict!Spec, Promised

--------------------------------------------------------------------------------
(* The accounts the orders are sent from *)

(* Keys open what they open, None is neither a key nor a check, and the demo    *)
(* mode of Binance has no key that withdraws.                                   *)
AccountsApart ==
    /\ TradingVenues \subseteq Adapters
    /\ None \notin Keys
    /\ \A a \in Powers, k \in Keys : a[k].withdrawals \in BOOLEAN /\ a[k].oneWay \in BOOLEAN
    /\ Demo /\ "binance" \in TradingVenues => \A a \in Powers, k \in Keys : ~a[k].withdrawals

(* Keys a verdict may pass: Bybit may have kept to itself that they withdraw. *)
Fit(pair, untold) ==
    /\ pair[1] # None /\ power[pair[1]].oneWay
    /\ power[pair[1]].withdrawals => keyExchange = "bybit" /\ untold

KeyPairs == (Keys \cup {None}) \X (Keys \cup {None})

AccountShape ==
    /\ keyExchange \in TradingVenues
    /\ power \in Powers
    /\ keyExchange = "hyperliquid" => \A k \in Keys : power[k].oneWay
    /\ keystore \in KeyPairs /\ adapter \in KeyPairs
    /\ generation \in Nat

(* The check under way is of the keys the adapter had when it began, and those  *)
(* are the keys of now while the generation is the same.                        *)
CheckingInv ==
    checking # None =>
        /\ checking.generation \in 0 .. generation
        /\ checking.pair \in KeyPairs
        /\ checking.generation = generation => checking.pair = adapter

(* The verdict is on the keys of now until the next change of them, and good    *)
(* only of keys that are fit.                                                   *)
VerdictInv ==
    check # None =>
        /\ check.of = adapter \/ replacing # {}
        /\ check.accepted /\ ~check.warned => Fit(check.of, check.untold)

AccountInv == AccountShape /\ CheckingInv /\ VerdictInv

(* What an exchange tells of withdrawals and of the mode of positions is true   *)
(* of the keys asked about, or nothing.  But Bybit's silence is read as a no.   *)
TrueOf(facts, p) ==
    /\ \/ facts.permissions.withdrawals \in {None, TRUE}
       \/ /\ facts.permissions.withdrawals = FALSE
          /\ p.withdrawals => keyExchange = "bybit" /\ "withdrawals" \in facts.silent
    /\ facts.oneWay = None \/ facts.oneWay = p.oneWay

LEMMA TellsTheTruth ==
    ASSUME AccountsApart, AccountShape, NEW p, NEW answer, p.withdrawals \in BOOLEAN, p.oneWay \in BOOLEAN,
           keyExchange = "hyperliquid" => p.oneWay,
           keyExchange = "binance" /\ Demo => ~p.withdrawals
    PROVE  TrueOf(Accounts!CheckAccount(p, answer), p)
  <1> DEFINE facts == Accounts!CheckAccount(p, answer)
  <1>2. \A step, field, value : Accounts!Told(answer, step, field, value) = None \/ Accounts!Told(answer, step, field, value) = value
    BY Zenon DEF Accounts!Told
  <1>3. ASSUME keyExchange = "binance" PROVE TrueOf(facts, p)
    <2>1. facts.permissions.withdrawals = (IF Demo THEN FALSE ELSE Accounts!Told(answer, "permissions", "withdrawals", p.withdrawals))
          /\ facts.oneWay = Accounts!Told(answer, "position_mode", "mode", p.oneWay)
      BY <1>3 DEF Accounts!CheckAccount, Accounts!BinanceCheckAccount, Accounts!AccountFacts, Accounts!KeyPermissions,
         Accounts!BinanceParsePermissions
    <2> HIDE DEF facts
    <2> QED  BY <1>2, <1>3, <2>1 DEF TrueOf
  <1>4. ASSUME keyExchange = "aster" PROVE TrueOf(facts, p)
    <2>1. facts.permissions.withdrawals = (IF p.withdrawals THEN TRUE ELSE None)
          /\ facts.oneWay = Accounts!Told(answer, "position_mode", "mode", p.oneWay)
      BY <1>4 DEF Accounts!CheckAccount, Accounts!AsterCheckAccount, Accounts!AccountFacts, Accounts!KeyPermissions
    <2> HIDE DEF facts
    <2> QED  BY <1>2, <2>1 DEF TrueOf
  <1>5. ASSUME keyExchange = "bingx" PROVE TrueOf(facts, p)
    <2>1. facts.permissions.withdrawals \in {None, p.withdrawals}
          /\ facts.oneWay = Accounts!Told(answer, "position_mode", "mode", p.oneWay)
      BY <1>5 DEF Accounts!CheckAccount, Accounts!BingxCheckAccount, Accounts!AccountFacts, Accounts!KeyPermissions,
         Accounts!BingxParsePermissions, Accounts!UnknownPermissions
    <2> HIDE DEF facts
    <2> QED  BY <1>2, <2>1 DEF TrueOf
  <1>6. ASSUME keyExchange = "bybit" PROVE TrueOf(facts, p)
    <2>1. /\ facts.permissions.withdrawals \in {None, p.withdrawals /\ "withdrawals" \notin answer.silent}
          /\ facts.silent = answer.silent
          /\ facts.oneWay = Accounts!Told(answer, "position_mode", "mode", p.oneWay)
      BY <1>6 DEF Accounts!CheckAccount, Accounts!BybitCheckAccount, Accounts!AccountFacts, Accounts!KeyPermissions,
         Accounts!BybitParsePermissions, Accounts!UnknownPermissions
    <2> HIDE DEF facts
    <2>2. facts.permissions.withdrawals \in {None, TRUE}
          \/ (facts.permissions.withdrawals = FALSE /\ (p.withdrawals => "withdrawals" \in facts.silent))
      BY <2>1
    <2> QED  BY <1>2, <1>6, <2>1, <2>2 DEF TrueOf
  <1>7. ASSUME keyExchange = "bitget" PROVE TrueOf(facts, p)
    <2>1. facts.permissions.withdrawals \in {None, TRUE}
          /\ facts.oneWay = Accounts!Told(answer, "account", "mode", p.oneWay)
      BY <1>7 DEF Accounts!CheckAccount, Accounts!BitgetCheckAccount, Accounts!AccountFacts, Accounts!KeyPermissions,
         Accounts!BitgetParsePermissions
    <2> HIDE DEF facts
    <2> QED  BY <1>2, <2>1 DEF TrueOf
  <1>8. ASSUME keyExchange = "gate" PROVE TrueOf(facts, p)
    <2>1. facts.permissions.withdrawals = None
          /\ facts.oneWay = Accounts!Told(answer, "account", "mode", p.oneWay)
      BY <1>8 DEF Accounts!CheckAccount, Accounts!GateCheckAccount, Accounts!AccountFacts, Accounts!KeyPermissions
    <2> HIDE DEF facts
    <2> QED  BY <1>2, <2>1 DEF TrueOf
  <1>9. ASSUME keyExchange = "kucoin" PROVE TrueOf(facts, p)
    <2>1. facts.permissions.withdrawals \in {None, p.withdrawals}
          /\ facts.oneWay = Accounts!Told(answer, "position_mode", "mode", p.oneWay)
      BY <1>9 DEF Accounts!CheckAccount, Accounts!KucoinCheckAccount, Accounts!AccountFacts, Accounts!KeyPermissions,
         Accounts!KucoinParsePermissions, Accounts!UnknownPermissions
    <2> HIDE DEF facts
    <2> QED  BY <1>2, <2>1 DEF TrueOf
  <1>10. ASSUME keyExchange = "mexc" PROVE TrueOf(facts, p)
    <2>1. facts.permissions.withdrawals = None
          /\ facts.oneWay = Accounts!Told(answer, "position_mode", "mode", p.oneWay)
      BY <1>10 DEF Accounts!CheckAccount, Accounts!MexcCheckAccount, Accounts!AccountFacts, Accounts!KeyPermissions,
         Accounts!UnknownPermissions
    <2> HIDE DEF facts
    <2> QED  BY <1>2, <2>1 DEF TrueOf
  <1>11. ASSUME keyExchange = "hyperliquid" PROVE TrueOf(facts, p)
    <2>1. facts = Accounts!HyperliquidCheckAccount(p, answer)
      BY <1>11 DEF Accounts!CheckAccount
    <2>2. facts.oneWay = TRUE
      BY <2>1 DEF Accounts!HyperliquidCheckAccount, Accounts!AccountFacts
    <2>3. facts.permissions.withdrawals
             = IF p.withdrawals THEN TRUE
               ELSE IF Accounts!Told(answer, "api_wallet", "futures", p.futures) = TRUE THEN FALSE ELSE None
      <3> DEFINE approved == Accounts!Told(answer, "api_wallet", "futures", p.futures)
      <3> DEFINE withdraws == IF p.withdrawals THEN TRUE ELSE IF approved = TRUE THEN FALSE ELSE None
      <3>1. facts.permissions = Accounts!KeyPermissions(TRUE, approved, withdraws, None)
        BY <2>1 DEF Accounts!HyperliquidCheckAccount, Accounts!AccountFacts
      <3>2. \A w, q : Accounts!KeyPermissions(TRUE, q, w, None).withdrawals = w
        BY DEF Accounts!KeyPermissions
      <3> HIDE DEF facts
      <3> QED  BY <3>1, <3>2
    <2> HIDE DEF facts
    <2>4. TrueOf(facts, p)
      BY <1>11, <2>2, <2>3 DEF TrueOf
    <2> QED  BY <2>4
  <1> QED  BY <1>3, <1>4, <1>5, <1>6, <1>7, <1>8, <1>9, <1>10, <1>11 DEF AccountShape, AccountsApart, Adapters

(* Keys that sign nothing leave a required step undone on every exchange. *)
LEMMA UnsignedIsIncomplete ==
    ASSUME AccountsApart, AccountShape, NEW p, NEW answer, answer.broken = Accounts!Steps \ {"clock"}
    PROVE  Accounts!CheckAccount(p, answer).errors # {}
  <1> DEFINE facts == Accounts!CheckAccount(p, answer)
  <1>1. "balance" \in answer.broken /\ "account" \in answer.broken
    BY DEF Accounts!Steps
  <1>2. CASE keyExchange \in {"bitget", "gate"}
    <2>1. "account" \in facts.errors
      BY <1>1, <1>2 DEF Accounts!CheckAccount, Accounts!BitgetCheckAccount, Accounts!GateCheckAccount, Accounts!AccountFacts
    <2> QED  BY <2>1
  <1>3. CASE keyExchange = "binance"
    <2>1. "balance" \in facts.errors
      BY <1>1, <1>3 DEF Accounts!CheckAccount, Accounts!BinanceCheckAccount, Accounts!AccountFacts
    <2> QED  BY <2>1
  <1>4. CASE keyExchange \in {"aster", "bingx", "bybit", "kucoin", "mexc"}
    <2>1. "balance" \in facts.errors
      BY <1>1, <1>4 DEF Accounts!CheckAccount, Accounts!AsterCheckAccount, Accounts!BingxCheckAccount,
         Accounts!BybitCheckAccount, Accounts!KucoinCheckAccount, Accounts!MexcCheckAccount, Accounts!AccountFacts
    <2> QED  BY <2>1
  <1>5. CASE keyExchange = "hyperliquid"
    <2>1. facts = Accounts!HyperliquidCheckAccount(p, answer)
      BY <1>5 DEF Accounts!CheckAccount
    <2>2. "balance" \in facts.errors
      BY <1>1, <2>1 DEF Accounts!HyperliquidCheckAccount, Accounts!AccountFacts
    <2> QED  BY <2>2
  <1> QED  BY <1>2, <1>3, <1>4, <1>5 DEF AccountShape, AccountsApart, Adapters

(* judge lets pass without a warning only keys as TrueOf describes them. *)
LEMMA JudgedIsFit ==
    ASSUME AccountsApart, AccountShape, NEW pair \in KeyPairs, NEW answer \in Accounts!Answers(pair),
           NEW verdict, verdict = Accounts!Judge(pair, Accounts!Facts(pair, answer)),
           verdict.accepted, ~verdict.warned
    PROVE  Fit(pair, verdict.untold)
  <1> DEFINE facts == Accounts!Facts(pair, answer)
  <1>1. Accounts!Blocking(facts) = {} /\ Accounts!Warnings(facts) = {}
    BY DEF Accounts!Judge
  <1>2. facts.errors = {} /\ facts.permissions.withdrawals # TRUE /\ facts.oneWay # FALSE
    <2> HIDE DEF facts
    <2> QED  BY <1>1 DEF Accounts!Blocking
  <1>3. facts.permissions.withdrawals # None /\ facts.oneWay # None
    <2> HIDE DEF facts
    <2> QED  BY <1>1 DEF Accounts!Warnings
  <1>4. pair[1] = pair[2] /\ pair # Accounts!NoPair
    <2>1. ASSUME ~(pair[1] = pair[2] /\ pair # Accounts!NoPair) PROVE FALSE
      <3>1. answer.broken = Accounts!Steps \ {"clock"}
        BY <2>1 DEF Accounts!Answers
      <3> QED  BY <1>2, <3>1, UnsignedIsIncomplete DEF Accounts!Facts
    <2> QED  BY <2>1
  <1>5. pair[1] \in Keys /\ pair[1] # None
    BY <1>4 DEF KeyPairs, Accounts!NoPair, AccountsApart
  <1>6. facts = Accounts!CheckAccount(power[pair[1]], answer)
    BY <1>5 DEF Accounts!Facts
  <1>7. /\ power[pair[1]].oneWay \in BOOLEAN /\ power[pair[1]].withdrawals \in BOOLEAN
        /\ keyExchange = "hyperliquid" => power[pair[1]].oneWay
        /\ keyExchange = "binance" /\ Demo => ~power[pair[1]].withdrawals
    BY <1>5 DEF AccountsApart, AccountShape
  <1>8. TrueOf(facts, power[pair[1]])
    BY <1>6, <1>7, TellsTheTruth
  <1>9. verdict.untold = ("withdrawals" \in facts.silent)
    BY Zenon DEF Accounts!Judge
  <1> HIDE DEF facts
  <1> QED  BY <1>2, <1>3, <1>5, <1>7, <1>8, <1>9 DEF Fit, TrueOf

LEMMA KeyChangeKeeps ==
    ASSUME AccountInv, NEW pair \in KeyPairs, Accounts!ReplaceAdapter(pair), keystore' \in KeyPairs,
           UNCHANGED <<keyExchange, power, checking, check>>
    PROVE  AccountInv'
  <1>1. adapter' = pair /\ generation' = generation + 1 /\ replacing' # {}
    BY DEF Accounts!ReplaceAdapter
  <1>2. AccountShape'
    BY <1>1 DEF AccountInv, AccountShape
  <1>3. CheckingInv'
    BY <1>1 DEF AccountInv, AccountShape, CheckingInv
  <1>4. VerdictInv'
    BY <1>1 DEF AccountInv, VerdictInv, Fit
  <1> QED  BY <1>2, <1>3, <1>4 DEF AccountInv

LEMMA CheckKeeps ==
    ASSUME AccountsApart, AccountInv, Accounts!CheckEnds
    PROVE  AccountInv'
  <1>1. checking # None /\ checking' = None /\ UNCHANGED <<keyExchange, power, keystore, adapter, generation, replacing>>
    BY DEF Accounts!CheckEnds
  <1>2. PICK answer \in Accounts!Answers(checking.pair) :
           check' = Accounts!Stored(Accounts!Facts(checking.pair, answer), checking.pair, checking.generation)
    BY DEF Accounts!CheckEnds
  <1>3. AccountShape' /\ CheckingInv'
    BY <1>1 DEF AccountInv, AccountShape, CheckingInv
  <1>4. CASE checking.generation # generation
    <2>1. check' = check
      BY <1>2, <1>4 DEF Accounts!Stored
    <2> QED  BY <1>1, <1>3, <2>1 DEF AccountInv, VerdictInv, Fit
  <1>5. CASE checking.generation = generation
    <2>1. check' = Accounts!Judge(checking.pair, Accounts!Facts(checking.pair, answer))
      BY <1>2, <1>5 DEF Accounts!Stored
    <2>2. checking.pair = adapter /\ checking.pair \in KeyPairs
      BY <1>1, <1>5 DEF AccountInv, CheckingInv
    <2>3. check'.of = adapter
      BY <2>1, <2>2 DEF Accounts!Judge
    <2>4. check'.accepted /\ ~check'.warned => Fit(adapter, check'.untold)
      BY <2>1, <2>2, JudgedIsFit DEF AccountInv
    <2> QED  BY <1>1, <1>3, <2>3, <2>4 DEF AccountInv, VerdictInv, Fit
  <1> QED  BY <1>4, <1>5

(* OkKeysAreFit, for any keys, powers of theirs, changes of them, failures of   *)
(* the checks and restarts: keys shown as fine are those the adapter signs      *)
(* with, of an account in one-way mode, and, unless Bybit left withdrawals out  *)
(* of its answer, they cannot withdraw.                                         *)
THEOREM OkKeysFit ==
    ASSUME AccountsApart PROVE SpecAll => []OkKeysAreFit
  <1>1. InitAll => AccountInv
    BY DEF InitAll, Accounts!Init, Accounts!NewService, Accounts!NoPair, AccountInv, AccountShape, CheckingInv, VerdictInv, KeyPairs
  <1>2. ASSUME AccountInv, [NextAll]_allVars PROVE AccountInv'
    <2>1. ASSUME AccountStep, NEW key \in Keys, Accounts!SaveKeys(key) PROVE AccountInv'
      <3>1. <<key, key>> \in KeyPairs
        BY DEF KeyPairs
      <3> QED  BY <1>2, <2>1, <3>1, KeyChangeKeeps DEF Accounts!SaveKeys
    <2>2. ASSUME AccountStep, NEW key \in Keys, Accounts!SaveFailsHalfway(key) PROVE AccountInv'
      <3>1. keystore' \in KeyPairs
        BY <1>2, <2>2 DEF Accounts!SaveFailsHalfway, KeyPairs, AccountInv, AccountShape
      <3> QED  BY <1>2, <2>2, <3>1 DEF Accounts!SaveFailsHalfway, AccountInv, AccountShape, CheckingInv, VerdictInv, Fit
    <2>3. CASE AccountStep /\ Accounts!DeleteKeys
      <3>1. Accounts!NoPair \in KeyPairs
        BY DEF KeyPairs, Accounts!NoPair
      <3> QED  BY <1>2, <2>3, <3>1, KeyChangeKeeps DEF Accounts!DeleteKeys
    <2>4. ASSUME AccountStep, NEW change \in replacing, Accounts!Replaced(change) PROVE AccountInv'
      BY <1>2, <2>4 DEF Accounts!Replaced, AccountInv, AccountShape, CheckingInv, VerdictInv
    <2>5. CASE AccountStep /\ Accounts!StartCheck
      BY <1>2, <2>5 DEF Accounts!StartCheck, AccountInv, AccountShape, CheckingInv, VerdictInv, Fit
    <2>6. CASE AccountStep /\ Accounts!Restart
      BY <1>2, <2>6 DEF Accounts!Restart, AccountInv, AccountShape, CheckingInv, VerdictInv
    <2>7. CASE UNCHANGED accountVars
      BY <1>2, <2>7 DEF accountVars, AccountInv, AccountShape, CheckingInv, VerdictInv, Fit
    <2> QED
      BY <1>2, <2>1, <2>2, <2>3, <2>4, <2>5, <2>6, <2>7, CheckKeeps DEF NextAll, ClickStep, LegsStep, OrderStep, ContractStep,
         AccountStep, Accounts!Next, BookStep, FundingStep, RadarStep, allVars
  <1>3. AccountInv => OkKeysAreFit
    BY DEF AccountInv, VerdictInv, OkKeysAreFit, Accounts!OkKeysAreFit, Accounts!KeysState, Fit
  <1> QED  BY <1>1, <1>2, <1>3, PTL DEF SpecAll

--------------------------------------------------------------------------------
(* The units of the two legs *)

(* Contracts of whole tokens: a symbol of at least one token, a contract of at  *)
(* least one coin, and a step to fall back on.                                  *)
SoundShape(c) ==
    /\ c.mult \in Nat \ {0} /\ c.size \in Nat \ {0} /\ c.lot \in Nat \ {0}
    /\ c.step \in Nat /\ c.min \in Nat /\ c.max \in Nat \cup {None} /\ c.notional \in Nat
    /\ c.listed \in BOOLEAN

Words ==
    {"ISOLATED", "CROSSED", "isolated", "crossed", "CROSS", "cross", "leverage", "leverage 0", "openType 1", "openType 2",
     "BUY", "SELL", "Buy", "Sell", "buy", "sell", "1", "2", "3", "4"}

ContractsApart ==
    /\ LongExchanges \cup ShortExchanges \subseteq Adapters
    /\ \A c \in Shapes \cup ShortShapes : SoundShape(c)
    /\ Wanted \subseteq Nat /\ MinOrderUsd \in Nat /\ Leverage \in Nat \ {0}
    /\ None \notin Int
    /\ None \notin Words
    /\ \A side, qty, entry, leverage, margin : None # Units!Position(side, qty, entry, leverage, margin)
    /\ \A unit, price, step, min, max, notional : None # Units!Instrument(unit, price, step, min, max, notional)

(* Among naturals one is the least. *)
LEMMA LeastOf ==
    ASSUME NEW S, S \subseteq Nat, S # {}
    PROVE  \E x \in S : \A y \in S : x <= y
  <1>1. PICK x \in S : \A y \in S : ~ (<<y, x>> \in OpToRel(<,Nat))
    BY NatLessThanWellFounded, WFMin, Zenon
  <1>2. \A y \in Nat : y < x => <<y, x>> \in OpToRel(<,Nat)
    BY Zenon DEF OpToRel
  <1>3. \A y \in S : ~(y < x)
    BY <1>1, <1>2, Zenon
  <1> QED BY <1>3

LEMMA DivideBack ==
    ASSUME NEW n \in Nat, NEW d \in Nat \ {0}
    PROVE  (n * d) \div d = n /\ (n * d) % d = 0
  BY Z3

LEMMA WholeParts ==
    ASSUME NEW n \in Nat, NEW d \in Nat \ {0}
    PROVE  /\ n \div d \in Nat /\ (n \div d) * d <= n
           /\ n % d = 0 => n = (n \div d) * d
  BY Z3

LEMMA Products ==
    ASSUME NEW a \in Nat, NEW b \in Nat, NEW c \in Nat
    PROVE  /\ a * b \in Nat /\ a * (b * c) = (a * b) * c /\ a * b = b * a
           /\ a # 0 /\ b # 0 => a * b # 0
  BY Z3

(* The step both legs take: whole steps of either. *)
LEMMA CommonMultiple ==
    ASSUME NEW a \in Nat \ {0}, NEW b \in Nat \ {0}
    PROVE  LET n == Units!LeastCommonMultiple(a, b) IN n \in Nat \ {0} /\ n % a = 0 /\ n % b = 0
  <1> DEFINE S == {n \in 1 .. a * b : n % a = 0 /\ n % b = 0}
  <1>1. a * b \in Nat \ {0} /\ (a * b) % a = 0 /\ (a * b) % b = 0
    BY Products, DivideBack
  <1>2. a * b \in S
    BY <1>1
  <1>3. S \subseteq Nat
    BY <1>1
  <1>4. PICK n \in S : \A m \in S : n <= m
    BY <1>2, <1>3, LeastOf
  <1>5. ASSUME NEW k \in 1 .. n - 1 PROVE k % a # 0 \/ k % b # 0
    <2>1. \A p \in Nat : n \in 1 .. p => k \in 1 .. p /\ ~(n <= k)
      OBVIOUS
    <2>2. k \notin S
      BY <1>1, <1>4, <2>1
    <2>3. k \in 1 .. a * b
      BY <1>1, <1>4, <2>1
    <2> QED  BY <2>2, <2>3
  <1>6. \E m \in 1 .. a * b : m % a = 0 /\ m % b = 0 /\ \A k \in 1 .. m - 1 : k % a # 0 \/ k % b # 0
    BY <1>4, <1>5
  <1>7. Units!LeastCommonMultiple(a, b) \in 1 .. a * b
        /\ Units!LeastCommonMultiple(a, b) % a = 0 /\ Units!LeastCommonMultiple(a, b) % b = 0
    BY <1>6, Zenon DEF Units!LeastCommonMultiple
  <1> QED  BY <1>1, <1>7

(* A contract that was loaded. *)
LEMMA LoadedIs ==
    ASSUME ContractsApart, NEW x \in Adapters, NEW c, SoundShape(c), c.step = 0 => x \notin {"bingx", "hyperliquid"},
           NEW i, i = Units!ParseInstrument(x, c), i # None
    PROVE  /\ i.qtyUnit = Units!CoinsPerUnit(x, c) * c.mult /\ i.qtyUnit \in Nat \ {0}
           /\ i.priceUnit = c.mult /\ i.step \in Nat \ {0} /\ i.max \in Nat \cup {None}
  <1>1. Units!CoinsPerUnit(x, c) \in Nat \ {0} /\ c.mult \in Nat \ {0}
    BY DEF Units!CoinsPerUnit, SoundShape
  <1>2. Units!CoinsPerUnit(x, c) * c.mult \in Nat \ {0} /\ 1 * c.mult = c.mult
    BY <1>1, Products
  <1>3. c.step \in Nat /\ c.lot \in Nat \ {0} /\ c.max \in Nat \cup {None} /\ c.size \in Nat /\ c.min \in Nat
    BY DEF SoundShape
  <1>4. CASE x \in {"binance", "aster"}
    <2>1. i = Units!Instrument(c.mult, c.mult, IF c.step <= 0 THEN c.lot ELSE c.step, c.min, c.max, c.notional)
      BY <1>4 DEF Units!ParseInstrument, Units!BinanceParseInstrument
    <2> QED  BY <1>2, <1>3, <1>4, <2>1 DEF Units!Instrument, Units!CoinsPerUnit
  <1>5. CASE x = "bingx"
    <2>1. i = Units!Instrument(c.mult, c.mult, c.step, c.min, None, c.notional)
      BY <1>5 DEF Units!ParseInstrument, Units!BingxParseInstrument
    <2> QED  BY <1>2, <1>3, <1>5, <2>1 DEF Units!Instrument, Units!CoinsPerUnit
  <1>6. CASE x \in {"bybit", "bitget"}
    <2>1. i = Units!Instrument(c.mult, c.mult, c.step, Units!Or(c.min, c.step), c.max, c.notional) /\ c.step # 0
      BY <1>6 DEF Units!ParseInstrument, Units!BybitParseInstrument, Units!BitgetParseInstrument
    <2> QED  BY <1>2, <1>3, <1>6, <2>1 DEF Units!Instrument, Units!CoinsPerUnit
  <1>7. CASE x = "gate"
    <2>1. i = Units!Instrument(c.size * c.mult, c.mult, 1, Units!Max2(c.min, 1), c.max, 0)
      BY <1>7 DEF Units!ParseInstrument, Units!GateParseInstrument
    <2> QED  BY <1>2, <1>3, <1>7, <2>1 DEF Units!Instrument, Units!CoinsPerUnit
  <1>8. CASE x = "kucoin"
    <2>1. i = Units!Instrument(c.size * c.mult, c.mult, Units!Or(c.step, 1), Units!Or(c.step, 1), c.max, 0)
      BY <1>8 DEF Units!ParseInstrument, Units!KucoinParseInstrument
    <2>2. Units!Or(c.step, 1) \in Nat \ {0}
      BY <1>3 DEF Units!Or
    <2> QED  BY <1>2, <1>3, <1>8, <2>1, <2>2 DEF Units!Instrument, Units!CoinsPerUnit
  <1>9. CASE x = "mexc"
    <2>1. i = Units!Instrument(c.size * c.mult, c.mult, Units!Or(c.step, 1), c.min, c.max, 0)
      BY <1>9 DEF Units!ParseInstrument, Units!MexcParseInstrument
    <2>2. Units!Or(c.step, 1) \in Nat \ {0}
      BY <1>3 DEF Units!Or
    <2> QED  BY <1>2, <1>3, <1>9, <2>1, <2>2 DEF Units!Instrument, Units!CoinsPerUnit
  <1>10. CASE x = "hyperliquid"
    <2>1. i = Units!Instrument(c.mult, c.mult, c.step, c.step, None, MinOrderUsd)
      BY <1>10 DEF Units!ParseInstrument, Units!HyperliquidParseInstrument
    <2> QED  BY <1>2, <1>3, <1>10, <2>1 DEF Units!Instrument, Units!CoinsPerUnit
  <1> QED  BY <1>4, <1>5, <1>6, <1>7, <1>8, <1>9, <1>10 DEF Adapters

(* plan_quantity: what is planned is no more than wanted, and whole units of    *)
(* either exchange.                                                             *)
LoadedInstrument(i) ==
    i.qtyUnit \in Nat \ {0} /\ i.step \in Nat \ {0} /\ i.max \in Nat \cup {None}

LEMMA PlannedIsWhole ==
    ASSUME None \notin Int, NEW tokens \in Nat, NEW long, NEW short, LoadedInstrument(long), LoadedInstrument(short),
           NEW q, q = Units!PlanQuantity(tokens, long, short), q # None
    PROVE  /\ q \in Nat \ {0} /\ q <= tokens
           /\ Units!ToUnits(q, long) * long.qtyUnit = q
           /\ Units!ToUnits(q, short) * short.qtyUnit = q
  <1> DEFINE step == Units!LeastCommonMultiple(Units!StepTokens(long), Units!StepTokens(short))
  <1> DEFINE ceilings == Units!Ceilings(long) \cup Units!Ceilings(short)
  <1> DEFINE floors == {Units!Floor(tokens, step)} \cup {Units!Floor(c, step) : c \in ceilings}
  <1> DEFINE qty == CHOOSE y \in floors : \A other \in floors : y <= other
  <1>1. Units!StepTokens(long) \in Nat \ {0} /\ Units!StepTokens(short) \in Nat \ {0}
    BY Products DEF Units!StepTokens, LoadedInstrument
  <1>2. step \in Nat \ {0} /\ step % Units!StepTokens(long) = 0 /\ step % Units!StepTokens(short) = 0
    BY <1>1, CommonMultiple
  <1> HIDE DEF step
  <1>3. ceilings \subseteq Nat
    BY Products DEF Units!Ceilings, LoadedInstrument
  <1> HIDE DEF ceilings
  <1>4. \A c \in Nat : c \div step \in Nat /\ Units!Floor(c, step) \in Nat /\ Units!Floor(c, step) <= c
    BY <1>2, WholeParts, Products DEF Units!Floor
  <1>5. floors \subseteq Nat /\ floors # {}
    BY <1>3, <1>4
  <1>6. qty \in floors /\ \A other \in floors : qty <= other
    BY <1>5, LeastOf, Zenon
  <1>7. q = qty /\ qty > 0
    BY DEF Units!PlanQuantity, step, ceilings
  <1>8. PICK c \in Nat : qty = (c \div step) * step
    BY <1>3, <1>6 DEF Units!Floor
  <1>9. qty \in Nat /\ qty <= tokens
    <2>1. qty <= Units!Floor(tokens, step) /\ qty \in Nat
      BY <1>5, <1>6
    <2>2. Units!Floor(tokens, step) \in Nat /\ Units!Floor(tokens, step) <= tokens
      BY <1>4
    <2> HIDE DEF qty
    <2> QED  BY <2>1, <2>2
  <1> HIDE DEF qty
  <1>10. ASSUME NEW i, LoadedInstrument(i), step % Units!StepTokens(i) = 0 PROVE Units!ToUnits(q, i) * i.qtyUnit = q
    <2>1. i.step \in Nat \ {0} /\ i.qtyUnit \in Nat \ {0} /\ i.step * i.qtyUnit \in Nat \ {0}
      BY <1>10, Products DEF LoadedInstrument
    <2>2. step = (step \div (i.step * i.qtyUnit)) * (i.step * i.qtyUnit) /\ step \div (i.step * i.qtyUnit) \in Nat
      BY <1>2, <1>10, <2>1, WholeParts DEF Units!StepTokens
    <2> DEFINE j == step \div (i.step * i.qtyUnit)
    <2> DEFINE m == c \div step
    <2>3. j \in Nat /\ m \in Nat /\ step = j * (i.step * i.qtyUnit) /\ q = m * step
      BY <1>4, <1>7, <1>8, <2>2
    <2> HIDE DEF j, m
    <2>4. step = (j * i.step) * i.qtyUnit /\ j * i.step \in Nat
      BY <2>1, <2>3, Products
    <2>5. q = (m * (j * i.step)) * i.qtyUnit /\ m * (j * i.step) \in Nat
      BY <2>1, <2>3, <2>4, Products
    <2> QED  BY <2>1, <2>5, DivideBack DEF Units!ToUnits
  <1> QED  BY <1>2, <1>7, <1>9, <1>10

--------------------------------------------------------------------------------
(* The account of an exchange, the orders it gets and the rows it shows.        *)
Account == [held : Int, mode : {"isolated", "cross"}, leverage : Nat]

(* The margin mode asked for. *)
Margin == IF asked.isolated THEN "isolated" ELSE "cross"

LEMMA SettingIs ==
    ASSUME None \notin Int, NEW a \in Account, NEW s, s.leverage \in Nat \cup {None}
    PROVE  /\ Units!Set(a, s) \in Account
           /\ Units!Set(a, s).held = a.held
           /\ Units!Set(a, s).mode = IF s.mode = None THEN a.mode ELSE Units!Mode(s.mode)
           /\ Units!Set(a, s).leverage = IF s.leverage = None THEN a.leverage ELSE s.leverage
  <1> DEFINE m == IF s.mode = None THEN a.mode ELSE Units!Mode(s.mode)
  <1> DEFINE l == IF s.leverage = None THEN a.leverage ELSE s.leverage
  <1>1. Units!Set(a, s) = [held |-> a.held, mode |-> m, leverage |-> l]
    <2>1. Units!Set(a, s) = [a EXCEPT !.mode = m, !.leverage = l]
      BY Zenon DEF Units!Set
    <2>2. ASSUME NEW y, NEW z, NEW b, b = [a EXCEPT !.mode = y, !.leverage = z]
          PROVE  b = [held |-> a.held, mode |-> y, leverage |-> z]
      BY <2>2 DEF Account
    <2> QED  BY <2>1, <2>2, Zenon
  <1>2. Units!Mode(s.mode) \in {"isolated", "cross"}
    BY DEF Units!Mode
  <1> QED  BY <1>1, <1>2 DEF Account

(* The words of the adapters say what is meant. *)
LEMMA OrderIs ==
    ASSUME ContractsApart, NEW x \in Adapters, NEW leg \in Units!Legs, NEW opening \in BOOLEAN, NEW n \in Nat,
           NEW o, o = Units!PlaceMarketOrder(x, leg, opening, n)
    PROVE  /\ Units!Signed(o) = IF (leg = "long") = opening THEN n ELSE -n
           /\ o.reduce = ~opening
           /\ o.leverage = IF x \in {"kucoin", "mexc"} THEN Leverage ELSE None
           /\ o.mode = None \/ Units!Mode(o.mode) = Margin
           /\ x \in {"kucoin", "mexc"} => o.mode # None
  <1> DEFINE buying == (leg = "long") = opening
  <1> DEFINE Meant == /\ Units!Signed(o) = IF buying THEN n ELSE -n
                      /\ o.reduce = ~opening
                      /\ o.leverage = IF x \in {"kucoin", "mexc"} THEN Leverage ELSE None
                      /\ o.mode = None \/ Units!Mode(o.mode) = Margin
                      /\ x \in {"kucoin", "mexc"} => o.mode # None
  <1>0. buying \in BOOLEAN
    OBVIOUS
  <1>10. None \notin Words /\ Leverage # None
    BY DEF ContractsApart
  <1>1. ASSUME x \in {"binance", "aster"} PROVE Meant
    <2>1. o = Units!Order(IF buying THEN "BUY" ELSE "SELL", n, ~opening, None, None)
      BY <1>1 DEF Units!PlaceMarketOrder, Units!BinanceOrder, Units!Buying
    <2> HIDE DEF buying
    <2>2. o.side = IF buying THEN "BUY" ELSE "SELL"
      BY <2>1 DEF Units!Order
    <2>3. o.size = n
      BY <2>1 DEF Units!Order
    <2>4. o.reduce = ~opening
      BY <2>1 DEF Units!Order
    <2>5. o.mode = None
      BY <2>1 DEF Units!Order
    <2>6. o.leverage = None
      BY <2>1 DEF Units!Order
    <2>7. Units!Signed(o) = IF buying THEN n ELSE -n
      BY <1>0, <1>10, <2>2, <2>3 DEF Units!Signed, Words
    <2>8. o.mode = None \/ Units!Mode(o.mode) = Margin
      BY <2>5 DEF Units!Mode, Margin
    <2> QED  BY <1>10, <1>1, <2>4, <2>5, <2>6, <2>7, <2>8 DEF Words
  <1>2. ASSUME x = "bingx" PROVE Meant
    <2>1. o = Units!Order(IF buying THEN "BUY" ELSE "SELL", n, ~opening, None, None)
      BY <1>2 DEF Units!PlaceMarketOrder, Units!BingxOrder, Units!Buying
    <2> HIDE DEF buying
    <2>2. o.side = IF buying THEN "BUY" ELSE "SELL"
      BY <2>1 DEF Units!Order
    <2>3. o.size = n
      BY <2>1 DEF Units!Order
    <2>4. o.reduce = ~opening
      BY <2>1 DEF Units!Order
    <2>5. o.mode = None
      BY <2>1 DEF Units!Order
    <2>6. o.leverage = None
      BY <2>1 DEF Units!Order
    <2>7. Units!Signed(o) = IF buying THEN n ELSE -n
      BY <1>0, <1>10, <2>2, <2>3 DEF Units!Signed, Words
    <2>8. o.mode = None \/ Units!Mode(o.mode) = Margin
      BY <2>5 DEF Units!Mode, Margin
    <2> QED  BY <1>10, <1>2, <2>4, <2>5, <2>6, <2>7, <2>8 DEF Words
  <1>3. ASSUME x = "bybit" PROVE Meant
    <2>1. o = Units!Order(IF buying THEN "Buy" ELSE "Sell", n, ~opening, None, None)
      BY <1>3 DEF Units!PlaceMarketOrder, Units!BybitOrder, Units!Buying
    <2> HIDE DEF buying
    <2>2. o.side = IF buying THEN "Buy" ELSE "Sell"
      BY <2>1 DEF Units!Order
    <2>3. o.size = n
      BY <2>1 DEF Units!Order
    <2>4. o.reduce = ~opening
      BY <2>1 DEF Units!Order
    <2>5. o.mode = None
      BY <2>1 DEF Units!Order
    <2>6. o.leverage = None
      BY <2>1 DEF Units!Order
    <2>7. Units!Signed(o) = IF buying THEN n ELSE -n
      BY <1>0, <1>10, <2>2, <2>3 DEF Units!Signed, Words
    <2>8. o.mode = None \/ Units!Mode(o.mode) = Margin
      BY <2>5 DEF Units!Mode, Margin
    <2> QED  BY <1>10, <1>3, <2>4, <2>5, <2>6, <2>7, <2>8 DEF Words
  <1>4. ASSUME x = "bitget" PROVE Meant
    <2>1. o = Units!Order(IF buying THEN "buy" ELSE "sell", n, ~opening,
                          IF asked.isolated THEN "isolated" ELSE "crossed", None)
      BY <1>4 DEF Units!PlaceMarketOrder, Units!BitgetOrder, Units!Buying
    <2> HIDE DEF buying
    <2>2. o.side = IF buying THEN "buy" ELSE "sell"
      BY <2>1 DEF Units!Order
    <2>3. o.size = n
      BY <2>1 DEF Units!Order
    <2>4. o.reduce = ~opening
      BY <2>1 DEF Units!Order
    <2>5. o.mode = IF asked.isolated THEN "isolated" ELSE "crossed"
      BY <2>1 DEF Units!Order
    <2>6. o.leverage = None
      BY <2>1 DEF Units!Order
    <2>7. Units!Signed(o) = IF buying THEN n ELSE -n
      BY <1>0, <1>10, <2>2, <2>3 DEF Units!Signed, Words
    <2>8. o.mode = None \/ Units!Mode(o.mode) = Margin
      BY <2>5 DEF Units!Mode, Margin
    <2> QED  BY <1>10, <1>4, <2>4, <2>5, <2>6, <2>7, <2>8 DEF Words
  <1>5. ASSUME x = "gate" PROVE Meant
    <2>1. o = Units!Order(None, IF buying THEN n ELSE -n, ~opening, None, None)
      BY <1>5 DEF Units!PlaceMarketOrder, Units!GateOrder, Units!Buying
    <2> HIDE DEF buying
    <2>2. o.side = None
      BY <2>1 DEF Units!Order
    <2>3. o.size = IF buying THEN n ELSE -n
      BY <2>1 DEF Units!Order
    <2>4. o.reduce = ~opening
      BY <2>1 DEF Units!Order
    <2>5. o.mode = None
      BY <2>1 DEF Units!Order
    <2>6. o.leverage = None
      BY <2>1 DEF Units!Order
    <2>7. Units!Signed(o) = IF buying THEN n ELSE -n
      BY <1>0, <1>10, <2>2, <2>3 DEF Units!Signed, Words
    <2>8. o.mode = None \/ Units!Mode(o.mode) = Margin
      BY <2>5 DEF Units!Mode, Margin
    <2> QED  BY <1>10, <1>5, <2>4, <2>5, <2>6, <2>7, <2>8 DEF Words
  <1>6. ASSUME x = "kucoin" PROVE Meant
    <2>1. o = Units!Order(IF buying THEN "buy" ELSE "sell", n, ~opening,
                          IF asked.isolated THEN "ISOLATED" ELSE "CROSS", Leverage)
      BY <1>6 DEF Units!PlaceMarketOrder, Units!KucoinOrder, Units!Buying
    <2> HIDE DEF buying
    <2>2. o.side = IF buying THEN "buy" ELSE "sell"
      BY <2>1 DEF Units!Order
    <2>3. o.size = n
      BY <2>1 DEF Units!Order
    <2>4. o.reduce = ~opening
      BY <2>1 DEF Units!Order
    <2>5. o.mode = IF asked.isolated THEN "ISOLATED" ELSE "CROSS"
      BY <2>1 DEF Units!Order
    <2>6. o.leverage = Leverage
      BY <2>1 DEF Units!Order
    <2>7. Units!Signed(o) = IF buying THEN n ELSE -n
      BY <1>0, <1>10, <2>2, <2>3 DEF Units!Signed, Words
    <2>8. o.mode = None \/ Units!Mode(o.mode) = Margin
      BY <2>5 DEF Units!Mode, Margin
    <2> QED  BY <1>10, <1>6, <2>4, <2>5, <2>6, <2>7, <2>8 DEF Words
  <1>7. ASSUME x = "mexc" PROVE Meant
    <2> DEFINE word == IF opening THEN IF leg = "long" THEN "1" ELSE "3" ELSE IF leg = "long" THEN "4" ELSE "2"
    <2> DEFINE mode == IF asked.isolated THEN "openType 1" ELSE "openType 2"
    <2>1. o = [side |-> word, size |-> n, reduce |-> ~opening, mode |-> mode, leverage |-> Leverage]
      BY <1>7, Zenon DEF Units!PlaceMarketOrder, Units!MexcOrder, Units!Order
    <2> HIDE DEF buying, word, mode
    <2>2. o.side = word
      BY <2>1
    <2>3. o.size = n
      BY <2>1
    <2>4. o.reduce = ~opening
      BY <2>1
    <2>5. o.mode = mode
      BY <2>1
    <2>6. o.leverage = Leverage
      BY <2>1
    <2>7. Units!Signed(o) = IF buying THEN n ELSE -n
      BY <1>0, <1>10, <2>2, <2>3 DEF Units!Signed, Words, Units!Legs, word, buying
    <2>8. o.mode = None \/ Units!Mode(o.mode) = Margin
      BY <2>5 DEF Units!Mode, Margin, mode
    <2> QED  BY <1>10, <1>7, <2>4, <2>5, <2>6, <2>7, <2>8 DEF Words, mode
  <1>8. ASSUME x = "hyperliquid" PROVE Meant
    <2>1. o = Units!Order(IF buying THEN "buy" ELSE "sell", n, ~opening, None, None)
      BY <1>8 DEF Units!PlaceMarketOrder, Units!HyperliquidOrder, Units!Buying
    <2> HIDE DEF buying
    <2>2. o.side = IF buying THEN "buy" ELSE "sell"
      BY <2>1 DEF Units!Order
    <2>3. o.size = n
      BY <2>1 DEF Units!Order
    <2>4. o.reduce = ~opening
      BY <2>1 DEF Units!Order
    <2>5. o.mode = None
      BY <2>1 DEF Units!Order
    <2>6. o.leverage = None
      BY <2>1 DEF Units!Order
    <2>7. Units!Signed(o) = IF buying THEN n ELSE -n
      BY <1>0, <1>10, <2>2, <2>3 DEF Units!Signed, Words
    <2>8. o.mode = None \/ Units!Mode(o.mode) = Margin
      BY <2>5 DEF Units!Mode, Margin
    <2> QED  BY <1>10, <1>8, <2>4, <2>5, <2>6, <2>7, <2>8 DEF Words
  <1>9. Meant
    BY <1>1, <1>2, <1>3, <1>4, <1>5, <1>6, <1>7, <1>8 DEF Adapters
  <1> QED  BY <1>9, Zenon

(* An order that opens adds to what is held, one that closes all of it leaves   *)
(* nothing.                                                                     *)
LEMMA ExecutedIs ==
    ASSUME ContractsApart, NEW a \in Account, NEW o, o.leverage \in Nat \cup {None}, NEW change \in Int, change = Units!Signed(o),
           NEW b, b = Units!Execute(a, o)
    PROVE  /\ b \in Account
           /\ ~o.reduce => b.held = a.held + change
           /\ o.reduce /\ change = -a.held => b.held = 0
           /\ b.mode = IF o.mode = None THEN a.mode ELSE Units!Mode(o.mode)
           /\ b.leverage = IF o.leverage = None THEN a.leverage ELSE o.leverage
  <1> DEFINE able == IF ~o.reduce THEN change
                     ELSE IF (change > 0) = (a.held > 0) THEN 0
                     ELSE IF Units!Abs(change) > Units!Abs(a.held) THEN -a.held ELSE change
  <1>1. b = [Units!Set(a, o) EXCEPT !.held = @ + able]
    BY DEF Units!Execute
  <1>2. /\ Units!Set(a, o) \in Account /\ Units!Set(a, o).held = a.held
        /\ Units!Set(a, o).mode = (IF o.mode = None THEN a.mode ELSE Units!Mode(o.mode))
        /\ Units!Set(a, o).leverage = (IF o.leverage = None THEN a.leverage ELSE o.leverage)
    BY SettingIs DEF ContractsApart
  <1>3. b = [held |-> a.held + able, mode |-> Units!Set(a, o).mode, leverage |-> Units!Set(a, o).leverage]
    BY <1>1, <1>2 DEF Account
  <1>4. a.held \in Int
    BY DEF Account
  <1>5. ~o.reduce => able = change
    OBVIOUS
  <1>6. ASSUME o.reduce, change = -a.held PROVE a.held + able = 0
    <2>1. CASE a.held = 0
      BY <1>6, <2>1
    <2>2. CASE a.held > 0
      <3>1. ~(change > 0) /\ ~(Units!Abs(change) > Units!Abs(a.held))
        BY <1>4, <1>6, <2>2 DEF Units!Abs
      <3>2. able = change
        BY <1>6, <2>2, <3>1
      <3> QED  BY <1>4, <1>6, <3>2
    <2>3. CASE a.held < 0
      <3>1. (change > 0) /\ ~(a.held > 0) /\ ~(Units!Abs(change) > Units!Abs(a.held))
        BY <1>4, <1>6, <2>3 DEF Units!Abs
      <3>2. able = change
        BY <1>6, <2>3, <3>1
      <3> QED  BY <1>4, <1>6, <3>2
    <2> QED  BY <1>4, <2>1, <2>2, <2>3
  <1>7. able \in Int
    BY <1>4 DEF Units!Abs
  <1> HIDE DEF able
  <1>8. b \in Account
    BY <1>2, <1>3, <1>4, <1>7 DEF Account
  <1>9. b.held = a.held + able
    BY <1>3
  <1>10. b.mode = Units!Set(a, o).mode /\ b.leverage = Units!Set(a, o).leverage
    BY <1>3
  <1> QED  BY <1>2, <1>5, <1>6, <1>8, <1>9, <1>10

(* The account after its leg was opened, and after it was closed. *)
MarginKept(x, a, b) ==
    /\ b \in Account
    /\ b.mode \in {a.mode, Margin} /\ (x \in {"kucoin", "mexc"} => b.mode = Margin)
    /\ b.leverage = IF x \in {"kucoin", "mexc"} THEN Leverage ELSE a.leverage

LegOpened(x, leg, n, a, b) == MarginKept(x, a, b) /\ b.held = a.held + IF leg = "long" THEN n ELSE -n

LegClosed(x, a, b) == MarginKept(x, a, b) /\ b.held = 0

LEMMA ClosedOut ==
    ASSUME ContractsApart, NEW a \in Account, NEW o, o.leverage \in Nat \cup {None}, o.reduce, Units!Signed(o) = -a.held,
           NEW b, b = Units!Execute(a, o)
    PROVE  b.held = 0
  <1> DEFINE change == Units!Signed(o)
  <1>1. change \in Int /\ change = -a.held
    BY DEF Account
  <1> HIDE DEF change
  <1>2. o.reduce /\ change = -a.held => b.held = 0
    BY <1>1, ExecutedIs DEF change
  <1> QED  BY <1>1, <1>2

LEMMA AddedUp ==
    ASSUME ContractsApart, NEW a \in Account, NEW o, o.leverage \in Nat \cup {None}, ~o.reduce, NEW n \in Int, Units!Signed(o) = n,
           NEW b, b = Units!Execute(a, o)
    PROVE  b.held = a.held + n
  <1>1. ~o.reduce => b.held = a.held + n
    BY ExecutedIs
  <1> QED  BY <1>1

LEMMA OpeningIs ==
    ASSUME ContractsApart, NEW a \in Account, NEW x \in Adapters, NEW leg \in Units!Legs, NEW n \in Nat,
           NEW b, b = Units!Execute(a, Units!PlaceMarketOrder(x, leg, TRUE, n))
    PROVE  LegOpened(x, leg, n, a, b)
  <1> DEFINE o == Units!PlaceMarketOrder(x, leg, TRUE, n)
  <1> DEFINE change == IF leg = "long" THEN n ELSE -n
  <1>0. /\ Units!Signed(o) = (IF (leg = "long") = TRUE THEN n ELSE -n)
        /\ o.reduce = ~TRUE
        /\ o.leverage = (IF x \in {"kucoin", "mexc"} THEN Leverage ELSE None)
        /\ o.mode = None \/ Units!Mode(o.mode) = Margin
        /\ x \in {"kucoin", "mexc"} => o.mode # None
    BY OrderIs
  <1>1. /\ Units!Signed(o) = (IF (leg = "long") = TRUE THEN n ELSE -n)
        /\ ~o.reduce
        /\ o.leverage = (IF x \in {"kucoin", "mexc"} THEN Leverage ELSE None)
        /\ o.mode = None \/ Units!Mode(o.mode) = Margin
        /\ x \in {"kucoin", "mexc"} => o.mode # None
    BY <1>0
  <1>2. b = Units!Execute(a, o) /\ change \in Int
    OBVIOUS
  <1> HIDE DEF o
  <1>3. Units!Signed(o) = change /\ o.leverage \in Nat \cup {None}
    BY <1>1 DEF ContractsApart
  <1> HIDE DEF change
  <1>4. b \in Account
    BY <1>2, <1>3, ExecutedIs, Zenon
  <1>9. b.held = a.held + change
    BY <1>1, <1>2, <1>3, AddedUp, Zenon
  <1>5. b.mode = IF o.mode = None THEN a.mode ELSE Units!Mode(o.mode)
    BY <1>2, <1>3, ExecutedIs, Zenon
  <1>6. b.leverage = IF o.leverage = None THEN a.leverage ELSE o.leverage
    BY <1>2, <1>3, ExecutedIs, ZenonT(40)
  <1>7. b.mode \in {a.mode, Margin} /\ (x \in {"kucoin", "mexc"} => b.mode = Margin)
    BY <1>1, <1>5
  <1>8. b.leverage = IF x \in {"kucoin", "mexc"} THEN Leverage ELSE a.leverage
    <2>1. Leverage # None
      BY DEF ContractsApart
    <2> QED  BY <1>1, <1>6, <2>1
  <1> QED  BY <1>1, <1>4, <1>7, <1>8, <1>9 DEF change, LegOpened, MarginKept

LEMMA ClosingIs ==
    ASSUME ContractsApart, NEW a \in Account, NEW x \in Adapters, NEW leg \in Units!Legs, NEW n \in Nat,
           a.held = (IF leg = "long" THEN n ELSE -n),
           NEW b, b = Units!Execute(a, Units!PlaceMarketOrder(x, leg, FALSE, n))
    PROVE  LegClosed(x, a, b)
  <1> DEFINE o == Units!PlaceMarketOrder(x, leg, FALSE, n)
  <1> DEFINE change == IF leg = "long" THEN -n ELSE n
  <1>0. /\ Units!Signed(o) = (IF (leg = "long") = FALSE THEN n ELSE -n)
        /\ o.reduce = ~FALSE
        /\ o.leverage = (IF x \in {"kucoin", "mexc"} THEN Leverage ELSE None)
        /\ o.mode = None \/ Units!Mode(o.mode) = Margin
        /\ x \in {"kucoin", "mexc"} => o.mode # None
    BY OrderIs
  <1>1. /\ Units!Signed(o) = (IF (leg = "long") = FALSE THEN n ELSE -n)
        /\ o.reduce
        /\ o.leverage = (IF x \in {"kucoin", "mexc"} THEN Leverage ELSE None)
        /\ o.mode = None \/ Units!Mode(o.mode) = Margin
    BY <1>0
  <1>2. b = Units!Execute(a, o) /\ change \in Int /\ change = -a.held
    OBVIOUS
  <1> HIDE DEF o
  <1>3. Units!Signed(o) = change /\ o.leverage \in Nat \cup {None}
    BY <1>1 DEF ContractsApart
  <1> HIDE DEF change
  <1>4. b \in Account
    BY <1>2, <1>3, ExecutedIs, Zenon
  <1>9. b.held = 0
    <2>1. Units!Signed(o) = -a.held
      BY <1>2, <1>3
    <2> QED  BY <1>1, <1>2, <1>3, <2>1, ClosedOut, Zenon
  <1>5. b.mode = IF o.mode = None THEN a.mode ELSE Units!Mode(o.mode)
    BY <1>2, <1>3, ExecutedIs, Zenon
  <1>6. b.leverage = IF o.leverage = None THEN a.leverage ELSE o.leverage
    BY <1>2, <1>3, ExecutedIs, ZenonT(40)
  <1>7. b.mode \in {a.mode, Margin} /\ (x \in {"kucoin", "mexc"} => b.mode = Margin)
    BY <1>0, <1>5
  <1>8. b.leverage = IF x \in {"kucoin", "mexc"} THEN Leverage ELSE a.leverage
    <2>1. Leverage # None
      BY DEF ContractsApart
    <2> QED  BY <1>1, <1>6, <2>1
  <1> QED  BY <1>4, <1>7, <1>8, <1>9 DEF LegClosed, MarginKept

(* The fields of a position that was read. *)
LEMMA PositionIs ==
    ASSUME NEW s, NEW q, NEW e, NEW l, NEW m, NEW p, p = Units!Position(s, q, e, l, m)
    PROVE  p.side = s /\ p.qty = q /\ p.entry = e /\ p.leverage = l /\ p.margin = m
  BY DEF Units!Position

(* parse_positions undoes what an exchange makes of an account to show it. *)
LEMMA ReadBack ==
    ASSUME ContractsApart, NEW x \in Adapters, NEW c, c.mult \in Nat \ {0}, NEW a \in Account, a.leverage # 0,
           NEW i, i.priceUnit = c.mult, NEW p, p = Units!ParsePosition(x, Units!Row(x, c, a), i)
    PROVE  /\ a.held = 0 => p = None
           /\ a.held # 0 => p = Units!Position(IF a.held > 0 THEN "long" ELSE "short", Units!Abs(a.held) * i.qtyUnit,
                                              Units!TokenPrice, a.leverage, IF x = "bybit" THEN None ELSE a.mode)
  <1>1. Units!Price(c) \div i.priceUnit = Units!TokenPrice
    BY DivideBack DEF Units!Price, Units!TokenPrice
  <1>2. a.held \in Int /\ Units!Abs(a.held) \in Nat /\ Units!Abs(Units!Abs(a.held)) = Units!Abs(a.held)
        /\ (Units!Abs(a.held) = 0 <=> a.held = 0)
    BY DEF Account, Units!Abs
  <1>3. a.mode \in {"isolated", "cross"} /\ a.leverage \in Nat \ {0}
    BY DEF Account
  <1> DEFINE Shown == Units!Position(IF a.held > 0 THEN "long" ELSE "short", Units!Abs(a.held) * i.qtyUnit,
                                     Units!TokenPrice, a.leverage, IF x = "bybit" THEN None ELSE a.mode)
  <1> DEFINE row == Units!Row(x, c, a)
  <1>4. ASSUME x \in {"binance", "aster"} PROVE p = IF a.held = 0 THEN None ELSE Shown
    <2>1. row = [positionAmt |-> a.held, entryPrice |-> Units!Price(c), leverage |-> a.leverage, marginType |-> a.mode]
      BY <1>4 DEF Units!Row
    <2>2. p = Units!BinanceParsePosition(row, i)
      BY <1>4 DEF Units!ParsePosition
    <2> HIDE DEF row
    <2> QED  BY <1>1, <1>2, <1>3, <1>4, <2>1, <2>2 DEF Units!BinanceParsePosition, Units!SideOf
  <1>5. ASSUME x = "bingx" PROVE p = IF a.held = 0 THEN None ELSE Shown
    <2>1. row = [positionSide |-> "BOTH", positionAmt |-> a.held, avgPrice |-> Units!Price(c),
                 leverage |-> a.leverage, isolated |-> (a.mode = "isolated")]
      BY <1>5 DEF Units!Row
    <2>2. p = Units!BingxParsePosition(row, i)
      BY <1>5 DEF Units!ParsePosition
    <2> HIDE DEF row
    <2> QED  BY <1>1, <1>2, <1>3, <1>5, <2>1, <2>2 DEF Units!BingxParsePosition, Units!SideOf
  <1>6. ASSUME x = "bybit" PROVE p = IF a.held = 0 THEN None ELSE Shown
    <2>1. row = [side |-> IF a.held > 0 THEN "Buy" ELSE "Sell", size |-> Units!Abs(a.held), avgPrice |-> Units!Price(c),
                 leverage |-> a.leverage, tradeMode |-> None]
      BY <1>6 DEF Units!Row
    <2>2. p = Units!BybitParsePosition(row, i)
      BY <1>6 DEF Units!ParsePosition
    <2> HIDE DEF row
    <2> QED  BY <1>1, <1>2, <1>3, <1>6, <2>1, <2>2 DEF Units!BybitParsePosition
  <1>7. ASSUME x = "bitget" PROVE p = IF a.held = 0 THEN None ELSE Shown
    <2>1. row = [holdSide |-> IF a.held > 0 THEN "long" ELSE "short", total |-> Units!Abs(a.held),
                 openPriceAvg |-> Units!Price(c), leverage |-> a.leverage,
                 marginMode |-> IF a.mode = "isolated" THEN "isolated" ELSE "crossed"]
      BY <1>7 DEF Units!Row
    <2>2. p = Units!BitgetParsePosition(row, i)
      BY <1>7 DEF Units!ParsePosition
    <2> HIDE DEF row
    <2> QED  BY <1>1, <1>2, <1>3, <1>7, <2>1, <2>2 DEF Units!BitgetParsePosition
  <1>8. ASSUME x = "gate" PROVE p = IF a.held = 0 THEN None ELSE Shown
    <2>1. row = [size |-> a.held, entry_price |-> Units!Price(c), leverage |-> IF a.mode = "isolated" THEN a.leverage ELSE 0,
                 cross_leverage_limit |-> IF a.mode = "isolated" THEN 0 ELSE a.leverage]
      BY <1>8 DEF Units!Row
    <2>2. p = Units!GateParsePosition(row, i)
      BY <1>8 DEF Units!ParsePosition
    <2> HIDE DEF row
    <2> QED  BY <1>1, <1>2, <1>3, <1>8, <2>1, <2>2 DEF Units!GateParsePosition, Units!SideOf
  <1>9. ASSUME x = "kucoin" PROVE p = IF a.held = 0 THEN None ELSE Shown
    <2>1. row = [currentQty |-> a.held, avgEntryPrice |-> Units!Price(c), leverage |-> a.leverage,
                 marginMode |-> IF a.mode = "isolated" THEN "ISOLATED" ELSE "CROSS"]
      BY <1>9 DEF Units!Row
    <2>2. p = Units!KucoinParsePosition(row, i)
      BY <1>9 DEF Units!ParsePosition
    <2> HIDE DEF row
    <2> QED  BY <1>1, <1>2, <1>3, <1>9, <2>1, <2>2 DEF Units!KucoinParsePosition, Units!SideOf
  <1>10. ASSUME x = "mexc" PROVE p = IF a.held = 0 THEN None ELSE Shown
    <2>1. row = [positionType |-> IF a.held > 0 THEN 1 ELSE 2, holdVol |-> Units!Abs(a.held), holdAvgPrice |-> Units!Price(c),
                 leverage |-> a.leverage, openType |-> IF a.mode = "isolated" THEN 1 ELSE 2]
      BY <1>10 DEF Units!Row
    <2>2. p = Units!MexcParsePosition(row, i)
      BY <1>10 DEF Units!ParsePosition
    <2> HIDE DEF row
    <2> QED  BY <1>1, <1>2, <1>3, <1>10, <2>1, <2>2 DEF Units!MexcParsePosition
  <1>11. ASSUME x = "hyperliquid" PROVE p = IF a.held = 0 THEN None ELSE Shown
    <2>1. row = [szi |-> a.held, entryPx |-> Units!Price(c), positionValue |-> Units!Abs(a.held) * Units!Price(c),
                 value |-> a.leverage, type |-> a.mode]
      BY <1>11 DEF Units!Row
    <2>2. p = Units!HyperliquidParsePosition(row, i)
      BY <1>11 DEF Units!ParsePosition
    <2> HIDE DEF row
    <2> QED  BY <1>1, <1>2, <1>3, <1>11, <2>1, <2>2 DEF Units!HyperliquidParsePosition, Units!SideOf
  <1>12. p = IF a.held = 0 THEN None ELSE Shown
    BY <1>4, <1>5, <1>6, <1>7, <1>8, <1>9, <1>10, <1>11 DEF Adapters
  <1> QED  BY <1>12

--------------------------------------------------------------------------------
(* The settings of prepare_symbol still to come leave the account as asked, and *)
(* none of them is refused for being set already.                               *)
Fits(x, a) ==
    /\ x # "bybit" => a.mode = Margin
    /\ a.leverage = Leverage \/ (x = "kucoin" /\ asked.isolated)

Sayable(x, s) == s.leverage \in Nat \cup {None} /\ (Units!RefusesSame(x, s) => s.same)

WillFit(x, a, settings) ==
    \/ settings = <<>> /\ Fits(x, a)
    \/ \E s : settings = <<s>> /\ Sayable(x, s) /\ Fits(x, Units!Set(a, s))
    \/ \E s, t : settings = <<s, t>> /\ Sayable(x, s) /\ Sayable(x, t) /\ Fits(x, Units!Set(Units!Set(a, s), t))

LEMMA PreparedFits ==
    ASSUME ContractsApart, NEW x \in Adapters, NEW a \in Account, asked.isolated \in BOOLEAN
    PROVE  WillFit(x, a, Units!PrepareSymbol(x, asked.isolated, a.mode))
  <1> DEFINE t == Units!PrepareSymbol(x, asked.isolated, a.mode)
  <1> DEFINE isolated == asked.isolated
  <1>1. None \notin Words /\ Leverage \in Nat /\ Leverage # None /\ None \notin Int
    BY DEF ContractsApart
  <1>3. ASSUME x \in {"binance", "aster"} PROVE WillFit(x, a, t)
    <2> DEFINE s == Units!Setting(None, Leverage, FALSE)
    <2> DEFINE r == Units!Setting(IF isolated THEN "ISOLATED" ELSE "CROSSED", None, TRUE)
    <2>1. t = <<s, r>>
      BY <1>3 DEF Units!PrepareSymbol, Units!BinancePrepareSymbol, Units!AsterPrepareSymbol
    <2>2. s.mode = None /\ s.leverage = Leverage /\ r.mode = (IF isolated THEN "ISOLATED" ELSE "CROSSED") /\ r.leverage = None /\ r.same
      BY DEF Units!Setting
    <2> HIDE DEF s, r, t
    <2>3. Units!Set(a, s) \in Account /\ Units!Set(a, s).leverage = Leverage
      BY <1>1, <2>2, SettingIs
    <2>4. Units!Set(Units!Set(a, s), r).leverage = Leverage /\ Units!Set(Units!Set(a, s), r).mode = Units!Mode(r.mode)
      BY <1>1, <2>2, <2>3, SettingIs DEF Words
    <2>5. Units!Mode(r.mode) = Margin
      BY <2>2 DEF Units!Mode, Margin
    <2> QED  BY <1>1, <1>3, <2>1, <2>2, <2>4, <2>5 DEF WillFit, Fits, Sayable, Units!RefusesSame
  <1>4. ASSUME x = "bingx" PROVE WillFit(x, a, t)
    <2> DEFINE word == IF isolated THEN "ISOLATED" ELSE "CROSSED"
    <2> DEFINE s == Units!Setting(word, None, FALSE)
    <2> DEFINE r == Units!Setting(None, Leverage, FALSE)
    <2> DEFINE has == IF a.mode = "isolated" THEN "ISOLATED" ELSE "CROSSED"
    <2>1. t = (IF has # word THEN <<s>> ELSE <<>>) \o <<r>>
      BY <1>4 DEF Units!PrepareSymbol, Units!BingxPrepareSymbol
    <2>2. s.mode = word /\ s.leverage = None /\ r.mode = None /\ r.leverage = Leverage
      BY DEF Units!Setting
    <2>3. (has = word <=> a.mode = Margin) /\ Units!Mode(word) = Margin /\ word # None
      BY <1>1 DEF Units!Mode, Margin, Account, Words
    <2> HIDE DEF s, r, t, word, has
    <2>4. Sayable(x, s) /\ Sayable(x, r)
      BY <1>1, <1>4, <2>2 DEF Sayable, Units!RefusesSame
    <2>5. CASE has = word
      <3>1. t = <<r>>
        BY <2>1, <2>5, JoinTrims
      <3>2. Units!Set(a, r).mode = Margin /\ Units!Set(a, r).leverage = Leverage
        BY <1>1, <2>2, <2>3, <2>5, SettingIs
      <3> QED  BY <2>4, <3>1, <3>2 DEF WillFit, Fits
    <2>6. CASE has # word
      <3>1. t = <<s, r>>
        BY <2>1, <2>6, JoinTrims
      <3>2. Units!Set(a, s) \in Account /\ Units!Set(a, s).mode = Margin
        BY <1>1, <2>2, <2>3, SettingIs
      <3>3. Units!Set(Units!Set(a, s), r).mode = Margin /\ Units!Set(Units!Set(a, s), r).leverage = Leverage
        BY <1>1, <2>2, <3>2, SettingIs
      <3> QED  BY <2>4, <3>1, <3>3 DEF WillFit, Fits
    <2> QED  BY <2>5, <2>6
  <1>5. ASSUME x = "bybit" PROVE WillFit(x, a, t)
    <2> DEFINE s == Units!Setting(None, Leverage, TRUE)
    <2>1. t = <<s>>
      BY <1>5 DEF Units!PrepareSymbol, Units!BybitPrepareSymbol
    <2>2. s.mode = None /\ s.leverage = Leverage /\ s.same
      BY DEF Units!Setting
    <2> HIDE DEF s, t
    <2>3. Units!Set(a, s).leverage = Leverage
      BY <1>1, <2>2, SettingIs
    <2> QED  BY <1>1, <1>5, <2>1, <2>2, <2>3 DEF WillFit, Fits, Sayable
  <1>6. ASSUME x = "bitget" PROVE WillFit(x, a, t)
    <2> DEFINE r == Units!Setting(IF isolated THEN "isolated" ELSE "crossed", None, TRUE)
    <2> DEFINE s == Units!Setting(None, Leverage, FALSE)
    <2>1. t = <<r, s>>
      BY <1>6 DEF Units!PrepareSymbol, Units!BitgetPrepareSymbol
    <2>2. s.mode = None /\ s.leverage = Leverage /\ r.mode = (IF isolated THEN "isolated" ELSE "crossed") /\ r.leverage = None /\ r.same
      BY DEF Units!Setting
    <2> HIDE DEF s, r, t
    <2>3. Units!Mode(r.mode) = Margin /\ r.mode # None
      BY <1>1, <2>2 DEF Units!Mode, Margin, Words
    <2>4. Units!Set(a, r) \in Account /\ Units!Set(a, r).mode = Margin
      BY <1>1, <2>2, <2>3, SettingIs
    <2>5. Units!Set(Units!Set(a, r), s).leverage = Leverage /\ Units!Set(Units!Set(a, r), s).mode = Margin
      BY <1>1, <2>2, <2>4, SettingIs, SMTT(30)
    <2> QED  BY <1>1, <1>6, <2>1, <2>2, <2>5 DEF WillFit, Fits, Sayable, Units!RefusesSame
  <1>7. ASSUME x \in {"gate", "hyperliquid"} PROVE WillFit(x, a, t)
    <2> DEFINE word == IF x = "gate" THEN IF isolated THEN "leverage" ELSE "leverage 0"
                       ELSE IF isolated THEN "isolated" ELSE "cross"
    <2> DEFINE s == Units!Setting(word, Leverage, FALSE)
    <2>1. t = <<s>>
      BY <1>7, Zenon DEF Units!PrepareSymbol, Units!GatePrepareSymbol, Units!HyperliquidPrepareSymbol
    <2>2. s.mode = word /\ s.leverage = Leverage
      BY DEF Units!Setting
    <2> HIDE DEF s, t
    <2>3. Units!Mode(word) = Margin /\ word # None
      BY <1>1 DEF Units!Mode, Margin, Words
    <2> HIDE DEF word
    <2>4. Units!Set(a, s).leverage = Leverage /\ Units!Set(a, s).mode = Margin
      BY <1>1, <2>2, <2>3, SettingIs
    <2> QED  BY <1>1, <1>7, <2>1, <2>2, <2>4 DEF WillFit, Fits, Sayable, Units!RefusesSame
  <1>8. ASSUME x = "kucoin" PROVE WillFit(x, a, t)
    <2> DEFINE s == Units!Setting(IF isolated THEN "ISOLATED" ELSE "CROSS", None, FALSE)
    <2> DEFINE r == Units!Setting(None, Leverage, FALSE)
    <2>1. t = <<s>> \o IF isolated THEN <<>> ELSE <<r>>
      BY <1>8 DEF Units!PrepareSymbol, Units!KucoinPrepareSymbol
    <2>2. s.mode = (IF isolated THEN "ISOLATED" ELSE "CROSS") /\ s.leverage = None /\ r.mode = None /\ r.leverage = Leverage
      BY DEF Units!Setting
    <2> HIDE DEF s, r, t
    <2>3. Units!Mode(s.mode) = Margin /\ s.mode # None
      BY <1>1, <2>2 DEF Units!Mode, Margin, Words
    <2>4. Sayable(x, s) /\ Sayable(x, r)
      BY <1>1, <1>8, <2>2 DEF Sayable, Units!RefusesSame
    <2>5. Units!Set(a, s) \in Account /\ Units!Set(a, s).mode = Margin
      BY <1>1, <2>2, <2>3, SettingIs
    <2>6. CASE isolated
      <3>1. t = <<s>>
        BY <2>1, <2>6, JoinTrims
      <3> QED  BY <1>8, <2>4, <2>5, <2>6, <3>1 DEF WillFit, Fits
    <2>7. CASE ~isolated
      <3>1. t = <<s, r>>
        BY <2>1, <2>7, JoinTrims
      <3>2. Units!Set(Units!Set(a, s), r).leverage = Leverage /\ Units!Set(Units!Set(a, s), r).mode = Margin
        BY <1>1, <2>2, <2>5, SettingIs
      <3> QED  BY <2>4, <3>1, <3>2 DEF WillFit, Fits
    <2> QED  BY <2>6, <2>7
  <1>9. ASSUME x = "mexc" PROVE WillFit(x, a, t)
    <2> DEFINE s == Units!Setting(IF isolated THEN "openType 1" ELSE "openType 2", Leverage, FALSE)
    <2>1. t = <<s, s>>
      BY <1>9 DEF Units!PrepareSymbol, Units!MexcPrepareSymbol
    <2>2. s.mode = (IF isolated THEN "openType 1" ELSE "openType 2") /\ s.leverage = Leverage
      BY DEF Units!Setting
    <2> HIDE DEF s, t
    <2>3. Units!Mode(s.mode) = Margin /\ s.mode # None
      BY <1>1, <2>2 DEF Units!Mode, Margin, Words
    <2>4. Units!Set(a, s) \in Account
      BY <1>1, <2>2, SettingIs
    <2>5. Units!Set(Units!Set(a, s), s).leverage = Leverage /\ Units!Set(Units!Set(a, s), s).mode = Margin
      BY <1>1, <2>2, <2>3, <2>4, SettingIs
    <2> QED  BY <1>1, <1>9, <2>1, <2>2, <2>5 DEF WillFit, Fits, Sayable, Units!RefusesSame
  <1> QED  BY <1>3, <1>4, <1>5, <1>6, <1>7, <1>8, <1>9 DEF Adapters

LEMMA NextSetting ==
    ASSUME NEW x, NEW a, NEW settings, WillFit(x, a, settings), settings # <<>>
    PROVE  /\ Sayable(x, Head(settings))
           /\ WillFit(x, Units!Set(a, Head(settings)), Tail(settings))
  <1>1. ASSUME NEW s, settings = <<s>>, Sayable(x, s), Fits(x, Units!Set(a, s))
        PROVE  /\ Sayable(x, Head(settings))
               /\ WillFit(x, Units!Set(a, Head(settings)), Tail(settings))
    <2>1. Head(settings) = s /\ Tail(settings) = <<>>
      BY <1>1
    <2> QED  BY <1>1, <2>1 DEF WillFit
  <1>2. ASSUME NEW s, NEW t, settings = <<s, t>>, Sayable(x, s), Sayable(x, t), Fits(x, Units!Set(Units!Set(a, s), t))
        PROVE  /\ Sayable(x, Head(settings))
               /\ WillFit(x, Units!Set(a, Head(settings)), Tail(settings))
    <2>1. Head(settings) = s /\ Tail(settings) = <<t>>
      BY <1>2
    <2> QED  BY <1>2, <2>1 DEF WillFit
  <1> QED  BY <1>1, <1>2 DEF WillFit

--------------------------------------------------------------------------------
(* The pair, from the plan to the close. *)
Lot(leg) ==
    LET n == Units!ToUnits(quantity, Units!instrument[leg]) IN IF leg = "long" THEN n ELSE -n

Margined(leg) ==
    /\ venue[leg] # "bybit" => ledger[leg].mode = Margin
    /\ ledger[leg].leverage = Leverage

ReadAs(leg) ==
    position[leg] = Units!Position(leg, quantity, Units!TokenPrice, Leverage, IF venue[leg] = "bybit" THEN None ELSE Margin)

UnitShape ==
    /\ venue \in [Units!Legs -> Adapters]
    /\ \A leg \in Units!Legs :
           /\ SoundShape(contract[leg])
           /\ contract[leg].step = 0 => venue[leg] \notin {"bingx", "hyperliquid"}
    /\ asked.wanted \in Nat /\ asked.isolated \in BOOLEAN
    /\ failures \in Nat

Planned ==
    /\ quantity \in Nat \ {0} /\ quantity <= asked.wanted
    /\ \A leg \in Units!Legs :
           /\ Units!instrument[leg] # None
           /\ Units!ToUnits(quantity, Units!instrument[leg]) * Units!instrument[leg].qtyUnit = quantity

AccountsInv ==
    /\ ledger \in [Units!Legs -> Account]
    /\ stage \in {"new", "preparing", "closed", "flat"} => \A leg \in Units!Legs : ledger[leg].held = 0
    /\ stage \in {"open", "executed", "held"} => \A leg \in Units!Legs : ledger[leg].held = Lot(leg)
    /\ stage \in {"open", "executed", "held", "closed", "flat"} => \A leg \in Units!Legs : Margined(leg)

SettingsInv ==
    /\ todo = [leg \in Units!Legs |-> todo[leg]]
    /\ stage = "preparing" => \A leg \in Units!Legs : WillFit(venue[leg], ledger[leg], todo[leg])

PositionsInv ==
    /\ stage = "held" => \A leg \in Units!Legs : ReadAs(leg)
    /\ stage = "flat" => \A leg \in Units!Legs : position[leg] = None

UnitInv ==
    /\ UnitShape
    /\ stage \in {"new", "preparing", "refused", "open", "executed", "held", "closed", "flat"}
    /\ stage # "new" => Planned
    /\ AccountsInv /\ SettingsInv /\ PositionsInv
    /\ stage = "refused" => failures > 0

(* One contract counts as many tokens to the terminal as to its exchange. *)
LEMMA UnitsOf ==
    ASSUME ContractsApart, UnitShape, NEW leg \in Units!Legs, Units!instrument[leg] # None
    PROVE  /\ venue[leg] \in Adapters /\ contract[leg].mult \in Nat \ {0}
           /\ Units!instrument[leg].qtyUnit = Units!CoinsPerUnit(venue[leg], contract[leg]) * contract[leg].mult
           /\ Units!CoinsPerUnit(venue[leg], contract[leg]) \in Nat
           /\ LoadedInstrument(Units!instrument[leg])
           /\ Units!instrument[leg].priceUnit = contract[leg].mult
  <1>1. venue[leg] \in Adapters /\ SoundShape(contract[leg])
        /\ (contract[leg].step = 0 => venue[leg] \notin {"bingx", "hyperliquid"})
    BY DEF UnitShape
  <1>2. Units!instrument[leg] = Units!ParseInstrument(venue[leg], contract[leg])
    BY DEF Units!instrument
  <1>3. Units!CoinsPerUnit(venue[leg], contract[leg]) \in Nat /\ contract[leg].mult \in Nat \ {0}
    BY <1>1 DEF Units!CoinsPerUnit, SoundShape
  <1> QED  BY <1>1, <1>2, <1>3, LoadedIs DEF LoadedInstrument

(* What is planned is at least one unit of either exchange. *)
LEMMA LotIs ==
    ASSUME ContractsApart, UnitShape, Planned, NEW leg \in Units!Legs
    PROVE  LET n == Units!ToUnits(quantity, Units!instrument[leg]) IN
           /\ n \in Nat \ {0} /\ n * Units!instrument[leg].qtyUnit = quantity
           /\ Units!Abs(Lot(leg)) = n /\ Lot(leg) \in Int
           /\ leg = "long" => Lot(leg) > 0
           /\ leg = "short" => Lot(leg) < 0
  <1> DEFINE n == Units!ToUnits(quantity, Units!instrument[leg])
  <1>1. n * Units!instrument[leg].qtyUnit = quantity /\ quantity \in Nat \ {0}
    BY DEF Planned
  <1>2. Units!instrument[leg].qtyUnit \in Nat \ {0}
    BY UnitsOf DEF Planned, LoadedInstrument
  <1>3. n \in Nat
    BY <1>1, <1>2, WholeParts DEF Units!ToUnits
  <1>4. n # 0
    BY <1>1, <1>2, Products
  <1>5. Lot(leg) = IF leg = "long" THEN n ELSE -n
    BY DEF Lot
  <1> HIDE DEF n
  <1>6. Units!Abs(Lot(leg)) = n /\ Lot(leg) \in Int /\ (leg = "long" => Lot(leg) > 0) /\ (leg = "short" => Lot(leg) < 0)
    BY <1>3, <1>4, <1>5 DEF Units!Abs
  <1> QED  BY <1>1, <1>3, <1>4, <1>6 DEF n

LEMMA PlanKeeps ==
    ASSUME ContractsApart, UnitInv, Units!Plan
    PROVE  UnitInv'
  <1>1. /\ stage = "new" /\ stage' = "preparing" /\ UNCHANGED <<venue, contract, ledger, asked, failures, fills, position>>
        /\ \A leg \in Units!Legs : Units!instrument[leg] # None
        /\ quantity' = Units!PlanQuantity(asked.wanted, Units!instrument["long"], Units!instrument["short"]) /\ quantity' # None
        /\ todo' = [leg \in Units!Legs |-> Units!PrepareSymbol(venue[leg], asked.isolated, ledger[leg].mode)]
    BY DEF Units!Plan
  <1>2. UnitShape' /\ Units!instrument' = Units!instrument
    BY <1>1 DEF UnitInv, UnitShape, SoundShape, Units!instrument
  <1>3. LoadedInstrument(Units!instrument["long"]) /\ LoadedInstrument(Units!instrument["short"])
    BY <1>1, UnitsOf DEF UnitInv, Units!Legs
  <1>4. /\ quantity' \in Nat \ {0} /\ quantity' <= asked.wanted
        /\ Units!ToUnits(quantity', Units!instrument["long"]) * Units!instrument["long"].qtyUnit = quantity'
        /\ Units!ToUnits(quantity', Units!instrument["short"]) * Units!instrument["short"].qtyUnit = quantity'
    BY <1>1, <1>3, PlannedIsWhole DEF ContractsApart, UnitInv, UnitShape
  <1>5. Planned'
    BY <1>1, <1>2, <1>4 DEF Planned, Units!Legs, Units!ToUnits
  <1>6. AccountsInv' /\ PositionsInv'
    BY <1>1 DEF UnitInv, AccountsInv, PositionsInv
  <1>7. ASSUME NEW leg \in Units!Legs PROVE WillFit(venue[leg], ledger[leg], todo[leg])'
    <2>1. venue[leg] \in Adapters /\ ledger[leg] \in Account /\ asked.isolated \in BOOLEAN
      BY DEF UnitInv, UnitShape, AccountsInv
    <2>2. WillFit(venue[leg], ledger[leg], todo'[leg])
      BY <1>1, <2>1, PreparedFits
    <2> QED  BY <1>1, <2>2 DEF WillFit, Fits, Margin
  <1>8. SettingsInv'
    BY <1>1, <1>7 DEF SettingsInv
  <1> QED  BY <1>1, <1>2, <1>5, <1>6, <1>8 DEF UnitInv

LEMMA SettingKeeps ==
    ASSUME ContractsApart, UnitInv, NEW leg \in Units!Legs, Units!SettingAnswered(leg)
    PROVE  UnitInv'
  <1> DEFINE s == Head(todo[leg])
  <1>1. /\ stage = "preparing" /\ todo[leg] # <<>> /\ UNCHANGED <<venue, contract, asked, failures, quantity, fills, position>>
        /\ ledger' = [ledger EXCEPT ![leg] = Units!Set(@, s)]
    BY DEF Units!SettingAnswered
  <1>2. ledger \in [Units!Legs -> Account] /\ ledger[leg] \in Account
    BY DEF UnitInv, AccountsInv
  <1>3. Sayable(venue[leg], s) /\ WillFit(venue[leg], Units!Set(ledger[leg], s), Tail(todo[leg]))
    BY <1>1, NextSetting DEF UnitInv, SettingsInv
  <1>4. todo' = [todo EXCEPT ![leg] = Tail(@)] /\ stage' = stage
    BY <1>3, Zenon DEF Units!SettingAnswered, Units!Sent, Sayable
  <1>5. Units!Set(ledger[leg], s) \in Account /\ Units!Set(ledger[leg], s).held = ledger[leg].held
    BY <1>2, <1>3, SettingIs DEF Sayable, ContractsApart
  <1> HIDE DEF s
  <1>6. UnitShape' /\ Units!instrument' = Units!instrument
    BY <1>1 DEF UnitInv, UnitShape, SoundShape, Units!instrument
  <1>7. Planned' /\ PositionsInv'
    BY <1>1, <1>4, <1>6 DEF UnitInv, Planned, PositionsInv, Units!ToUnits
  <1>8. AccountsInv'
    BY <1>1, <1>2, <1>4, <1>5 DEF UnitInv, AccountsInv
  <1>9. ASSUME NEW other \in Units!Legs PROVE WillFit(venue[other], ledger[other], todo[other])'
    <2>1. WillFit(venue[other], ledger'[other], todo'[other])
      <3>1. todo = [l \in Units!Legs |-> todo[l]] /\ WillFit(venue[other], ledger[other], todo[other])
        BY <1>1 DEF UnitInv, SettingsInv
      <3>2. CASE other = leg
        BY <1>1, <1>2, <1>3, <1>4, <3>1, <3>2
      <3>3. CASE other # leg
        <4>1. ledger'[other] = ledger[other] /\ todo'[other] = todo[other]
          BY <1>1, <1>2, <1>4, <3>1, <3>3
        <4> QED  BY <3>1, <4>1
      <3> QED  BY <3>2, <3>3
    <2> QED  BY <1>1, <2>1 DEF WillFit, Fits, Margin
  <1>10. SettingsInv'
    BY <1>4, <1>9 DEF UnitInv, SettingsInv
  <1> QED  BY <1>1, <1>4, <1>6, <1>7, <1>8, <1>10 DEF UnitInv

LEMMA OpenKeeps ==
    ASSUME ContractsApart, UnitInv, Units!Open
    PROVE  UnitInv'
  <1>1. /\ stage = "preparing" /\ stage' = "open" /\ \A leg \in Units!Legs : todo[leg] = <<>>
        /\ UNCHANGED <<venue, contract, asked, todo, failures, quantity, fills, position>>
        /\ ledger' = [leg \in Units!Legs |->
              Units!Execute(ledger[leg], Units!PlaceMarketOrder(venue[leg], leg, TRUE,
                                                                Units!ToUnits(quantity, Units!instrument[leg])))]
    BY DEF Units!Open, Units!Send
  <1>2. UnitShape' /\ Units!instrument' = Units!instrument
    BY <1>1 DEF UnitInv, UnitShape, SoundShape, Units!instrument
  <1>3. Planned /\ Planned' /\ UnitShape
    BY <1>1, <1>2 DEF UnitInv, Planned, Units!ToUnits
  <1>4. ASSUME NEW leg \in Units!Legs
        PROVE  ledger'[leg] \in Account /\ ledger'[leg].held = Lot(leg)
               /\ (venue[leg] # "bybit" => ledger'[leg].mode = Margin) /\ ledger'[leg].leverage = Leverage
    <2> DEFINE n == Units!ToUnits(quantity, Units!instrument[leg])
    <2>1. n \in Nat
      BY <1>3, LotIs
    <2>2. ledger[leg] \in Account /\ ledger[leg].held = 0 /\ venue[leg] \in Adapters
      BY <1>1 DEF UnitInv, AccountsInv, UnitShape
    <2>3. Fits(venue[leg], ledger[leg])
      BY <1>1 DEF UnitInv, SettingsInv, WillFit
    <2>4. Lot(leg) = IF leg = "long" THEN n ELSE -n
      BY DEF Lot
    <2>5. ledger'[leg] = Units!Execute(ledger[leg], Units!PlaceMarketOrder(venue[leg], leg, TRUE, n))
      BY <1>1
    <2> HIDE DEF n
    <2> DEFINE b == ledger'[leg]
    <2> HIDE DEF b
    <2>6. b = Units!Execute(ledger[leg], Units!PlaceMarketOrder(venue[leg], leg, TRUE, n))
      BY <2>5 DEF b
    <2>7. LegOpened(venue[leg], leg, n, ledger[leg], b)
      BY <2>1, <2>2, <2>6, OpeningIs, Zenon
    <2> QED  BY <2>1, <2>2, <2>3, <2>4, <2>7 DEF Fits, LegOpened, MarginKept, b
  <1>5. AccountsInv'
    BY <1>1, <1>2, <1>4 DEF AccountsInv, Margined, Margin, Lot, Units!ToUnits
  <1>6. SettingsInv' /\ PositionsInv'
    BY <1>1 DEF UnitInv, SettingsInv, PositionsInv
  <1> QED  BY <1>1, <1>2, <1>3, <1>5, <1>6 DEF UnitInv

LEMMA ReadKeeps ==
    ASSUME ContractsApart, UnitInv, Units!FetchPositions
    PROVE  UnitInv'
  <1>1. /\ stage \in {"executed", "closed"} /\ stage' = (IF stage = "executed" THEN "held" ELSE "flat")
        /\ UNCHANGED <<venue, contract, ledger, asked, todo, failures, quantity, fills>>
        /\ position' = [leg \in Units!Legs |->
              Units!ParsePosition(venue[leg], Units!Row(venue[leg], contract[leg], ledger[leg]), Units!instrument[leg])]
    BY DEF Units!FetchPositions, Units!Read
  <1>2. UnitShape' /\ Units!instrument' = Units!instrument
    BY <1>1 DEF UnitInv, UnitShape, SoundShape, Units!instrument
  <1>3. Planned /\ Planned' /\ UnitShape
    BY <1>1, <1>2 DEF UnitInv, Planned, Units!ToUnits
  <1>4. \A leg \in Units!Legs : ledger[leg] \in Account /\ Margined(leg)
    BY <1>1 DEF UnitInv, AccountsInv
  <1>5. ASSUME NEW leg \in Units!Legs
        PROVE  /\ ledger[leg].held = 0 => position'[leg] = None
               /\ ledger[leg].held # 0 => position'[leg]
                    = Units!Position(IF ledger[leg].held > 0 THEN "long" ELSE "short",
                                     Units!Abs(ledger[leg].held) * Units!instrument[leg].qtyUnit, Units!TokenPrice,
                                     ledger[leg].leverage, IF venue[leg] = "bybit" THEN None ELSE ledger[leg].mode)
    <2>1. position'[leg] = Units!ParsePosition(venue[leg], Units!Row(venue[leg], contract[leg], ledger[leg]), Units!instrument[leg])
      BY <1>1
    <2>2. venue[leg] \in Adapters /\ contract[leg].mult \in Nat \ {0} /\ Units!instrument[leg].priceUnit = contract[leg].mult
      BY <1>3, UnitsOf DEF Planned
    <2>3. ledger[leg] \in Account /\ ledger[leg].leverage # 0
      BY <1>4 DEF Margined, ContractsApart
    <2> QED  BY <2>1, <2>2, <2>3, ReadBack
  <1>6. CASE stage = "executed"
    <2>1. ASSUME NEW leg \in Units!Legs PROVE ReadAs(leg)'
      <3> DEFINE n == Units!ToUnits(quantity, Units!instrument[leg])
      <3>1. ledger[leg].held = Lot(leg)
        BY <1>6 DEF UnitInv, AccountsInv
      <3>2. /\ n \in Nat \ {0} /\ n * Units!instrument[leg].qtyUnit = quantity
            /\ Units!Abs(Lot(leg)) = n /\ Lot(leg) \in Int
            /\ leg = "long" => Lot(leg) > 0
            /\ leg = "short" => Lot(leg) < 0
        BY <1>3, LotIs
      <3> HIDE DEF n
      <3>3. (IF ledger[leg].held > 0 THEN "long" ELSE "short") = leg /\ ledger[leg].held # 0
        BY <3>1, <3>2 DEF Units!Legs
      <3>4. position'[leg] = Units!Position(leg, quantity, Units!TokenPrice, ledger[leg].leverage,
                                            IF venue[leg] = "bybit" THEN None ELSE ledger[leg].mode)
        BY <1>5, <3>1, <3>2, <3>3
      <3>5. position'[leg] = Units!Position(leg, quantity, Units!TokenPrice, Leverage, IF venue[leg] = "bybit" THEN None ELSE Margin)
        BY <1>4, <3>4 DEF Margined
      <3> QED  BY <1>1, <3>5 DEF ReadAs, Margin
    <2>2. PositionsInv'
      BY <1>1, <1>6, <2>1 DEF PositionsInv
    <2>3. AccountsInv' /\ SettingsInv'
      BY <1>1, <1>2, <1>6 DEF UnitInv, AccountsInv, SettingsInv, Margined, Margin, Lot, Units!ToUnits
    <2> QED  BY <1>1, <1>2, <1>3, <1>6, <2>2, <2>3 DEF UnitInv
  <1>7. CASE stage = "closed"
    <2>1. PositionsInv'
      BY <1>1, <1>5, <1>7 DEF UnitInv, AccountsInv, PositionsInv
    <2>2. AccountsInv' /\ SettingsInv'
      BY <1>1, <1>2, <1>7 DEF UnitInv, AccountsInv, SettingsInv, Margined, Margin, Lot, Units!ToUnits
    <2> QED  BY <1>1, <1>2, <1>3, <1>7, <2>1, <2>2 DEF UnitInv
  <1> QED  BY <1>1, <1>6, <1>7

LEMMA CloseKeeps ==
    ASSUME ContractsApart, UnitInv, Units!Close
    PROVE  UnitInv'
  <1>1. /\ stage = "held" /\ stage' = "closed"
        /\ UNCHANGED <<venue, contract, asked, todo, failures, quantity, fills, position>>
    BY DEF Units!Close
  <1>2. ledger' = [leg \in Units!Legs |->
              Units!Execute(ledger[leg], Units!PlaceMarketOrder(venue[leg], leg, FALSE,
                  Units!ToUnits(IF position[leg] = None THEN 0 ELSE position[leg].qty, Units!instrument[leg])))]
    BY DEF Units!Close, Units!Send
  <1>3. UnitShape' /\ Units!instrument' = Units!instrument
    BY <1>1 DEF UnitInv, UnitShape, SoundShape, Units!instrument
  <1>4. Planned /\ Planned' /\ UnitShape
    BY <1>1, <1>3 DEF UnitInv, Planned, Units!ToUnits
  <1>5. ASSUME NEW leg \in Units!Legs
        PROVE  ledger'[leg] \in Account /\ ledger'[leg].held = 0
               /\ (venue[leg] # "bybit" => ledger'[leg].mode = Margin) /\ ledger'[leg].leverage = Leverage
    <2> DEFINE n == Units!ToUnits(quantity, Units!instrument[leg])
    <2>1. n \in Nat
      BY <1>4, LotIs
    <2>2. ledger[leg] \in Account /\ ledger[leg].held = Lot(leg) /\ venue[leg] \in Adapters /\ Margined(leg)
      BY <1>1 DEF UnitInv, AccountsInv, UnitShape
    <2>3. position[leg] # None /\ position[leg].qty = quantity
      <3>1. ReadAs(leg)
        BY <1>1 DEF UnitInv, PositionsInv
      <3>2. position[leg].qty = quantity
        BY <3>1, PositionIs DEF ReadAs
      <3>3. position[leg] # None
        BY <3>1 DEF ReadAs, ContractsApart
      <3> QED  BY <3>2, <3>3
    <2>4. Lot(leg) = IF leg = "long" THEN n ELSE -n
      BY DEF Lot
    <2>5. ledger'[leg] = Units!Execute(ledger[leg], Units!PlaceMarketOrder(venue[leg], leg, FALSE, n))
      BY <1>2, <2>3
    <2> HIDE DEF n
    <2> DEFINE b == ledger'[leg]
    <2> HIDE DEF b
    <2>6. b = Units!Execute(ledger[leg], Units!PlaceMarketOrder(venue[leg], leg, FALSE, n))
      BY <2>5 DEF b
    <2>7. ledger[leg].held = IF leg = "long" THEN n ELSE -n
      BY <2>2, <2>4
    <2>8. LegClosed(venue[leg], ledger[leg], b)
      BY <2>1, <2>2, <2>6, <2>7, ClosingIs, Zenon
    <2> QED  BY <2>2, <2>8 DEF Margined, LegClosed, MarginKept, b
  <1>6. AccountsInv'
    BY <1>1, <1>2, <1>5 DEF AccountsInv, Margined, Margin
  <1>7. SettingsInv' /\ PositionsInv'
    BY <1>1 DEF UnitInv, SettingsInv, PositionsInv
  <1> QED  BY <1>1, <1>3, <1>4, <1>6, <1>7 DEF UnitInv

LEMMA UnitsHold ==
    ASSUME ContractsApart PROVE SpecAll => []UnitInv
  <1>1. ASSUME InitAll PROVE UnitInv
    <2>1. /\ venue \in [Units!Legs -> LongExchanges \cup ShortExchanges]
          /\ contract \in [Units!Legs -> Shapes \cup ShortShapes]
          /\ \A leg \in Units!Legs : contract[leg].step = 0 => venue[leg] \notin Units!StepIsPrecision
          /\ asked \in [wanted : Wanted, isolated : BOOLEAN]
          /\ ledger \in [Units!Legs -> [held : {0}, mode : {"isolated", "cross"}, leverage : {1}]]
          /\ stage = "new" /\ failures = 0 /\ todo = [leg \in Units!Legs |-> <<>>]
      BY <1>1 DEF InitAll, Units!Init
    <2>2. UnitShape
      BY <2>1 DEF UnitShape, ContractsApart, Units!StepIsPrecision
    <2>3. AccountsInv
      BY <2>1 DEF AccountsInv, Account
    <2>4. SettingsInv /\ PositionsInv
      BY <2>1 DEF SettingsInv, PositionsInv
    <2> QED  BY <2>1, <2>2, <2>3, <2>4 DEF UnitInv
  <1>2. ASSUME UnitInv, [NextAll]_allVars PROVE UnitInv'
    <2>1. CASE Units!FetchFills
      <3>1. stage = "open" /\ stage' = "executed" /\ UNCHANGED <<venue, contract, ledger, asked, todo, failures, quantity, position>>
        BY <2>1 DEF Units!FetchFills
      <3> QED  BY <1>2, <3>1 DEF UnitInv, UnitShape, SoundShape, Planned, AccountsInv, SettingsInv, PositionsInv, WillFit, Fits, Margin,
                  Margined, Lot, Units!instrument, Units!ToUnits
    <2>2. ASSUME NEW leg \in Units!Legs, Units!SettingFails(leg) PROVE UnitInv'
      <3>1. stage = "preparing" /\ stage' = "refused" /\ failures' = failures + 1
            /\ UNCHANGED <<venue, contract, ledger, asked, todo, quantity, fills, position>>
        BY <2>2 DEF Units!SettingFails
      <3> QED  BY <1>2, <3>1 DEF UnitInv, UnitShape, SoundShape, Planned, AccountsInv, SettingsInv, PositionsInv,
                  Units!instrument, Units!ToUnits
    <2>3. CASE UNCHANGED contractVars
      <3>1. UNCHANGED <<venue, contract, ledger, asked, stage, todo, failures, quantity, position>>
        BY <2>3 DEF contractVars
      <3> QED  BY <1>2, <3>1 DEF UnitInv, UnitShape, SoundShape, Planned, AccountsInv, SettingsInv, PositionsInv, WillFit, Fits, Margin,
                  Margined, ReadAs, Lot, Units!instrument, Units!ToUnits
    <2> QED
      BY <1>2, <2>1, <2>2, <2>3, PlanKeeps, SettingKeeps, OpenKeeps, ReadKeeps, CloseKeeps
         DEF NextAll, ClickStep, LegsStep, OrderStep, ContractStep, Units!Next, AccountStep, BookStep, FundingStep, RadarStep, allVars
  <1> QED  BY <1>1, <1>2, PTL DEF SpecAll

(* CloseFlattens, for contracts of any size, step and limits: what is sent to   *)
(* close a pair closes all of it and opens nothing.                             *)
THEOREM CloseLeavesNothing ==
    ASSUME ContractsApart PROVE SpecAll => []CloseFlattens
  <1>1. UnitInv => CloseFlattens
    BY DEF UnitInv, AccountsInv, PositionsInv, CloseFlattens, Units!CloseFlattens
  <1> QED  BY <1>1, UnitsHold, PTL

(* MarginAsAsked, for any contracts, leverage and failures: a pair is held with *)
(* the leverage and the mode asked for, and nothing is refused for being set.   *)
THEOREM MarginsAreAsked ==
    ASSUME ContractsApart PROVE SpecAll => []MarginAsAsked
  <1>1. ASSUME UnitInv PROVE MarginAsAsked
    <2>1. ASSUME stage = "held", NEW leg \in Units!Legs
          PROVE  position[leg].leverage = Leverage /\ (venue[leg] # "bybit" => position[leg].margin = Margin)
      <3>1. ReadAs(leg)
        BY <1>1, <2>1 DEF UnitInv, PositionsInv
      <3>2. position[leg].leverage = Leverage /\ position[leg].margin = IF venue[leg] = "bybit" THEN None ELSE Margin
        BY <3>1, PositionIs DEF ReadAs
      <3> QED  BY <3>2
    <2> QED  BY <1>1, <2>1 DEF UnitInv, MarginAsAsked, Units!MarginAsAsked, Margin
  <1> QED  BY <1>1, UnitsHold, PTL

(* The part of UnitsAgree that counts: both exchanges hold the tokens planned,  *)
(* no more than wanted, on opposite sides, and they are read as that many.      *)
THEOREM LegsHoldThePlan ==
    ASSUME ContractsApart PROVE SpecAll => []Units!HeldAsPlanned
  <1>1. ASSUME UnitInv PROVE Units!HeldAsPlanned
    <2>1. ASSUME stage \in {"open", "executed", "held"}, NEW leg \in Units!Legs
          PROVE  Units!TokensHeld(leg) = quantity /\ (leg = "long" => ledger[leg].held > 0) /\ (leg = "short" => ledger[leg].held < 0)
      <3> DEFINE n == Units!ToUnits(quantity, Units!instrument[leg])
      <3>1. Planned /\ UnitShape /\ ledger[leg].held = Lot(leg)
        BY <1>1, <2>1 DEF UnitInv, AccountsInv
      <3>2. /\ n \in Nat \ {0} /\ n * Units!instrument[leg].qtyUnit = quantity
            /\ Units!Abs(Lot(leg)) = n
            /\ leg = "long" => Lot(leg) > 0
            /\ leg = "short" => Lot(leg) < 0
        BY <3>1, LotIs
      <3> HIDE DEF n
      <3>3. /\ Units!instrument[leg].qtyUnit = Units!CoinsPerUnit(venue[leg], contract[leg]) * contract[leg].mult
            /\ Units!CoinsPerUnit(venue[leg], contract[leg]) \in Nat /\ contract[leg].mult \in Nat
        BY <3>1, UnitsOf DEF Planned
      <3>4. Units!TokensHeld(leg) = (n * Units!CoinsPerUnit(venue[leg], contract[leg])) * contract[leg].mult
        BY <3>1, <3>2 DEF Units!TokensHeld
      <3>5. Units!TokensHeld(leg) = quantity
        BY <3>2, <3>3, <3>4, Products
      <3> QED  BY <3>1, <3>2, <3>5
    <2>2. stage \in {"open", "executed", "held"} => quantity <= asked.wanted
      BY <1>1 DEF UnitInv, Planned
    <2>3. stage = "held" => \A leg \in Units!Legs :
              position[leg].side = leg /\ position[leg].qty = quantity /\ position[leg].entry = Units!TokenPrice
      <3>1. ASSUME stage = "held", NEW leg \in Units!Legs
            PROVE  position[leg].side = leg /\ position[leg].qty = quantity /\ position[leg].entry = Units!TokenPrice
        <4>1. ReadAs(leg)
          BY <1>1, <3>1 DEF UnitInv, PositionsInv
        <4> QED  BY <4>1, PositionIs DEF ReadAs
      <3> QED  BY <3>1
    <2> QED  BY <2>1, <2>2, <2>3 DEF Units!HeldAsPlanned, Units!Legs
  <1> QED  BY <1>1, UnitsHold, PTL

--------------------------------------------------------------------------------
(* The order of the pairs *)

(* Lists of pairs, each of them once, and slices of at least one pair. *)
ListsApart ==
    /\ FullPass \in Nat /\ Slices \in Nat \ {0} /\ MostPerTick \in Nat \ {0}
    /\ \A c \in Listings : \E n \in Nat : c \in [1 .. n -> Ranking!Pairs]
    /\ \A c \in Listings : \A i, j \in DOMAIN c : c[i] = c[j] => i = j

LEMMA QuotientIs ==
    ASSUME NEW n \in Nat, NEW d \in Nat \ {0}
    PROVE  /\ n \div d \in Nat /\ (n \div d) * d <= n /\ n < (n \div d) * d + d
  BY Z3

LEMMA QuotientOf ==
    ASSUME NEW n \in Nat, NEW d \in Nat \ {0}, NEW q \in Nat, q * d <= n, n < q * d + d
    PROVE  n \div d = q
  BY Z3

LEMMA Grows ==
    ASSUME NEW m \in Nat, NEW n \in Nat, NEW d \in Nat, m <= n
    PROVE  m * d \in Nat /\ n * d \in Nat /\ m * d <= n * d /\ (m + 1) * d = m * d + d
  <1>1. \A k \in Nat : (m + k) * d = m * d + k * d /\ k * d \in Nat
    BY Z3
  <1>2. n - m \in Nat /\ n = m + (n - m)
    OBVIOUS
  <1>3. m * d \in Nat /\ n * d \in Nat /\ (m + 1) * d = m * d + d
    BY Z3
  <1> QED  BY <1>1, <1>2, <1>3

LEMMA SizeIs ==
    ASSUME ListsApart, NEW c \in Listings \cup {<<>>}
    PROVE  Ranking!Size(c) \in Nat /\ DOMAIN c = 1 .. Ranking!Size(c)
  <1>1. PICK n \in Nat : DOMAIN c = 1 .. n
    <2>1. CASE c = <<>>
      <3>1. DOMAIN c = 1 .. 0
        BY <2>1
      <3> QED  BY <3>1
    <2>2. CASE c \in Listings
      BY <2>2 DEF ListsApart
    <2> QED  BY <2>1, <2>2
  <1>2. Cardinality(1 .. n) = n
    BY FS_Interval
  <1>3. Ranking!Size(c) = Cardinality(DOMAIN c)
    BY Zenon DEF Ranking!Size, Ranking!Cardinality, Cardinality
  <1> QED  BY <1>1, <1>2, <1>3

(* Lists of the same pairs are of one length. *)
LEMMA SameSize ==
    ASSUME ListsApart, NEW c \in Listings \cup {<<>>}, NEW d \in Listings \cup {<<>>}, Ranking!PairsOf(c) = Ranking!PairsOf(d)
    PROVE  Ranking!Size(c) = Ranking!Size(d)
  <1>1. ASSUME NEW l \in Listings \cup {<<>>} PROVE IsFiniteSet(Ranking!PairsOf(l)) /\ Cardinality(Ranking!PairsOf(l)) = Ranking!Size(l)
    <2> DEFINE n == Ranking!Size(l)
    <2>1. n \in Nat /\ DOMAIN l = 1 .. n
      BY SizeIs
    <2>2. l \in [1 .. n -> Ranking!PairsOf(l)]
      <3>1. l = [i \in DOMAIN l |-> l[i]]
        <4>1. CASE l = <<>>
          BY <4>1
        <4>2. CASE l \in Listings
          <5>1. PICK m \in Nat : l \in [1 .. m -> Ranking!Pairs]
            BY <4>2 DEF ListsApart
          <5> QED  BY <5>1
        <4> QED  BY <4>1, <4>2
      <3> QED  BY <2>1, <3>1 DEF Ranking!PairsOf
    <2>3. \A i, j \in 1 .. n : l[i] = l[j] => i = j
      BY <2>1 DEF ListsApart
    <2>4. \A p \in Ranking!PairsOf(l) : \E i \in 1 .. n : l[i] = p
      BY <2>1 DEF Ranking!PairsOf
    <2> HIDE DEF n
    <2>5. l \in Bijection(1 .. n, Ranking!PairsOf(l))
      BY <2>2, <2>3, <2>4 DEF Bijection, Injection, Surjection, IsInjective
    <2>6. ExistsBijection(1 .. n, Ranking!PairsOf(l))
      BY <2>5 DEF ExistsBijection
    <2>7. IsFiniteSet(1 .. n) /\ Cardinality(1 .. n) = n
      BY <2>1, FS_Interval
    <2> QED  BY <2>6, <2>7, FS_Bijection DEF n
  <1> QED  BY <1>1

(* A pass of n pairs: its slices, and the one a place belongs to. *)
LEMMA SliceIs ==
    ASSUME ListsApart, NEW n \in Nat \ {0}
    PROVE  /\ Ranking!SliceSize(n) \in Nat \ {0} /\ Ranking!Round(n) \in 1 .. n
           /\ n > FullPass => /\ n <= Ranking!Round(n) * Ranking!SliceSize(n)
                              /\ Ranking!Round(n) * Ranking!SliceSize(n) < n + Ranking!SliceSize(n)
  <1>1. ASSUME NEW d \in Nat \ {0}
        PROVE  /\ Ranking!CeilDiv(n, d) \in 1 .. n
               /\ n <= Ranking!CeilDiv(n, d) * d /\ Ranking!CeilDiv(n, d) * d < n + d
    <2> DEFINE q == (n + d - 1) \div d
    <2>1. n + d - 1 \in Nat
      OBVIOUS
    <2>2. q \in Nat /\ q * d <= n + d - 1 /\ n + d - 1 < q * d + d
      BY <2>1, QuotientIs
    <2>3. Ranking!CeilDiv(n, d) = q
      BY DEF Ranking!CeilDiv
    <2> HIDE DEF q
    <2>4. q * d \in Nat
      BY <2>2, Grows
    <2>5. n <= q * d /\ q * d < n + d
      BY <2>2, <2>4
    <2>6. q # 0
      <3>1. q = 0 => q * d = 0
        OBVIOUS
      <3> QED  BY <2>5, <3>1
    <2>7. q <= n
      <3>1. ASSUME q >= n + 1 PROVE FALSE
        <4>1. (n + 1) * d <= q * d /\ (n + 1) * d = n * d + d /\ n * d \in Nat
          BY <2>2, <3>1, Grows
        <4>2. 1 * n <= d * n
          BY Grows
        <4>3. 1 * n = n /\ d * n = n * d
          BY Z3
        <4> QED  BY <2>4, <2>5, <4>1, <4>2, <4>3
      <3> QED  BY <2>2, <3>1
    <2> QED  BY <2>2, <2>3, <2>5, <2>6, <2>7
  <1>2. Ranking!SliceSize(n) \in Nat \ {0}
    <2>1. Slices \in Nat \ {0} /\ MostPerTick \in Nat \ {0}
      BY DEF ListsApart
    <2>2. Ranking!CeilDiv(n, Slices) \in 1 .. n
      BY <1>1, <2>1
    <2> QED  BY <2>1, <2>2 DEF Ranking!SliceSize
  <1>3. Ranking!Round(n) = IF n <= FullPass THEN 1 ELSE Ranking!CeilDiv(n, Ranking!SliceSize(n))
    BY DEF Ranking!Round
  <1> DEFINE s == Ranking!SliceSize(n)
  <1>4. Ranking!CeilDiv(n, s) \in 1 .. n /\ n <= Ranking!CeilDiv(n, s) * s /\ Ranking!CeilDiv(n, s) * s < n + s
    BY <1>1, <1>2
  <1>5. FullPass \in Nat
    BY DEF ListsApart
  <1>6. n > FullPass => ~(n <= FullPass)
    BY <1>5
  <1>7. 1 \in 1 .. n
    OBVIOUS
  <1> HIDE DEF s
  <1> QED  BY <1>2, <1>3, <1>4, <1>6, <1>7, Zenon DEF s

SliceOf(n, j) == IF n <= FullPass THEN 0 ELSE (j - 1) \div Ranking!SliceSize(n)

LEMMA PlaceIs ==
    ASSUME ListsApart, NEW n \in Nat \ {0}, NEW j \in 1 .. n, NEW k \in 0 .. Ranking!Round(n) - 1
    PROVE  /\ SliceOf(n, j) \in 0 .. Ranking!Round(n) - 1
           /\ (n <= FullPass \/ (j > k * Ranking!SliceSize(n) /\ j <= k * Ranking!SliceSize(n) + Ranking!SliceSize(n)))
                <=> SliceOf(n, j) = k
  <1> DEFINE s == Ranking!SliceSize(n)
  <1> DEFINE b == Ranking!Round(n)
  <1> DEFINE g == (j - 1) \div s
  <1>1. s \in Nat \ {0} /\ b \in 1 .. n /\ (n > FullPass => n <= b * s) /\ k \in Nat /\ FullPass \in Nat
    BY SliceIs DEF ListsApart
  <1>2. j - 1 \in Nat
    OBVIOUS
  <1> HIDE DEF s, b
  <1>3. g \in Nat /\ g * s <= j - 1 /\ j - 1 < g * s + s
    BY <1>1, <1>2, QuotientIs
  <1>4. CASE n <= FullPass
    <2>1. b = 1
      BY <1>4 DEF b, Ranking!Round
    <2> QED  BY <1>1, <1>4, <2>1 DEF SliceOf, b
  <1>5. CASE ~(n <= FullPass)
    <2>1. SliceOf(n, j) = g
      BY <1>5 DEF SliceOf, s
    <2>2. k * s \in Nat
      BY <1>1, Grows
    <2>3. ASSUME j > k * s, j <= k * s + s PROVE g = k
      <3>1. k * s <= j - 1 /\ j - 1 < k * s + s
        BY <1>2, <2>2, <2>3, <1>1
      <3> QED  BY <1>1, <1>2, <3>1, QuotientOf
    <2> HIDE DEF g
    <2>4. ASSUME g = k PROVE j > k * s /\ j <= k * s + s
      <3>1. k * s <= j - 1 /\ j - 1 < k * s + s
        BY <1>3, <2>4
      <3> QED  BY <1>1, <2>2, <3>1
    <2>5. g < b
      <3>1. ASSUME g >= b PROVE FALSE
        <4>1. b * s <= g * s /\ b * s \in Nat /\ g * s \in Nat
          BY <1>1, <1>3, <3>1, Grows
        <4> QED  BY <1>1, <1>3, <1>5, <4>1
      <3> QED  BY <1>1, <1>3, <3>1
    <2> QED  BY <1>1, <1>3, <1>5, <2>1, <2>3, <2>4, <2>5 DEF b, s
  <1> QED  BY <1>4, <1>5

LEMMA NextSlice ==
    ASSUME ListsApart, NEW n \in Nat \ {0}, NEW k \in 0 .. Ranking!Round(n) - 1
    PROVE  Ranking!NextCursor(n, k * Ranking!SliceSize(n))
             = IF k + 1 = Ranking!Round(n) THEN 0 ELSE (k + 1) * Ranking!SliceSize(n)
  <1> DEFINE s == Ranking!SliceSize(n)
  <1> DEFINE b == Ranking!Round(n)
  <1>1. s \in Nat \ {0} /\ b \in 1 .. n /\ k \in Nat /\ FullPass \in Nat /\ (n > FullPass => n <= b * s /\ b * s < n + s)
    BY SliceIs DEF ListsApart
  <1>2. Ranking!NextCursor(n, k * s) = IF n <= FullPass \/ k * s + s >= n THEN 0 ELSE k * s + s
    BY DEF Ranking!NextCursor
  <1>3. n <= FullPass => b = 1
    BY DEF Ranking!Round
  <1>6. k + 1 <= b
    BY <1>1
  <1> HIDE DEF s, b
  <1>4. (k + 1) * s = k * s + s /\ k * s \in Nat /\ (k + 1) * s <= b * s /\ b * s \in Nat
    BY <1>1, <1>6, Grows
  <1>5. CASE n <= FullPass
    <2>1. k + 1 = b
      BY <1>1, <1>3, <1>5, <1>6
    <2> QED  BY <1>2, <1>5, <2>1 DEF s, b
  <1>7. CASE ~(n <= FullPass)
    <2>1. CASE k + 1 = b
      BY <1>1, <1>2, <1>4, <1>7, <2>1 DEF s, b
    <2>2. CASE k + 1 # b
      <3>1. (k + 1) + 1 <= b
        BY <1>1, <1>6, <2>2
      <3>2. ((k + 1) + 1) * s <= b * s /\ ((k + 1) + 1) * s = (k + 1) * s + s
        BY <1>1, <3>1, Grows
      <3>3. k * s + s < n
        BY <1>1, <1>4, <1>7, <3>2
      <3> QED  BY <1>1, <1>2, <1>4, <1>7, <2>2, <3>3 DEF s, b
    <2> QED  BY <2>1, <2>2
  <1> QED  BY <1>5, <1>7

--------------------------------------------------------------------------------
(* Ticks since the slice of a place was refreshed, when slice k of b is next. *)
Age(b, k, g) == IF g < k THEN k - g ELSE b + k - g

TurnIs(n, k) == k \in 0 .. Ranking!Round(n) - 1 /\ cursor = k * Ranking!SliceSize(n)

(* What stood still since its slice was refreshed is ranked as it stands. *)
RankedUpTo(n, k) ==
    \A j \in 1 .. n :
        quiet[listing[j]] >= Age(Ranking!Round(n), k, SliceOf(n, j)) => tops[listing[j]] = Ranking!RoiOf(bests[listing[j]])

RadarInv ==
    /\ listing \in Listings
    /\ legs \in Listings \cup {<<>>}
    /\ quiet \in [Ranking!Pairs -> Nat]
    /\ DOMAIN bests = Ranking!Pairs
    /\ \E k \in Nat :
           /\ TurnIs(Ranking!Size(legs), k)
           /\ IF Ranking!PairsOf(listing) = Ranking!PairsOf(legs) THEN RankedUpTo(Ranking!Size(legs), k)
              ELSE \A p \in Ranking!Pairs : quiet[p] = 0

LEMMA PlacesAre ==
    ASSUME ListsApart, NEW c \in Listings
    PROVE  \A j \in 1 .. Ranking!Size(c) : c[j] \in Ranking!Pairs /\ c[j] \in Ranking!PairsOf(c)
  <1>1. DOMAIN c = 1 .. Ranking!Size(c)
    BY SizeIs
  <1>2. Ranking!PairsOf(c) \subseteq Ranking!Pairs
    BY DEF Ranking!Pairs
  <1> QED  BY <1>1, <1>2 DEF Ranking!PairsOf

(* The tick that refreshes slice k makes every other a tick older. *)
LEMMA Older ==
    ASSUME NEW b \in Nat \ {0}, NEW k \in 0 .. b - 1, NEW g \in 0 .. b - 1
    PROVE  /\ Age(b, k, g) \in 1 .. b
           /\ g # k => Age(b, IF k + 1 = b THEN 0 ELSE k + 1, g) = Age(b, k, g) + 1
  BY DEF Age

LEMMA TickRanks ==
    ASSUME ListsApart, RadarInv, Ranking!Tick
    PROVE  RadarInv'
  <1> DEFINE n == Ranking!Size(listing)
  <1> DEFINE b == Ranking!Round(n)
  <1> DEFINE s == Ranking!SliceSize(n)
  <1> DEFINE anew == Ranking!PairsOf(listing) # Ranking!PairsOf(legs)
  <1> DEFINE start == IF anew THEN 0 ELSE cursor
  <1> DEFINE kept == IF anew THEN [p \in Ranking!Pairs |-> IF p \in Ranking!PairsOf(listing) THEN tops[p] ELSE None] ELSE tops
  <1>1. /\ legs' = listing
        /\ IF listing = <<>> THEN tops' = kept /\ cursor' = start
           ELSE /\ tops' = [p \in Ranking!Pairs |-> IF p \in Ranking!Batch(listing, start) THEN Ranking!RoiOf(bests[p]) ELSE kept[p]]
                /\ cursor' = Ranking!NextCursor(n, start)
        /\ quiet' = [p \in Ranking!Pairs |-> IF quiet[p] <= n THEN quiet[p] + 1 ELSE quiet[p]]
        /\ listing' = listing /\ bests' = bests
    BY Zenon DEF Ranking!Tick
  <1>2. listing \in Listings /\ n \in Nat /\ DOMAIN listing = 1 .. n /\ quiet \in [Ranking!Pairs -> Nat]
    BY SizeIs DEF RadarInv
  <1>3. quiet' \in [Ranking!Pairs -> Nat] /\ \A p \in Ranking!Pairs : quiet[p] \in Nat /\ quiet'[p] <= quiet[p] + 1
    BY <1>1, <1>2
  <1>4. PICK k0 \in Nat : TurnIs(Ranking!Size(legs), k0) /\ (~anew => RankedUpTo(Ranking!Size(legs), k0))
                          /\ (anew => \A p \in Ranking!Pairs : quiet[p] = 0)
    BY DEF RadarInv
  <1>5. ~anew => Ranking!Size(legs) = n
    BY SameSize DEF RadarInv
  <1>6. b \in Nat \ {0}
    <2>1. CASE n = 0
      BY <2>1 DEF ListsApart, Ranking!Round
    <2>2. CASE n # 0
      BY <1>2, <2>2, SliceIs
    <2> QED  BY <2>1, <2>2
  <1>7. PICK k \in 0 .. b - 1 :
          /\ start = k * s
          /\ \A j \in 1 .. n : quiet[listing[j]] >= Age(b, k, SliceOf(n, j)) => kept[listing[j]] = Ranking!RoiOf(bests[listing[j]])
    <2>1. CASE anew
      <3>1. start = 0 * s
        <4>1. s \in Int
          <5>1. Ranking!CeilDiv(n, Slices) \in Int
            BY <1>2, QuotientIs DEF Ranking!CeilDiv, ListsApart
          <5> QED  BY <5>1 DEF Ranking!SliceSize, ListsApart
        <4>2. 0 * s = 0
          BY <4>1
        <4> QED  BY <2>1, <4>2
      <3>2. ASSUME NEW j \in 1 .. n PROVE ~(quiet[listing[j]] >= Age(b, 0, SliceOf(n, j)))
        <4>1. n \in Nat \ {0} /\ 0 \in 0 .. b - 1
          BY <1>2, <1>6
        <4>2. SliceOf(n, j) \in 0 .. b - 1
          BY <4>1, PlaceIs
        <4>3. Age(b, 0, SliceOf(n, j)) \in 1 .. b
          BY <1>6, <4>1, <4>2, Older
        <4>4. quiet[listing[j]] = 0
          BY <1>2, <1>4, <2>1, PlacesAre
        <4> QED  BY <4>3, <4>4
      <3>3. 0 \in 0 .. b - 1
        BY <1>6
      <3> HIDE DEF start, kept, b, s, n
      <3> QED  BY <3>1, <3>2, <3>3
    <2>2. CASE ~anew
      <3>1. TurnIs(n, k0) /\ RankedUpTo(n, k0)
        BY <1>4, <1>5, <2>2
      <3>2. k0 \in 0 .. b - 1 /\ start = k0 * s
        BY <2>2, <3>1 DEF TurnIs
      <3>3. \A j \in 1 .. n : quiet[listing[j]] >= Age(b, k0, SliceOf(n, j)) => kept[listing[j]] = Ranking!RoiOf(bests[listing[j]])
        BY <2>2, <3>1 DEF RankedUpTo
      <3> HIDE DEF start, kept, b, s, n
      <3> QED  BY <3>2, <3>3
    <2> QED  BY <2>1, <2>2
  <1>8. listing' \in Listings /\ legs' \in Listings \cup {<<>>} /\ DOMAIN bests' = Ranking!Pairs
        /\ Ranking!Size(legs)' = n /\ Ranking!PairsOf(listing)' = Ranking!PairsOf(legs)'
    BY <1>1, <1>2 DEF RadarInv, Ranking!Size, Ranking!PairsOf
  <1>9. \E m \in Nat : TurnIs(n, m)' /\ RankedUpTo(n, m)'
    <2>1. CASE n = 0
      <3>1. listing = <<>>
        <4>1. PICK m \in Nat : listing \in [1 .. m -> Ranking!Pairs]
          BY <1>2 DEF ListsApart
        <4>2. DOMAIN listing = {}
          BY <1>2, <2>1
        <4> QED  BY <4>1, <4>2
      <3>2. cursor' = k * s
        BY <1>1, <1>7, <3>1
      <3>3. TurnIs(n, k)'
        BY <1>1, <3>2 DEF TurnIs, Ranking!Size
      <3>4. RankedUpTo(n, k)'
        BY <1>1, <2>1 DEF RankedUpTo, Ranking!Size
      <3>5. k \in Nat
        BY <1>6
      <3> QED  BY <3>3, <3>4, <3>5
    <2>2. CASE n # 0
      <3> DEFINE next == IF k + 1 = b THEN 0 ELSE k + 1
      <3>1. n \in Nat \ {0} /\ listing # <<>>
        BY <1>2, <2>2
      <3>2. next \in 0 .. b - 1
        BY <1>6
      <3>3. cursor' = next * s
        <4>1. cursor' = IF k + 1 = b THEN 0 ELSE (k + 1) * s
          BY <1>1, <1>7, <3>1, NextSlice
        <4>2. 0 * s = 0
          BY <3>1, SliceIs
        <4> QED  BY <4>1, <4>2
      <3>4. TurnIs(n, next)'
        BY <1>1, <3>2, <3>3 DEF TurnIs, Ranking!Size
      <3>5. ASSUME NEW j \in 1 .. n, quiet'[listing[j]] >= Age(b, next, SliceOf(n, j))
            PROVE  tops'[listing[j]] = Ranking!RoiOf(bests[listing[j]])
        <4>1. listing[j] \in Ranking!Pairs
          BY <1>2, PlacesAre
        <4>2. CASE listing[j] \in Ranking!Batch(listing, start)
          BY <1>1, <3>1, <4>1, <4>2
        <4>3. CASE listing[j] \notin Ranking!Batch(listing, start)
          <5>1. ~(n <= FullPass \/ (j > start /\ j <= start + s))
            BY <4>3 DEF Ranking!Batch
          <5>2. SliceOf(n, j) \in 0 .. b - 1 /\ SliceOf(n, j) # k
            BY <1>7, <3>1, <5>1, PlaceIs
          <5>3. Age(b, k, SliceOf(n, j)) \in 1 .. b /\ Age(b, next, SliceOf(n, j)) = Age(b, k, SliceOf(n, j)) + 1
            BY <1>6, <5>2, Older
          <5>4. quiet[listing[j]] \in Nat /\ quiet'[listing[j]] \in Nat /\ quiet'[listing[j]] <= quiet[listing[j]] + 1
            BY <1>3, <4>1
          <5>5. quiet[listing[j]] >= Age(b, k, SliceOf(n, j))
            BY <3>5, <5>3, <5>4
          <5>6. kept[listing[j]] = Ranking!RoiOf(bests[listing[j]])
            BY <1>7, <5>5
          <5> QED  BY <1>1, <3>1, <4>1, <4>3, <5>6
        <4> QED  BY <4>2, <4>3
      <3>6. RankedUpTo(n, next)'
        BY <1>1, <3>5 DEF RankedUpTo, Ranking!Size
      <3>7. next \in Nat
        BY <1>6
      <3> QED  BY <3>4, <3>6, <3>7
    <2> QED  BY <2>1, <2>2
  <1>10. n' = Ranking!Size(legs)'
    BY <1>1 DEF Ranking!Size
  <1>11. quiet' \in [Ranking!Pairs -> Nat]
    BY <1>3
  <1> HIDE DEF n, b, s, anew, start, kept
  <1>12. \E m \in Nat : TurnIs(Ranking!Size(legs), m)' /\ RankedUpTo(Ranking!Size(legs), m)'
    BY <1>9, <1>10 DEF TurnIs, RankedUpTo
  <1> QED  BY <1>8, <1>11, <1>12, Zenon DEF RadarInv

(* Prices that move and catalogs that come make what depends on them fresh. *)
LEMMA NewsRank ==
    ASSUME ListsApart, RadarInv,
           \/ \E p \in Ranking!Pairs, m \in Bests : Ranking!PricesMove(p, m)
           \/ \E c \in Listings : Ranking!CatalogComes(c)
    PROVE  RadarInv'
  <1>1. PICK k \in Nat : TurnIs(Ranking!Size(legs), k)
                         /\ IF Ranking!PairsOf(listing) = Ranking!PairsOf(legs) THEN RankedUpTo(Ranking!Size(legs), k)
                            ELSE \A p \in Ranking!Pairs : quiet[p] = 0
    BY DEF RadarInv
  <1>2. legs' = legs /\ tops' = tops /\ cursor' = cursor
    BY DEF Ranking!PricesMove, Ranking!CatalogComes
  <1>3. TurnIs(Ranking!Size(legs), k)' /\ legs' \in Listings \cup {<<>>}
    BY <1>1, <1>2 DEF TurnIs, Ranking!Size, RadarInv
  <1> DEFINE n == Ranking!Size(legs)
  <1>4. ASSUME NEW j \in 1 .. n, Ranking!PairsOf(listing) = Ranking!PairsOf(legs)
        PROVE  listing[j] \in Ranking!Pairs /\ Age(Ranking!Round(n), k, SliceOf(n, j)) \in Nat \ {0}
    <2>1. Ranking!Size(listing) = n /\ listing \in Listings
      BY <1>4, SameSize DEF RadarInv
    <2>2. n \in Nat \ {0}
      BY <2>1, SizeIs
    <2> HIDE DEF n
    <2>3. Ranking!Round(n) \in Nat \ {0}
      BY <2>2, SliceIs
    <2>4. k \in 0 .. Ranking!Round(n) - 1
      BY <1>1 DEF TurnIs, n
    <2>5. SliceOf(n, j) \in 0 .. Ranking!Round(n) - 1
      BY <2>2, <2>4, PlaceIs
    <2>6. Age(Ranking!Round(n), k, SliceOf(n, j)) \in 1 .. Ranking!Round(n)
      BY <2>3, <2>4, <2>5, Older
    <2>7. listing[j] \in Ranking!Pairs
      BY <2>1, PlacesAre
    <2> QED  BY <2>3, <2>6, <2>7
  <1>5. ASSUME NEW p \in Ranking!Pairs, NEW m \in Bests, Ranking!PricesMove(p, m)
        PROVE  RadarInv'
    <2>1. listing' = listing /\ bests' = [bests EXCEPT ![p] = m] /\ quiet' = [quiet EXCEPT ![p] = 0]
      BY <1>5 DEF Ranking!PricesMove
    <2>2. quiet' \in [Ranking!Pairs -> Nat] /\ DOMAIN bests' = Ranking!Pairs /\ listing' \in Listings
      BY <2>1 DEF RadarInv
    <2>3. \A q \in Ranking!Pairs : IF q = p THEN quiet'[q] = 0 ELSE quiet'[q] = quiet[q] /\ bests'[q] = bests[q]
      BY <2>1 DEF RadarInv
    <2>4. CASE Ranking!PairsOf(listing) = Ranking!PairsOf(legs)
      <3>1. ASSUME NEW j \in 1 .. n, quiet'[listing[j]] >= Age(Ranking!Round(n), k, SliceOf(n, j))
            PROVE  tops[listing[j]] = Ranking!RoiOf(bests'[listing[j]])
        <4>1. listing[j] \in Ranking!Pairs /\ Age(Ranking!Round(n), k, SliceOf(n, j)) \in Nat \ {0}
          BY <1>4, <2>4
        <4>2. listing[j] # p
          BY <2>3, <3>1, <4>1
        <4>3. quiet'[listing[j]] = quiet[listing[j]] /\ bests'[listing[j]] = bests[listing[j]]
          BY <2>3, <4>1, <4>2
        <4> QED  BY <1>1, <2>4, <3>1, <4>3 DEF RankedUpTo
      <3>2. RankedUpTo(n, k)'
        BY <1>2, <2>1, <3>1 DEF RankedUpTo, Ranking!Size
      <3>3. n' = Ranking!Size(legs)'
        OBVIOUS
      <3>4. Ranking!PairsOf(listing)' = Ranking!PairsOf(legs)'
        BY <1>2, <2>1, <2>4 DEF Ranking!PairsOf
      <3> HIDE DEF n
      <3>5. RankedUpTo(Ranking!Size(legs), k)'
        BY <3>2, <3>3 DEF RankedUpTo
      <3> QED  BY <1>3, <2>2, <3>4, <3>5, Zenon DEF RadarInv
    <2>5. CASE Ranking!PairsOf(listing) # Ranking!PairsOf(legs)
      <3>1. \A q \in Ranking!Pairs : quiet'[q] = 0
        BY <1>1, <2>3, <2>5
      <3>2. Ranking!PairsOf(listing)' # Ranking!PairsOf(legs)'
        BY <1>2, <2>1, <2>5 DEF Ranking!PairsOf
      <3> QED  BY <1>3, <2>2, <3>1, <3>2, Zenon DEF RadarInv
    <2> QED  BY <2>4, <2>5
  <1>6. ASSUME NEW c \in Listings, Ranking!CatalogComes(c)
        PROVE  RadarInv'
    <2>1. listing' = c /\ bests' = bests /\ quiet' = [p \in Ranking!Pairs |-> 0]
      BY <1>6 DEF Ranking!CatalogComes
    <2>2. quiet' \in [Ranking!Pairs -> Nat] /\ DOMAIN bests' = Ranking!Pairs /\ listing' \in Listings
      BY <2>1 DEF RadarInv
    <2>3. \A q \in Ranking!Pairs : quiet'[q] = 0
      BY <2>1
    <2>4. ASSUME Ranking!PairsOf(listing)' = Ranking!PairsOf(legs)' PROVE RankedUpTo(Ranking!Size(legs), k)'
      <3>1. Ranking!PairsOf(c) = Ranking!PairsOf(legs)
        BY <1>2, <2>1, <2>4, ZenonT(40) DEF Ranking!PairsOf
      <3>2. Ranking!Size(c) = n /\ n \in Nat
        BY <3>1, SameSize, SizeIs DEF RadarInv
      <3>3. ASSUME NEW j \in 1 .. n PROVE ~(quiet'[c[j]] >= Age(Ranking!Round(n), k, SliceOf(n, j)))
        <4>1. n \in Nat \ {0}
          BY <3>2
        <4> HIDE DEF n
        <4>2. Ranking!Round(n) \in Nat \ {0}
          BY <4>1, SliceIs
        <4>3. k \in 0 .. Ranking!Round(n) - 1
          BY <1>1 DEF TurnIs, n
        <4>4. SliceOf(n, j) \in 0 .. Ranking!Round(n) - 1
          BY <4>1, <4>3, PlaceIs
        <4>5. Age(Ranking!Round(n), k, SliceOf(n, j)) \in 1 .. Ranking!Round(n)
          BY <4>2, <4>3, <4>4, Older
        <4>6. quiet'[c[j]] = 0
          BY <2>3, <3>2, PlacesAre
        <4> QED  BY <4>2, <4>5, <4>6
      <3>4. n' = n
        BY <1>2 DEF Ranking!Size
      <3> HIDE DEF n
      <3>5. RankedUpTo(n, k)'
        BY <2>1, <3>3, <3>4 DEF RankedUpTo
      <3> QED  BY <3>4, <3>5 DEF n
    <2> QED  BY <1>3, <2>2, <2>3, <2>4, Zenon DEF RadarInv
  <1> QED  BY <1>5, <1>6

LEMMA RanksFollow == ListsApart /\ RadarInv => TopsFollowPrices
  <1> SUFFICES ASSUME ListsApart, RadarInv,
                      NEW p \in Ranking!PairsOf(listing), quiet[p] >= Ranking!Round(Ranking!Size(listing))
               PROVE  tops[p] = Ranking!RoiOf(bests[p])
    BY DEF TopsFollowPrices, Ranking!TopsFollowPrices
  <1> DEFINE n == Ranking!Size(listing)
  <1>1. PICK k \in Nat : TurnIs(Ranking!Size(legs), k)
                         /\ IF Ranking!PairsOf(listing) = Ranking!PairsOf(legs) THEN RankedUpTo(Ranking!Size(legs), k)
                            ELSE \A q \in Ranking!Pairs : quiet[q] = 0
    BY DEF RadarInv
  <1>2. listing \in Listings /\ DOMAIN listing = 1 .. n /\ n \in Nat
    BY SizeIs DEF RadarInv
  <1>3. PICK j \in 1 .. n : p = listing[j]
    BY <1>2 DEF Ranking!PairsOf
  <1>4. p \in Ranking!Pairs
    BY <1>2, <1>3, PlacesAre
  <1>5. n \in Nat \ {0}
    BY <1>2, <1>3
  <1> HIDE DEF n
  <1>6. Ranking!Round(n) \in Nat \ {0}
    BY <1>5, SliceIs
  <1>7. Ranking!PairsOf(listing) = Ranking!PairsOf(legs)
    BY <1>1, <1>4, <1>6 DEF n
  <1>8. TurnIs(n, k) /\ RankedUpTo(n, k)
    BY <1>1, <1>7, SameSize DEF RadarInv, n
  <1>9. k \in 0 .. Ranking!Round(n) - 1
    BY <1>8 DEF TurnIs
  <1>10. Age(Ranking!Round(n), k, SliceOf(n, j)) \in 1 .. Ranking!Round(n)
    BY <1>5, <1>6, <1>9, PlaceIs, Older
  <1>11. quiet[p] \in Nat
    BY <1>4 DEF RadarInv
  <1>12. quiet[p] >= Age(Ranking!Round(n), k, SliceOf(n, j))
    BY <1>6, <1>10, <1>11 DEF n
  <1> QED  BY <1>3, <1>8, <1>12 DEF RankedUpTo

(* A pair whose prices stood still for a whole pass is ranked by them, for any
   lists of pairs, however they are ordered, and any slices. *)
THEOREM RanksAreCurrent ==
    ASSUME ListsApart PROVE SpecAll => []TopsFollowPrices
  <1>1. ASSUME InitAll PROVE RadarInv
    <2>1. Ranking!Init
      BY <1>1 DEF InitAll
    <2>2. listing \in Listings /\ legs = <<>> /\ cursor = 0 /\ quiet = [p \in Ranking!Pairs |-> 0] /\ DOMAIN bests = Ranking!Pairs
      BY <2>1 DEF Ranking!Init
    <2>3. Ranking!Size(legs) = 0
      <3>1. DOMAIN legs = {}
        BY <2>2
      <3> QED  BY <3>1, FS_EmptySet, Zenon DEF Ranking!Size, Ranking!Cardinality, Cardinality
    <2>4. Ranking!Round(0) = 1
      BY DEF Ranking!Round, ListsApart
    <2>5. 0 * Ranking!SliceSize(0) = 0
      <3>1. Ranking!CeilDiv(0, Slices) \in Int
        BY QuotientIs DEF Ranking!CeilDiv, ListsApart
      <3>2. Ranking!SliceSize(0) \in Int
        BY <3>1 DEF Ranking!SliceSize, ListsApart
      <3> QED  BY <3>2
    <2>6. TurnIs(0, 0)
      BY <2>2, <2>4, <2>5 DEF TurnIs
    <2>7. RankedUpTo(0, 0)
      BY DEF RankedUpTo
    <2>8. quiet \in [Ranking!Pairs -> Nat] /\ \A p \in Ranking!Pairs : quiet[p] = 0
      BY <2>2
    <2> QED  BY <2>2, <2>3, <2>6, <2>7, <2>8 DEF RadarInv
  <1>2. ASSUME RadarInv, [NextAll]_allVars PROVE RadarInv'
    <2>1. CASE Ranking!Next
      BY <1>2, <2>1, TickRanks, NewsRank DEF Ranking!Next
    <2>2. CASE UNCHANGED radarVars
      <3>1. listing' = listing /\ legs' = legs /\ bests' = bests /\ tops' = tops /\ cursor' = cursor /\ quiet' = quiet
        BY <2>2 DEF radarVars
      <3>2. /\ Ranking!Size(legs)' = Ranking!Size(legs) /\ Ranking!PairsOf(listing)' = Ranking!PairsOf(listing)
            /\ Ranking!PairsOf(legs)' = Ranking!PairsOf(legs)
        BY <3>1 DEF Ranking!Size, Ranking!PairsOf
      <3>3. PICK k \in Nat :
              /\ TurnIs(Ranking!Size(legs), k)
              /\ IF Ranking!PairsOf(listing) = Ranking!PairsOf(legs) THEN RankedUpTo(Ranking!Size(legs), k)
                 ELSE \A p \in Ranking!Pairs : quiet[p] = 0
        BY <1>2 DEF RadarInv
      <3>4. /\ TurnIs(Ranking!Size(legs), k)'
            /\ Ranking!PairsOf(listing) = Ranking!PairsOf(legs) => RankedUpTo(Ranking!Size(legs), k)'
        BY <3>1, <3>3 DEF TurnIs, RankedUpTo, Ranking!Size
      <3> QED  BY <1>2, <3>1, <3>2, <3>3, <3>4, Zenon DEF RadarInv
    <2> QED
      BY <1>2, <2>1, <2>2
         DEF NextAll, ClickStep, LegsStep, OrderStep, ContractStep, AccountStep, BookStep, FundingStep, RadarStep, allVars
  <1> QED  BY <1>1, <1>2, RanksFollow, PTL DEF SpecAll

--------------------------------------------------------------------------------
(* The funding of a pair *)

FundingNames ==
    {"binance", "aster", "gate", "mexc", "bingx", "bybit", "bitget", "kucoin", "hyperliquid", "variational"}

(* Whole hours that divide a day, so a year too; None is no time and no funding. *)
FundingApart ==
    /\ FundedVenues \cup OtherVenues \subseteq FundingNames
    /\ Hour \in Nat \ {0} /\ Horizon \in Nat /\ Fractions \subseteq Int
    /\ Intervals \subseteq Nat \ {0}
    /\ \A i \in Intervals : \E k \in Nat : Funding!HoursPerYear = k * i
    /\ None \notin Int
    /\ \A h, n, p, c : None # [horizon |-> h, next |-> n, nextPct |-> p, changes |-> c]

LEMMA DivisionIs ==
    ASSUME NEW x \in Int, NEW d \in Nat \ {0}
    PROVE  /\ x \div d \in Int /\ x % d \in 0 .. d - 1
           /\ x = (x \div d) * d + (x % d)
  BY Z3

LEMMA Multiple ==
    ASSUME NEW m \in Int, NEW d \in Nat \ {0}
    PROVE  m * d \in Int /\ (m * d) % d = 0 /\ (m * d) \div d = m
  BY Z3

LEMMA Sums ==
    ASSUME NEW m \in Int, NEW k \in Int, NEW d \in Int
    PROVE  (m + k) * d = m * d + k * d /\ (m - k) * d = m * d - k * d /\ m * d \in Int /\ k * d \in Int
  BY Z3

(* The times f, f + d, f + 2d, ... *)
Grid(f, d, u) == \E m \in Nat : u = f + m * d

LEMMA GridOnce ==
    ASSUME NEW f \in Nat, NEW d \in Nat \ {0}, NEW t \in Int, NEW u \in Int, NEW v \in Int,
           Grid(f, d, u), t < u, u <= t + d, Grid(f, d, v), t < v, v <= t + d
    PROVE  u = v
  <1>1. PICK m \in Nat : u = f + m * d
    BY DEF Grid
  <1>2. PICK k \in Nat : v = f + k * d
    BY DEF Grid
  <1>3. ASSUME NEW a \in Nat, NEW b \in Nat, a < b PROVE b * d >= a * d + d /\ a * d \in Nat /\ b * d \in Nat
    <2>1. a + 1 \in Nat /\ a + 1 <= b
      BY <1>3
    <2>2. (a + 1) * d <= b * d /\ b * d \in Nat
      BY <2>1, Grows
    <2>3. (a + 1) * d = a * d + d /\ a * d \in Nat
      BY Grows
    <2> QED  BY <2>2, <2>3
  <1>4. ~(m < k)
    <2>1. ASSUME m < k PROVE FALSE
      <3>1. k * d >= m * d + d /\ m * d \in Nat /\ k * d \in Nat
        BY <1>3, <2>1
      <3> QED  BY <1>1, <1>2, <3>1
    <2> QED  BY <2>1
  <1>5. ~(k < m)
    <2>1. ASSUME k < m PROVE FALSE
      <3>1. m * d >= k * d + d /\ m * d \in Nat /\ k * d \in Nat
        BY <1>3, <2>1
      <3> QED  BY <1>1, <1>2, <3>1
    <2> QED  BY <2>1
  <1> QED  BY <1>1, <1>2, <1>4, <1>5

LEMMA GridGoesOn ==
    ASSUME NEW f \in Nat, NEW d \in Nat \ {0}, NEW u \in Int, Grid(f, d, u), NEW q \in Nat
    PROVE  Grid(f, d, u + q * d) /\ q * d \in Nat
  <1>1. PICK m \in Nat : u = f + m * d
    BY DEF Grid
  <1>2. m + q \in Nat /\ (m + q) * d = m * d + q * d /\ m * d \in Int
    BY Sums
  <1>3. q * d \in Nat
    BY Grows
  <1>4. u + q * d = f + (m + q) * d
    BY <1>1, <1>2, <1>3
  <1> QED  BY <1>2, <1>3, <1>4 DEF Grid

(* From a settlement on, the others come a whole number of intervals later. *)
LEMMA GridFrom ==
    ASSUME NEW f \in Nat, NEW d \in Nat \ {0}, NEW u \in Int, Grid(f, d, u), NEW v \in Int, Grid(f, d, v), u - d < v
    PROVE  \E i \in Nat : v = u + i * d
  <1>1. PICK m \in Nat : u = f + m * d
    BY DEF Grid
  <1>2. PICK k \in Nat : v = f + k * d
    BY DEF Grid
  <1>3. k >= m
    <2>1. ASSUME k < m PROVE FALSE
      <3>1. k + 1 \in Nat /\ k + 1 <= m
        BY <2>1
      <3>2. (k + 1) * d <= m * d /\ m * d \in Nat
        BY <3>1, Grows
      <3>3. (k + 1) * d = k * d + d /\ k * d \in Nat
        BY Grows
      <3> QED  BY <1>1, <1>2, <3>2, <3>3
    <2> QED  BY <2>1
  <1>4. k - m \in Nat /\ (k - m) * d = k * d - m * d /\ k * d \in Int /\ m * d \in Int
    BY <1>3, Sums
  <1>5. v = u + (k - m) * d
    BY <1>1, <1>2, <1>4
  <1> QED  BY <1>4, <1>5

--------------------------------------------------------------------------------
VenuesAre ==
    \A s \in Funding!Sides :
        /\ market[s].name \in FundingNames
        /\ market[s].interval \in Intervals
        /\ market[s].first \in Nat
        /\ market[s].first < Funding!Every(s)
        /\ market[s].name = "hyperliquid" => market[s].interval = 1 /\ market[s].first = 0

OnTime(s, u) == u \in Nat \ {0} /\ Grid(market[s].first, Funding!Every(s), u)

LEMMA VenueIs ==
    ASSUME FundingApart, VenuesAre, NEW s \in Funding!Sides
    PROVE  /\ market[s].first \in Nat /\ market[s].interval \in Nat \ {0}
           /\ Funding!Every(s) \in Nat \ {0} /\ market[s].first < Funding!Every(s)
           /\ Funding!Every(s) = market[s].interval * Hour
  <1>1. market[s].interval \in Nat \ {0} /\ Hour \in Nat \ {0}
    BY DEF FundingApart, VenuesAre
  <1>2. \A i, h \in Nat \ {0} : i * h \in Nat \ {0}
    BY Z3
  <1> QED  BY <1>1, <1>2 DEF Funding!Every, VenuesAre

LEMMA SettlesIs ==
    ASSUME FundingApart, VenuesAre, NEW s \in Funding!Sides, NEW u \in Int
    PROVE  Funding!SettlesAt(s, u) <=> OnTime(s, u)
  <1> DEFINE f == market[s].first
  <1> DEFINE d == Funding!Every(s)
  <1>1. f \in Nat /\ d \in Nat \ {0} /\ f < d
    BY VenueIs
  <1>2. Funding!SettlesAt(s, u) <=> u > 0 /\ (u - f) % d = 0
    BY DEF Funding!SettlesAt
  <1>3. OnTime(s, u) <=> u \in Nat \ {0} /\ Grid(f, d, u)
    BY DEF OnTime
  <1> HIDE DEF f, d
  <1>4. ASSUME u > 0, (u - f) % d = 0 PROVE Grid(f, d, u)
    <2>1. u - f \in Int /\ u - f > 0 - d
      BY <1>1, <1>4
    <2> DEFINE m == (u - f) \div d
    <2>2. m \in Int /\ u - f = m * d + 0
      BY <1>1, <1>4, <2>1, DivisionIs
    <2> HIDE DEF m
    <2>3. m >= 0
      <3>1. ASSUME m + 1 <= 0 PROVE FALSE
        <4>1. 0 - (m + 1) \in Nat /\ (0 - (m + 1)) * d \in Nat
          BY <1>1, <2>2, <3>1, Grows
        <4>2. (0 - (m + 1)) * d = 0 * d - (m + 1) * d /\ (m + 1) * d = m * d + 1 * d /\ m * d \in Int
          BY <1>1, <2>2, Sums
        <4>3. 0 * d = 0 /\ 1 * d = d
          BY <1>1
        <4> QED  BY <1>1, <2>1, <2>2, <4>1, <4>2, <4>3
      <3> QED  BY <2>2, <3>1
    <2>4. m * d \in Int
      BY <1>1, <2>2, Sums
    <2>5. u = f + m * d /\ m \in Nat
      BY <1>1, <2>2, <2>3, <2>4
    <2> QED  BY <2>5 DEF Grid
  <1>5. ASSUME Grid(f, d, u) PROVE (u - f) % d = 0
    <2>1. PICK m \in Nat : u = f + m * d
      BY <1>5 DEF Grid
    <2>2. m * d \in Int /\ (m * d) % d = 0
      BY <1>1, Multiple
    <2>3. u - f = m * d
      BY <1>1, <2>1, <2>2
    <2> QED  BY <2>2, <2>3
  <1> QED  BY <1>2, <1>3, <1>4, <1>5

(* From a settlement that is not far ahead, the next one after any time. *)
LEMMA RolledOn ==
    ASSUME NEW f \in Nat, NEW d \in Nat \ {0}, NEW n \in Nat, Grid(f, d, n), NEW t \in Nat, n <= t
    PROVE  LET u == n + ((t - n) \div d + 1) * d
           IN  u \in Nat /\ Grid(f, d, u) /\ t < u /\ u <= t + d
  <1> DEFINE q == (t - n) \div d
  <1>1. q \in Nat /\ q * d <= t - n /\ t - n < q * d + d
    BY QuotientIs
  <1> HIDE DEF q
  <1>2. (q + 1) * d = q * d + d /\ q * d \in Nat /\ q + 1 \in Nat
    BY <1>1, Grows
  <1>3. Grid(f, d, n + (q + 1) * d) /\ (q + 1) * d \in Nat
    BY <1>2, GridGoesOn, SMTT(30)
  <1> QED  BY <1>1, <1>2, <1>3 DEF q

LEMMA ComingIs ==
    ASSUME FundingApart, VenuesAre, NEW s \in Funding!Sides, NEW t \in Nat
    PROVE  LET u == Funding!ComingSettlement(s, t)
           IN  OnTime(s, u) /\ t < u /\ u <= t + Funding!Every(s)
  <1> DEFINE f == market[s].first
  <1> DEFINE d == Funding!Every(s)
  <1>1. f \in Nat /\ d \in Nat \ {0} /\ f < d
    BY VenueIs
  <1>2. \E u \in t + 1 .. t + d : Funding!SettlesAt(s, u)
    <2>1. \E u \in t + 1 .. t + d : Grid(f, d, u)
      <3> HIDE DEF f, d
      <3>0. Grid(f, d, f)
        <4>1. f = f + 0 * d
          BY <1>1
        <4> QED  BY <4>1 DEF Grid
      <3>1. CASE f <= t
        <4> DEFINE u == f + ((t - f) \div d + 1) * d
        <4>1. u \in Nat /\ Grid(f, d, u) /\ t < u /\ u <= t + d
          BY <1>1, <3>0, <3>1, RolledOn
        <4> HIDE DEF u
        <4> QED  BY <1>1, <4>1
      <3>2. CASE t < f
        BY <1>1, <3>0, <3>2
      <3> QED  BY <1>1, <3>1, <3>2
    <2>2. PICK u \in t + 1 .. t + d : Grid(f, d, u)
      BY <2>1
    <2>3. u \in Nat \ {0}
      BY <2>2
    <2>4. OnTime(s, u)
      BY <2>2, <2>3 DEF OnTime
    <2> QED  BY <2>2, <2>3, <2>4, SettlesIs
  <1> DEFINE u == Funding!ComingSettlement(s, t)
  <1>3. u \in t + 1 .. t + d /\ Funding!SettlesAt(s, u)
    BY <1>2 DEF Funding!ComingSettlement
  <1> HIDE DEF u, d
  <1>4. u \in Int /\ t < u /\ u <= t + d
    BY <1>1, <1>3
  <1> QED  BY <1>3, <1>4, SettlesIs DEF u, d

--------------------------------------------------------------------------------
(* A rate as it was read at some time up to t: its next settlement is one of    *)
(* the exchange's, at most one interval ahead, or not told.                     *)
Quoted(s, r, t) ==
    \E x, n : /\ r = [rate |-> x, interval |-> market[s].interval, next |-> n]
              /\ \/ n = None /\ market[s].name = "variational"
                 \/ OnTime(s, n) /\ n <= t + Funding!Every(s) /\ market[s].name # "variational"

LEMMA QuotedIs ==
    ASSUME FundingApart, VenuesAre, NEW s \in Funding!Sides, NEW t \in Nat, NEW r, Quoted(s, r, t)
    PROVE  /\ r.interval = market[s].interval /\ r.interval * Hour = Funding!Every(s)
           /\ \/ r.next = None /\ market[s].name = "variational"
              \/ /\ OnTime(s, r.next) /\ r.next \in Nat /\ r.next # None
                 /\ r.next <= t + Funding!Every(s) /\ market[s].name # "variational"
  <1>1. PICK x, n : /\ r = [rate |-> x, interval |-> market[s].interval, next |-> n]
                    /\ \/ n = None /\ market[s].name = "variational"
                       \/ OnTime(s, n) /\ n <= t + Funding!Every(s) /\ market[s].name # "variational"
    BY DEF Quoted
  <1>2. r.interval = market[s].interval /\ r.next = n
    BY <1>1
  <1>3. OnTime(s, n) => n \in Nat /\ n # None
    BY DEF OnTime, FundingApart
  <1> QED  BY <1>1, <1>2, <1>3, VenueIs

LEMMA QuotedLater ==
    ASSUME FundingApart, VenuesAre, NEW s \in Funding!Sides, NEW t \in Nat, NEW v \in Nat, t <= v, NEW r, Quoted(s, r, t)
    PROVE  Quoted(s, r, v)
  <1>1. PICK x, n : /\ r = [rate |-> x, interval |-> market[s].interval, next |-> n]
                    /\ \/ n = None /\ market[s].name = "variational"
                       \/ OnTime(s, n) /\ n <= t + Funding!Every(s) /\ market[s].name # "variational"
    BY DEF Quoted
  <1>2. OnTime(s, n) /\ n <= t + Funding!Every(s) => n <= v + Funding!Every(s)
    BY VenueIs DEF OnTime
  <1> QED  BY <1>1, <1>2 DEF Quoted

(* However old its next settlement is, the one computed is the one that comes. *)
LEMMA NextIs ==
    ASSUME FundingApart, VenuesAre, NEW s \in Funding!Sides, NEW t \in Nat, NEW r, Quoted(s, r, t)
    PROVE  \/ /\ r.next = None /\ Funding!NextSettlement(r, t) = None /\ market[s].name = "variational"
           \/ /\ r.next # None /\ market[s].name # "variational"
              /\ OnTime(s, Funding!NextSettlement(r, t))
              /\ Funding!NextSettlement(r, t) \in Nat /\ Funding!NextSettlement(r, t) # None
              /\ t < Funding!NextSettlement(r, t) /\ Funding!NextSettlement(r, t) <= t + Funding!Every(s)
  <1> DEFINE f == market[s].first
  <1> DEFINE d == Funding!Every(s)
  <1>1. f \in Nat /\ d \in Nat \ {0}
    BY VenueIs
  <1>2. r.interval * Hour = d
    BY QuotedIs
  <1>3. CASE r.next = None
    BY <1>3, QuotedIs DEF Funding!NextSettlement
  <1>4. CASE r.next # None
    <2>1. r.next \in Nat \ {0} /\ Grid(f, d, r.next) /\ r.next <= t + d /\ market[s].name # "variational"
      BY <1>4, QuotedIs DEF OnTime
    <2>2. CASE r.next > t
      <3>1. Funding!NextSettlement(r, t) = r.next
        BY <2>2 DEF Funding!NextSettlement
      <3> QED  BY <1>4, <2>1, <2>2, <3>1 DEF OnTime
    <2>3. CASE ~(r.next > t)
      <3> DEFINE u == r.next + ((t - r.next) \div d + 1) * d
      <3>1. Funding!NextSettlement(r, t) = r.next + ((t - r.next) \div (r.interval * Hour) + 1) * r.interval * Hour
        BY <1>4, <2>3 DEF Funding!NextSettlement
      <3>2. ((t - r.next) \div d) \in Int
        <4>1. t - r.next \in Int
          BY <2>1
        <4> HIDE DEF d
        <4> QED  BY <1>1, <4>1, DivisionIs, Zenon
      <3>3. \A k, i, h \in Int : k * i * h = k * (i * h)
        BY Z3
      <3>4. r.interval \in Int /\ Hour \in Int
        BY QuotedIs, VenueIs DEF FundingApart
      <3>5. Funding!NextSettlement(r, t) = u
        <4> DEFINE k == (t - r.next) \div d + 1
        <4>1. k \in Int
          BY <3>2
        <4>2. Funding!NextSettlement(r, t) = r.next + k * r.interval * Hour
          BY <1>2, <3>1
        <4> HIDE DEF k, d
        <4>3. k * r.interval * Hour = k * d
          BY <1>2, <3>3, <3>4, <4>1
        <4> QED  BY <4>2, <4>3 DEF k
      <3> HIDE DEF f, d
      <3>6. u \in Nat /\ Grid(f, d, u) /\ t < u /\ u <= t + d
        <4>1. r.next \in Nat /\ r.next <= t
          BY <2>1, <2>3
        <4>2. Grid(f, d, r.next)
          BY <2>1
        <4> QED  BY <1>1, <4>1, <4>2, RolledOn
      <3> HIDE DEF u
      <3>7. OnTime(s, u) /\ u # None
        BY <3>6 DEF OnTime, f, d, FundingApart
      <3> QED  BY <1>4, <2>1, <3>5, <3>6, <3>7 DEF d
    <2> QED  BY <2>2, <2>3
  <1> QED  BY <1>3, <1>4

LEMMA OnceInAnInterval ==
    ASSUME FundingApart, VenuesAre, NEW s \in Funding!Sides, NEW t \in Nat, NEW u, NEW v,
           OnTime(s, u), t < u, u <= t + Funding!Every(s), OnTime(s, v), t < v, v <= t + Funding!Every(s)
    PROVE  u = v
  BY VenueIs, GridOnce DEF OnTime

LEMMA HorizonIs == ASSUME FundingApart PROVE Horizon * Hour \in Nat
  <1>1. \A x, y \in Nat : x * y \in Nat
    BY Z3
  <1> QED  BY <1>1 DEF FundingApart

LEMMA MinOfTwo ==
    ASSUME NEW a \in Int, NEW b \in Int
    PROVE  Funding!Min({a, b}) \in Int /\ Funding!Min({a, b}) <= a /\ Funding!Min({a, b}) <= b
  <1>1. \E x \in {a, b} : \A y \in {a, b} : x <= y
    <2>1. CASE a <= b
      BY <2>1
    <2>2. CASE ~(a <= b)
      BY <2>2
    <2> QED  BY <2>1, <2>2
  <1>2. Funding!Min({a, b}) \in {a, b} /\ \A y \in {a, b} : Funding!Min({a, b}) <= y
    BY <1>1 DEF Funding!Min
  <1> QED  BY <1>2

(* Until the next settlement passes or another comes into the horizon, a leg   *)
(* settles as often, and next at the same time.                                *)
LEMMA StaysAhead ==
    ASSUME FundingApart, VenuesAre, NEW s \in Funding!Sides, NEW t \in Nat, NEW v \in Nat, t <= v, NEW r, Quoted(s, r, t),
           r.next # None => /\ v < Funding!NextSettlement(r, t)
                            /\ v < Funding!NextSettlement(r, t + Horizon * Hour) - Horizon * Hour
    PROVE  /\ Funding!NextSettlement(r, v) = Funding!NextSettlement(r, t)
           /\ Funding!SettlementsWithin(r, v, Horizon * Hour) = Funding!SettlementsWithin(r, t, Horizon * Hour)
  <1> DEFINE h == Horizon * Hour
  <1> DEFINE f == market[s].first
  <1> DEFINE d == Funding!Every(s)
  <1> DEFINE u == Funding!NextSettlement(r, t)
  <1>1. f \in Nat /\ d \in Nat \ {0} /\ r.interval * Hour = d /\ h \in Nat
    <2>1. h \in Nat
      BY HorizonIs
    <2> QED  BY <2>1, VenueIs, QuotedIs
  <1>2. Quoted(s, r, v) /\ t + h \in Nat /\ Quoted(s, r, t + h)
    BY <1>1, QuotedLater
  <1>3. CASE r.next = None
    BY <1>3 DEF Funding!NextSettlement, Funding!SettlementsWithin
  <1>4. CASE r.next # None
    <2>1. OnTime(s, u) /\ u \in Nat /\ t < u /\ u <= t + d /\ v < u /\ u # None
      BY <1>4, NextIs
    <2>2. Funding!NextSettlement(r, v) = u
      <3>1. /\ OnTime(s, Funding!NextSettlement(r, v)) /\ v < Funding!NextSettlement(r, v)
            /\ Funding!NextSettlement(r, v) <= v + d
        BY <1>2, <1>4, NextIs
      <3>2. u <= v + d
        BY <1>1, <2>1
      <3> QED  BY <2>1, <3>1, <3>2, OnceInAnInterval
    <2> DEFINE w == Funding!NextSettlement(r, t + h)
    <2>3. OnTime(s, w) /\ w \in Nat /\ t + h < w /\ w <= t + h + d /\ v < w - h
      <3>1. OnTime(s, w) /\ w \in Nat /\ t + h < w /\ w <= (t + h) + d
        BY <1>2, <1>4, NextIs
      <3> QED  BY <1>4, <3>1
    <2>4. ASSUME NEW x \in Nat, OnTime(s, x), t + h < x, x <= t + h + d PROVE x = w
      BY <1>2, <2>3, <2>4, OnceInAnInterval
    <2>5. /\ Funding!SettlementsWithin(r, v, h) = IF u > v + h THEN 0 ELSE 1 + ((v + h) - u) \div d
          /\ Funding!SettlementsWithin(r, t, h) = IF u > t + h THEN 0 ELSE 1 + ((t + h) - u) \div d
      BY <1>1, <2>1, <2>2 DEF Funding!SettlementsWithin
    <2> HIDE DEF h, f, d, u, w
    <2>6. CASE u > t + h
      <3>1. u <= t + h + d
        BY <1>1, <2>1
      <3>2. u = w
        BY <2>1, <2>4, <2>6, <3>1
      <3>3. u > v + h
        BY <1>1, <2>1, <2>3, <3>2
      <3> QED  BY <2>2, <2>5, <2>6, <3>3 DEF h, u
    <2>7. CASE ~(u > t + h)
      <3> DEFINE q == ((t + h) - u) \div d
      <3>1. (t + h) - u \in Nat
        BY <1>1, <2>1, <2>7
      <3>2. q \in Nat /\ q * d <= (t + h) - u /\ (t + h) - u < q * d + d
        BY <1>1, <3>1, QuotientIs
      <3> HIDE DEF q
      <3>3. (q + 1) * d = q * d + d /\ q * d \in Nat /\ q + 1 \in Nat
        BY <1>1, <3>2, Grows
      <3>4. OnTime(s, u + (q + 1) * d)
        <4>1. Grid(f, d, u)
          BY <2>1 DEF OnTime, f, d
        <4>2. \A x \in Nat : Grid(f, d, u + x * d)
          BY <1>1, <2>1, <4>1, GridGoesOn
        <4>3. u + (q + 1) * d \in Nat \ {0}
          BY <1>1, <2>1, <3>3
        <4>4. Grid(f, d, u + (q + 1) * d)
          BY <3>3, <4>2
        <4> QED  BY <4>3, <4>4 DEF OnTime, f, d
      <3>5. u + (q + 1) * d = w
        <4>1. u + (q + 1) * d \in Nat /\ t + h < u + (q + 1) * d /\ u + (q + 1) * d <= t + h + d
          BY <1>1, <2>1, <3>2, <3>3
        <4> QED  BY <2>4, <3>4, <4>1
      <3>6. (v + h) - u \in Nat /\ q * d <= (v + h) - u /\ (v + h) - u < q * d + d /\ ~(u > v + h)
        BY <1>1, <2>1, <2>3, <2>7, <3>2, <3>3, <3>5
      <3>7. ((v + h) - u) \div d = q
        BY <1>1, <3>2, <3>6, QuotientOf
      <3> QED  BY <2>2, <2>5, <2>7, <3>6, <3>7 DEF h, u, q
    <2> QED  BY <2>6, <2>7
  <1> QED  BY <1>3, <1>4

Stale(long, short, t) ==
    Funding!ChangesAt(long, t, Horizon * Hour) \cup Funding!ChangesAt(short, t, Horizon * Hour)

Coming(long, short, t) == {Funding!NextSettlement(r, t) : r \in {long, short}} \ {None}

FundingOf(long, short, t) ==
    LET next == IF Coming(long, short, t) = {} THEN None ELSE Funding!Min(Coming(long, short, t))
    IN  [horizon |-> short.rate * Funding!SettlementsWithin(short, t, Horizon * Hour)
                     - long.rate * Funding!SettlementsWithin(long, t, Horizon * Hour),
         next |-> next,
         nextPct |-> IF next = None THEN None
                     ELSE (IF Funding!NextSettlement(short, t) = next THEN short.rate ELSE 0)
                          - (IF Funding!NextSettlement(long, t) = next THEN long.rate ELSE 0),
         changes |-> IF Stale(long, short, t) = {} THEN None ELSE Funding!Min(Stale(long, short, t))]

LEMMA FundingIs ==
    ASSUME NEW long, NEW short, NEW t, long # None, short # None
    PROVE  Funding!PairFunding(long, short, t) = FundingOf(long, short, t)
  BY Zenon DEF Funding!PairFunding, FundingOf, Coming, Stale

(* When what a leg pays changes next. *)
LEMMA ChangeIs ==
    ASSUME FundingApart, VenuesAre, NEW s \in Funding!Sides, NEW t \in Nat, NEW r, Quoted(s, r, t)
    PROVE  \/ r.next = None /\ Funding!ChangesAt(r, t, Horizon * Hour) = {}
           \/ \E a \in Int : /\ Funding!ChangesAt(r, t, Horizon * Hour) = {a}
                             /\ a <= Funding!NextSettlement(r, t)
                             /\ a <= Funding!NextSettlement(r, t + Horizon * Hour) - Horizon * Hour
                             /\ Funding!NextSettlement(r, t) \in Int
                             /\ Funding!NextSettlement(r, t + Horizon * Hour) \in Int
  <1> DEFINE h == Horizon * Hour
  <1> DEFINE first == Funding!NextSettlement(r, t)
  <1> DEFINE last == Funding!NextSettlement(r, t + h) - h
  <1>1. h \in Nat
    BY HorizonIs
  <1>2. Funding!ChangesAt(r, t, h) = IF r.next = None THEN {} ELSE {Funding!Min({first, last})}
    BY DEF Funding!ChangesAt
  <1>3. CASE r.next = None
    BY <1>2, <1>3
  <1>4. CASE r.next # None
    <2>1. first \in Nat
      BY <1>4, NextIs
    <2>2. t + h \in Nat /\ t <= t + h
      BY <1>1
    <2>3. Quoted(s, r, t + h)
      BY <2>2, QuotedLater
    <2>4. Funding!NextSettlement(r, t + h) \in Nat
      BY <1>4, <2>2, <2>3, NextIs
    <2>5. first \in Int /\ last \in Int
      BY <1>1, <2>1, <2>4
    <2> HIDE DEF first, last, h
    <2>6. Funding!Min({first, last}) \in Int /\ Funding!Min({first, last}) <= first /\ Funding!Min({first, last}) <= last
      BY <2>5, MinOfTwo
    <2>7. \E a \in Int : Funding!ChangesAt(r, t, h) = {a} /\ a <= first /\ a <= last
      BY <1>2, <1>4, <2>6
    <2> QED  BY <2>1, <2>4, <2>7 DEF first, last, h
  <1> QED  BY <1>3, <1>4

(* When funding is computed, what it says changes no earlier than told. *)
LEMMA StaleIs ==
    ASSUME FundingApart, VenuesAre, NEW t \in Nat, NEW long, NEW short, Quoted("long", long, t), Quoted("short", short, t)
    PROVE  /\ Stale(long, short, t) # {} => Funding!Min(Stale(long, short, t)) \in Int
           /\ \A v \in Nat :
                (Stale(long, short, t) # {} => v < Funding!Min(Stale(long, short, t))) =>
                    /\ long.next # None => /\ v < Funding!NextSettlement(long, t)
                                           /\ v < Funding!NextSettlement(long, t + Horizon * Hour) - Horizon * Hour
                    /\ short.next # None => /\ v < Funding!NextSettlement(short, t)
                                            /\ v < Funding!NextSettlement(short, t + Horizon * Hour) - Horizon * Hour
  <1> DEFINE h == Horizon * Hour
  <1> DEFINE Ahead(r, v) == v < Funding!NextSettlement(r, t) /\ v < Funding!NextSettlement(r, t + h) - h
  <1> DEFINE Pays(r, a) == Funding!ChangesAt(r, t, h) = {a} /\ \A v \in Nat : v < a => Ahead(r, v)
  <1>1. h \in Nat
    BY HorizonIs
  <1>2. ASSUME NEW s \in Funding!Sides, NEW r, Quoted(s, r, t)
        PROVE  \/ r.next = None /\ Funding!ChangesAt(r, t, h) = {}
               \/ \E a \in Int : Pays(r, a)
    <2>1. ASSUME NEW a \in Int, Funding!ChangesAt(r, t, h) = {a}, a <= Funding!NextSettlement(r, t),
                 a <= Funding!NextSettlement(r, t + h) - h, Funding!NextSettlement(r, t) \in Int,
                 Funding!NextSettlement(r, t + h) \in Int
          PROVE  Pays(r, a)
      BY <1>1, <2>1
    <2> HIDE DEF Pays
    <2> QED  BY <1>2, <2>1, ChangeIs
  <1>3. Stale(long, short, t) = Funding!ChangesAt(long, t, h) \cup Funding!ChangesAt(short, t, h)
    BY DEF Stale
  <1>4. /\ (long.next = None /\ Funding!ChangesAt(long, t, h) = {}) \/ \E a \in Int : Pays(long, a)
        /\ (short.next = None /\ Funding!ChangesAt(short, t, h) = {}) \/ \E a \in Int : Pays(short, a)
    <2>1. "long" \in Funding!Sides /\ "short" \in Funding!Sides
      BY DEF Funding!Sides
    <2> HIDE DEF Pays
    <2> QED  BY <1>2, <2>1
  <1> DEFINE earliest == Funding!Min(Stale(long, short, t))
  <1>5. ASSUME NEW a \in Int, NEW b \in Int, {a, b} = Stale(long, short, t)
        PROVE  earliest \in Int /\ earliest <= a /\ earliest <= b
    BY <1>5, MinOfTwo
  <1> HIDE DEF earliest, h, Ahead
  <1>6. CASE \E a \in Int : Pays(long, a)
    <2>1. PICK a \in Int : Pays(long, a)
      BY <1>6
    <2>2. CASE \E b \in Int : Pays(short, b)
      <3>1. PICK b \in Int : Pays(short, b)
        BY <2>2
      <3>2. {a, b} = Stale(long, short, t)
        BY <1>3, <2>1, <3>1
      <3>3. earliest \in Int /\ earliest <= a /\ earliest <= b
        BY <1>5, <3>2
      <3>4. ASSUME NEW v \in Nat, v < earliest PROVE Ahead(long, v) /\ Ahead(short, v)
        <4>1. v < a /\ v < b
          BY <3>3, <3>4
        <4> QED  BY <2>1, <3>1, <4>1
      <3> QED  BY <3>2, <3>3, <3>4 DEF earliest, Ahead, h
    <2>3. CASE short.next = None /\ Funding!ChangesAt(short, t, h) = {}
      <3>1. {a, a} = Stale(long, short, t)
        BY <1>3, <2>1, <2>3
      <3>2. earliest \in Int /\ earliest <= a
        BY <1>5, <3>1
      <3>3. ASSUME NEW v \in Nat, v < earliest PROVE Ahead(long, v)
        <4>1. v < a
          BY <3>2, <3>3
        <4> QED  BY <2>1, <4>1
      <3> QED  BY <2>3, <3>1, <3>2, <3>3 DEF earliest, Ahead, h
    <2> QED  BY <1>4, <2>2, <2>3
  <1>7. CASE long.next = None /\ Funding!ChangesAt(long, t, h) = {}
    <2>1. CASE \E b \in Int : Pays(short, b)
      <3>1. PICK b \in Int : Pays(short, b)
        BY <2>1
      <3>2. {b, b} = Stale(long, short, t)
        BY <1>3, <1>7, <3>1
      <3>3. earliest \in Int /\ earliest <= b
        BY <1>5, <3>2
      <3>4. ASSUME NEW v \in Nat, v < earliest PROVE Ahead(short, v)
        <4>1. v < b
          BY <3>3, <3>4
        <4> QED  BY <3>1, <4>1
      <3> QED  BY <1>7, <3>2, <3>3, <3>4 DEF earliest, Ahead, h
    <2>2. CASE short.next = None /\ Funding!ChangesAt(short, t, h) = {}
      BY <1>3, <1>7, <2>2
    <2> QED  BY <1>4, <2>1, <2>2
  <1> QED  BY <1>4, <1>6, <1>7

Alike(a, b) ==
    /\ (a = None) = (b = None)
    /\ a # None => b.horizon = a.horizon /\ b.next = a.next /\ b.nextPct = a.nextPct

LEMMA FundingStays ==
    ASSUME FundingApart, VenuesAre, NEW t \in Nat, NEW v \in Nat, t <= v, NEW long, NEW short,
           long = None \/ Quoted("long", long, t), short = None \/ Quoted("short", short, t),
           long # None /\ short # None /\ Stale(long, short, t) # {} => v < Funding!Min(Stale(long, short, t))
    PROVE  Alike(Funding!PairFunding(long, short, v), Funding!PairFunding(long, short, t))
  <1>1. CASE long = None \/ short = None
    <2>1. Funding!PairFunding(long, short, v) = None /\ Funding!PairFunding(long, short, t) = None
      BY <1>1 DEF Funding!PairFunding
    <2> QED  BY <2>1 DEF Alike
  <1>2. CASE long # None /\ short # None
    <2>1. Quoted("long", long, t) /\ Quoted("short", short, t)
      BY <1>2
    <2>2. /\ Funding!NextSettlement(long, v) = Funding!NextSettlement(long, t)
          /\ Funding!SettlementsWithin(long, v, Horizon * Hour) = Funding!SettlementsWithin(long, t, Horizon * Hour)
      <3>1. "long" \in Funding!Sides
        BY DEF Funding!Sides
      <3> QED  BY <1>2, <2>1, <3>1, StaleIs, StaysAhead
    <2>3. /\ Funding!NextSettlement(short, v) = Funding!NextSettlement(short, t)
          /\ Funding!SettlementsWithin(short, v, Horizon * Hour) = Funding!SettlementsWithin(short, t, Horizon * Hour)
      <3>1. "short" \in Funding!Sides
        BY DEF Funding!Sides
      <3> QED  BY <1>2, <2>1, <3>1, StaleIs, StaysAhead
    <2>4. Coming(long, short, v) = Coming(long, short, t)
      BY <2>2, <2>3 DEF Coming
    <2>5. /\ FundingOf(long, short, t) # None /\ FundingOf(long, short, v) # None
      BY DEF FundingOf, FundingApart
    <2>6. /\ FundingOf(long, short, v).horizon = FundingOf(long, short, t).horizon
          /\ FundingOf(long, short, v).next = FundingOf(long, short, t).next
          /\ FundingOf(long, short, v).nextPct = FundingOf(long, short, t).nextPct
      BY <2>2, <2>3, <2>4 DEF FundingOf
    <2> QED  BY <1>2, <2>5, <2>6, FundingIs DEF Alike
  <1> QED  BY <1>1, <1>2

--------------------------------------------------------------------------------
(* What a list of schedules says, read at some time up to t. *)
Listed(s, list, t) ==
    /\ market[s].name \in {"binance", "aster"} =>
           list.listed = IF market[s].interval = DefaultInterval THEN {} ELSE {market[s].interval}
    /\ market[s].name = "gate" =>
           list.seconds = market[s].interval * 3600 /\ OnTime(s, list.next) /\ list.next <= t + Funding!Every(s)

ScheduleKnown(s) == schedule[s] = None \/ Listed(s, schedule[s].list, now)

RateKnown(s) == held[s] = None \/ (Quoted(s, held[s], now) /\ held[s].rate = polled[s] /\ polled[s] \in Int)

(* A rate of the last poll; what is cached was computed from rates of its time. *)
FundingInv ==
    /\ now \in Nat
    /\ VenuesAre
    /\ fraction \in [Funding!Sides -> Int]
    /\ DOMAIN schedule = Funding!Sides /\ DOMAIN held = Funding!Sides /\ DOMAIN polled = Funding!Sides
    /\ \A s \in Funding!Sides : ScheduleKnown(s) /\ RateKnown(s)
    /\ \/ cache = None
       \/ \E t \in Nat : \E long, short :
              /\ t <= now
              /\ long = None \/ Quoted("long", long, t)
              /\ short = None \/ Quoted("short", short, t)
              /\ cache.long = long /\ cache.short = short
              /\ cache.funding = Funding!PairFunding(long, short, t)
              /\ cache.until = IF cache.funding = None THEN None ELSE cache.funding.changes

PublishedAs(s, answer) ==
    /\ answer.rate = IF market[s].name = "variational" THEN (fraction[s] * Funding!HoursPerYear) \div market[s].interval
                     ELSE fraction[s]
    /\ market[s].name \notin {"hyperliquid", "variational"} => answer.next = Funding!ComingSettlement(s, now)
    /\ market[s].name \in {"binance", "aster"} =>
           answer.listed = IF market[s].interval = DefaultInterval THEN {} ELSE {market[s].interval}
    /\ market[s].name \in {"gate", "variational"} => answer.seconds = market[s].interval * 3600
    /\ market[s].name \in {"mexc", "bingx", "bybit", "bitget"} => answer.hours = market[s].interval
    /\ market[s].name = "kucoin" => answer.granularity = market[s].interval * 3600000

LEMMA PublishedIs == ASSUME NEW s, market[s].name \in FundingNames PROVE PublishedAs(s, Funding!Published(s))
  <1> DEFINE v == market[s]
  <1> DEFINE coming == Funding!ComingSettlement(s, now)
  <1> DEFINE p == Funding!Published(s)
  <1>1. p = IF v.name \in {"binance", "aster"}
            THEN [rate |-> fraction[s], next |-> coming, listed |-> IF v.interval = DefaultInterval THEN {} ELSE {v.interval}]
            ELSE IF v.name = "gate" THEN [rate |-> fraction[s], seconds |-> v.interval * 3600, next |-> coming]
            ELSE IF v.name \in {"mexc", "bingx", "bybit", "bitget"} THEN [rate |-> fraction[s], hours |-> v.interval, next |-> coming]
            ELSE IF v.name = "kucoin" THEN [rate |-> fraction[s], granularity |-> v.interval * 3600000, next |-> coming]
            ELSE IF v.name = "hyperliquid" THEN [rate |-> fraction[s]]
            ELSE [rate |-> (fraction[s] * Funding!HoursPerYear) \div v.interval, seconds |-> v.interval * 3600]
    BY SMT DEF Funding!Published
  <1> HIDE DEF v, coming, p, PublishedAs
  <1>2. CASE v.name \in {"binance", "aster"}
    <2>1. p = [rate |-> fraction[s], next |-> coming, listed |-> IF v.interval = DefaultInterval THEN {} ELSE {v.interval}]
      BY <1>1, <1>2
    <2> QED  BY <1>2, <2>1 DEF v, coming, p, PublishedAs
  <1>3. CASE v.name = "gate"
    <2>1. p = [rate |-> fraction[s], seconds |-> v.interval * 3600, next |-> coming]
      BY <1>1, <1>3
    <2> QED  BY <1>3, <2>1 DEF v, coming, p, PublishedAs
  <1>4. CASE v.name \in {"mexc", "bingx", "bybit", "bitget"}
    <2>1. p = [rate |-> fraction[s], hours |-> v.interval, next |-> coming]
      BY <1>1, <1>4
    <2> QED  BY <1>4, <2>1 DEF v, coming, p, PublishedAs
  <1>5. CASE v.name = "kucoin"
    <2>1. p = [rate |-> fraction[s], granularity |-> v.interval * 3600000, next |-> coming]
      BY <1>1, <1>5
    <2> QED  BY <1>5, <2>1 DEF v, coming, p, PublishedAs
  <1>6. CASE v.name = "hyperliquid"
    <2>1. p = [rate |-> fraction[s]]
      BY <1>1, <1>6
    <2> QED  BY <1>6, <2>1 DEF v, coming, p, PublishedAs
  <1>7. CASE v.name = "variational"
    <2>1. p = [rate |-> (fraction[s] * Funding!HoursPerYear) \div v.interval, seconds |-> v.interval * 3600]
      BY <1>1, <1>7
    <2> QED  BY <1>7, <2>1 DEF v, coming, p, PublishedAs
  <1> QED  BY <1>2, <1>3, <1>4, <1>5, <1>6, <1>7 DEF FundingNames, v, p

LEMMA RateIsQuoted ==
    ASSUME NEW s, NEW x, NEW i, NEW n, NEW t, i = market[s].interval,
           \/ n = None /\ market[s].name = "variational"
           \/ OnTime(s, n) /\ n <= t + Funding!Every(s) /\ market[s].name # "variational"
    PROVE  \/ Funding!Rate(x, i, n) = None
           \/ Quoted(s, Funding!Rate(x, i, n), t) /\ Funding!Rate(x, i, n).rate = x
  <1>1. Funding!Rate(x, i, n) = None \/ Funding!Rate(x, i, n) = [rate |-> x, interval |-> i, next |-> n]
    BY DEF Funding!Rate
  <1>2. ASSUME NEW r, r = [rate |-> x, interval |-> i, next |-> n] PROVE Quoted(s, r, t) /\ r.rate = x
    BY <1>2 DEF Quoted
  <1> QED  BY <1>1, <1>2

LEMMA ListIs ==
    ASSUME FundingApart, FundingInv, NEW s \in Funding!Sides
    PROVE  Listed(s, Funding!Published(s), now) /\ Listed(s, Funding!ScheduleOf(s).list, now)
  <1>1. now \in Nat /\ VenuesAre /\ market[s].name \in FundingNames
    BY DEF FundingInv, VenuesAre
  <1>2. OnTime(s, Funding!ComingSettlement(s, now)) /\ Funding!ComingSettlement(s, now) <= now + Funding!Every(s)
    BY <1>1, ComingIs
  <1>3. Listed(s, Funding!Published(s), now)
    <2> DEFINE answer == Funding!Published(s)
    <2>1. PublishedAs(s, answer)
      BY <1>1, PublishedIs
    <2> HIDE DEF answer
    <2>2. /\ market[s].name \in {"binance", "aster"} =>
                answer.listed = IF market[s].interval = DefaultInterval THEN {} ELSE {market[s].interval}
          /\ market[s].name = "gate" =>
                answer.seconds = market[s].interval * 3600 /\ answer.next = Funding!ComingSettlement(s, now)
      BY <2>1, SMT DEF PublishedAs
    <2>3. Listed(s, answer, now)
      BY <1>2, <2>2, SMT DEF Listed
    <2> QED  BY <2>3 DEF answer
  <1>4. \/ Funding!ScheduleOf(s) = schedule[s] /\ schedule[s] # None
        \/ Funding!ScheduleOf(s) = [at |-> now, list |-> Funding!Published(s)]
    BY DEF Funding!ScheduleOf
  <1>5. schedule[s] # None => Listed(s, schedule[s].list, now)
    BY DEF FundingInv, ScheduleKnown
  <1> QED  BY <1>3, <1>4, <1>5

LEMMA FetchIs ==
    ASSUME FundingApart, FundingInv, NEW s \in Funding!Sides
    PROVE  Funding!Fetch(s) = None \/ (Quoted(s, Funding!Fetch(s), now) /\ Funding!Fetch(s).rate = fraction[s])
  <1> DEFINE name == market[s].name
  <1> DEFINE i == market[s].interval
  <1> DEFINE answer == Funding!Published(s)
  <1> DEFINE list == Funding!ScheduleOf(s).list
  <1> DEFINE x == fraction[s]
  <1>0. now \in Nat /\ VenuesAre /\ name \in FundingNames /\ x \in Int /\ Hour \in Nat \ {0}
    BY DEF FundingInv, VenuesAre, FundingApart
  <1>1. i \in Nat \ {0} /\ i \in Intervals
    BY <1>0, VenueIs DEF VenuesAre
  <1>2. OnTime(s, Funding!ComingSettlement(s, now)) /\ Funding!ComingSettlement(s, now) <= now + Funding!Every(s)
    BY <1>0, ComingIs
  <1>3. Listed(s, list, now)
    BY ListIs
  <1>4. PublishedAs(s, answer)
    BY <1>0, PublishedIs
  <1>5. (i * 3600) \div 3600 = i /\ (i * 3600000) \div 3600000 = i
    BY <1>1, Multiple, SMT
  <1>6. Funding!Fetch(s) =
          IF name \in {"binance", "aster"} THEN Funding!ParseBinanceLike(answer, list)
          ELSE IF name = "gate" THEN Funding!ParseGate(answer, list)
          ELSE IF name \in {"mexc", "bingx", "bybit", "bitget"} THEN Funding!ParseHours(answer)
          ELSE IF name = "kucoin" THEN Funding!ParseKucoin(answer)
          ELSE IF name = "hyperliquid" THEN Funding!ParseHyperliquid(answer)
          ELSE Funding!ParseVariational(answer)
    BY SMT DEF Funding!Fetch
  <1> HIDE DEF answer, list
  <1>7. CASE name \in {"binance", "aster"}
    <2>1. Funding!Fetch(s) = Funding!ParseBinanceLike(answer, list)
      BY <1>6, <1>7
    <2>2. list.listed = IF i = DefaultInterval THEN {} ELSE {i}
      BY <1>3, <1>7 DEF Listed
    <2>3. Funding!Max({i}) = i
      <3>1. \E y \in {i} : \A z \in {i} : y >= z
        BY <1>1
      <3> QED  BY <3>1 DEF Funding!Max
    <2>4. (IF list.listed = {} THEN DefaultInterval ELSE Funding!Max(list.listed)) = i
      BY <2>2, <2>3
    <2>5. Funding!Fetch(s) = Funding!Rate(x, i, Funding!ComingSettlement(s, now))
      BY <1>4, <1>7, <2>1, <2>4 DEF Funding!ParseBinanceLike, PublishedAs
    <2> QED  BY <1>2, <1>7, <2>5, RateIsQuoted
  <1>8. CASE name = "gate"
    <2>1. Funding!Fetch(s) = Funding!ParseGate(answer, list)
      BY <1>6, <1>8
    <2>2. list.seconds = i * 3600 /\ OnTime(s, list.next) /\ list.next <= now + Funding!Every(s)
      BY <1>3, <1>8 DEF Listed
    <2>3. Funding!Fetch(s) = Funding!Rate(x, i, list.next)
      BY <1>4, <1>5, <1>8, <2>1, <2>2 DEF Funding!ParseGate, PublishedAs
    <2> QED  BY <1>8, <2>2, <2>3, RateIsQuoted
  <1>9. CASE name \in {"mexc", "bingx", "bybit", "bitget"}
    <2>1. Funding!Fetch(s) = Funding!ParseHours(answer)
      BY <1>6, <1>9
    <2>2. Funding!Fetch(s) = Funding!Rate(x, i, Funding!ComingSettlement(s, now))
      BY <1>4, <1>9, <2>1 DEF Funding!ParseHours, PublishedAs
    <2> QED  BY <1>2, <1>9, <2>2, RateIsQuoted
  <1>10. CASE name = "kucoin"
    <2>1. Funding!Fetch(s) = Funding!ParseKucoin(answer)
      BY <1>6, <1>10
    <2>2. Funding!Fetch(s) = Funding!Rate(x, i, Funding!ComingSettlement(s, now))
      BY <1>4, <1>5, <1>10, <2>1, SMT DEF Funding!ParseKucoin, PublishedAs
    <2> QED  BY <1>2, <1>10, <2>2, RateIsQuoted
  <1>11. CASE name = "hyperliquid"
    <2> DEFINE u == (now \div Hour + 1) * Hour
    <2> DEFINE q == now \div Hour
    <2>1. i = 1 /\ market[s].first = 0 /\ Funding!Every(s) = Hour
      <3>1. i = 1 /\ market[s].first = 0
        BY <1>0, <1>11 DEF VenuesAre
      <3> QED  BY <1>0, <3>1 DEF Funding!Every
    <2>2. Funding!Fetch(s) = Funding!Rate(x, 1, u)
      <3>1. Funding!Fetch(s) = Funding!ParseHyperliquid(answer)
        BY <1>6, <1>11
      <3> QED  BY <1>4, <1>11, <3>1 DEF Funding!ParseHyperliquid, PublishedAs
    <2>3. q \in Nat /\ q * Hour <= now /\ now < q * Hour + Hour
      BY <1>0, QuotientIs
    <2>4. u = (q + 1) * Hour
      OBVIOUS
    <2> HIDE DEF q, u
    <2>5. q + 1 \in Nat /\ (q + 1) * Hour = q * Hour + Hour /\ q * Hour \in Nat
      BY <1>0, <2>3, Grows
    <2>6. u \in Nat \ {0} /\ u <= now + Hour
      BY <1>0, <2>3, <2>4, <2>5
    <2>7. Grid(0, Hour, u)
      <3>1. u = 0 + (q + 1) * Hour
        BY <2>4, <2>6
      <3> QED  BY <2>5, <3>1 DEF Grid
    <2>8. OnTime(s, u) /\ u <= now + Funding!Every(s)
      BY <2>1, <2>6, <2>7 DEF OnTime
    <2> QED  BY <1>11, <2>1, <2>2, <2>8, RateIsQuoted
  <1>12. CASE name = "variational"
    <2>1. Funding!Fetch(s) = Funding!ParseVariational(answer)
      BY <1>6, <1>12
    <2>2. answer.seconds \div 3600 = i
      BY <1>4, <1>5, <1>12 DEF PublishedAs
    <2>3. Funding!Fetch(s) = Funding!Rate((answer.rate * i) \div Funding!HoursPerYear, i, None)
      BY <2>1, <2>2 DEF Funding!ParseVariational
    <2>4. PICK k \in Nat : Funding!HoursPerYear = k * i
      BY <1>1 DEF FundingApart
    <2>5. Funding!HoursPerYear \in Nat \ {0}
      BY DEF Funding!HoursPerYear
    <2>6. \A a, b, c \in Int : a * (b * c) = (a * b) * c /\ a * b \in Int
      BY Z3
    <2>7. x * Funding!HoursPerYear = (x * k) * i /\ x * k \in Int
      <3>1. x \in Int /\ k \in Int /\ i \in Int
        BY <1>0, <1>1
      <3>2. x * (k * i) = (x * k) * i /\ x * k \in Int
        BY <2>6, <3>1, ZenonT(40)
      <3> QED  BY <2>4, <3>2, Zenon
    <2>8. answer.rate = x * k
      <3>1. answer.rate = (x * Funding!HoursPerYear) \div i
        BY <1>4, <1>12 DEF PublishedAs
      <3>2. ((x * k) * i) \div i = x * k
        BY <1>1, <2>7, Multiple
      <3> QED  BY <2>7, <3>1, <3>2
    <2>9. (answer.rate * i) \div Funding!HoursPerYear = x
      <3>1. (x * Funding!HoursPerYear) \div Funding!HoursPerYear = x
        BY <1>0, <2>5, Multiple
      <3> QED  BY <2>7, <2>8, <3>1
    <2>10. Funding!Fetch(s) = Funding!Rate(x, i, None)
      BY <2>3, <2>9, Zenon
    <2> QED  BY <1>12, <2>10, RateIsQuoted
  <1> QED  BY <1>0, <1>7, <1>8, <1>9, <1>10, <1>11, <1>12 DEF FundingNames

--------------------------------------------------------------------------------
LEMMA VenuesStay ==
    ASSUME FundingApart, FundingInv, market' = market, now' \in Nat, now <= now'
    PROVE  /\ VenuesAre /\ VenuesAre'
           /\ \A s \in Funding!Sides : \A list : Listed(s, list, now) => Listed(s, list, now)'
           /\ \A s \in Funding!Sides : \A r : Quoted(s, r, now) => Quoted(s, r, now)'
           /\ \A s, r, t : Quoted(s, r, t)' = Quoted(s, r, t)
  <1>1. VenuesAre /\ now \in Nat
    BY DEF FundingInv
  <1>2. ASSUME NEW s PROVE Funding!Every(s)' = Funding!Every(s)
    BY DEF Funding!Every
  <1>3. ASSUME NEW s, NEW u PROVE OnTime(s, u)' = OnTime(s, u)
    BY <1>2 DEF OnTime
  <1>4. VenuesAre'
    BY <1>1, <1>2 DEF VenuesAre
  <1>5. ASSUME NEW s, NEW r, NEW t PROVE Quoted(s, r, t)' = Quoted(s, r, t)
    BY <1>2, <1>3 DEF Quoted
  <1>6. ASSUME NEW s \in Funding!Sides, NEW r, Quoted(s, r, now) PROVE Quoted(s, r, now)'
    <2>1. Quoted(s, r, now')
      BY <1>1, <1>6, QuotedLater
    <2>2. ASSUME NEW t PROVE Quoted(s, r, t)' = Quoted(s, r, t)
      BY <1>5
    <2>3. Quoted(s, r, now)' = Quoted(s, r, now')
      BY <1>2, <1>3 DEF Quoted
    <2> QED  BY <2>1, <2>3
  <1>7. ASSUME NEW s \in Funding!Sides, NEW list, Listed(s, list, now) PROVE Listed(s, list, now)'
    <2>1. market[s].name = "gate" => list.next <= now' + Funding!Every(s)
      <3>1. market[s].name = "gate" => OnTime(s, list.next) /\ list.next <= now + Funding!Every(s)
        BY <1>7 DEF Listed
      <3> QED  BY <1>1, <3>1, VenueIs DEF OnTime
    <2> QED  BY <1>2, <1>3, <1>7, <2>1 DEF Listed
  <1> QED  BY <1>1, <1>4, <1>5, <1>6, <1>7

CacheKnows(c, v) ==
    \/ c = None
    \/ \E t \in Nat : \E long, short :
          /\ t <= v
          /\ long = None \/ Quoted("long", long, t)
          /\ short = None \/ Quoted("short", short, t)
          /\ c.long = long /\ c.short = short
          /\ c.funding = Funding!PairFunding(long, short, t)
          /\ c.until = IF c.funding = None THEN None ELSE c.funding.changes

LEMMA CacheStays ==
    ASSUME FundingApart, FundingInv, market' = market, cache' = cache, now' \in Nat, now <= now'
    PROVE  CacheKnows(cache, now)'
  <1>1. CacheKnows(cache, now) /\ now \in Nat
    BY DEF FundingInv, CacheKnows
  <1>2. CASE cache = None
    BY <1>2 DEF CacheKnows
  <1>3. CASE cache # None
    <2>1. PICK t \in Nat : \E long, short :
                /\ t <= now
                /\ long = None \/ Quoted("long", long, t)
                /\ short = None \/ Quoted("short", short, t)
                /\ cache.long = long /\ cache.short = short
                /\ cache.funding = Funding!PairFunding(long, short, t)
                /\ cache.until = IF cache.funding = None THEN None ELSE cache.funding.changes
      BY <1>1, <1>3 DEF CacheKnows
    <2>2. PICK long, short :
                /\ t <= now
                /\ long = None \/ Quoted("long", long, t)
                /\ short = None \/ Quoted("short", short, t)
                /\ cache.long = long /\ cache.short = short
                /\ cache.funding = Funding!PairFunding(long, short, t)
                /\ cache.until = IF cache.funding = None THEN None ELSE cache.funding.changes
      BY <2>1
    <2>3. Quoted("long", long, t)' = Quoted("long", long, t) /\ Quoted("short", short, t)' = Quoted("short", short, t)
      BY VenuesStay
    <2>4. t <= now'
      BY <1>1, <2>2
    <2> QED  BY <2>2, <2>3, <2>4 DEF CacheKnows
  <1> QED  BY <1>2, <1>3

LEMMA PollKeeps ==
    ASSUME FundingApart, FundingInv, NEW s \in Funding!Sides, Funding!Poll(s)
    PROVE  FundingInv'
  <1>1. /\ schedule' = [schedule EXCEPT ![s] = IF Funding!HasSchedule(s) THEN Funding!ScheduleOf(s) ELSE None]
        /\ held' = [held EXCEPT ![s] = Funding!Fetch(s)]
        /\ polled' = [polled EXCEPT ![s] = fraction[s]]
        /\ now' = now /\ market' = market /\ fraction' = fraction /\ cache' = cache
    BY DEF Funding!Poll
  <1>2. now \in Nat /\ now <= now'
    BY <1>1 DEF FundingInv
  <1>3. /\ VenuesAre'
        /\ \A x \in Funding!Sides : \A list : Listed(x, list, now) => Listed(x, list, now)'
        /\ \A x \in Funding!Sides : \A r : Quoted(x, r, now) => Quoted(x, r, now)'
    BY <1>1, <1>2, VenuesStay
  <1>4. CacheKnows(cache, now)'
    BY <1>1, <1>2, CacheStays
  <1>5. fraction[s] \in Int /\ fraction \in [Funding!Sides -> Int]
    BY DEF FundingInv
  <1>6. DOMAIN schedule' = Funding!Sides /\ DOMAIN held' = Funding!Sides /\ DOMAIN polled' = Funding!Sides
    BY <1>1 DEF FundingInv
  <1>7. ASSUME NEW x \in Funding!Sides PROVE ScheduleKnown(x)'
    <2>1. CASE x = s
      <3>1. schedule'[s] = None \/ schedule'[s] = Funding!ScheduleOf(s)
        BY <1>1 DEF FundingInv
      <3>2. Listed(s, Funding!ScheduleOf(s).list, now)
        BY ListIs
      <3> QED  BY <1>3, <2>1, <3>1, <3>2 DEF ScheduleKnown
    <2>2. CASE x # s
      <3>1. schedule'[x] = schedule[x]
        BY <1>1, <2>2 DEF FundingInv
      <3>2. schedule[x] = None \/ Listed(x, schedule[x].list, now)
        BY DEF FundingInv, ScheduleKnown
      <3> QED  BY <1>3, <3>1, <3>2 DEF ScheduleKnown
    <2> QED  BY <2>1, <2>2
  <1>8. ASSUME NEW x \in Funding!Sides
        PROVE  RateKnown(x)'
    <2>1. CASE x = s
      <3>1. held'[s] = Funding!Fetch(s) /\ polled'[s] = fraction[s]
        BY <1>1 DEF FundingInv
      <3>2. Funding!Fetch(s) = None \/ (Quoted(s, Funding!Fetch(s), now) /\ Funding!Fetch(s).rate = fraction[s])
        BY FetchIs
      <3> QED  BY <1>3, <1>5, <2>1, <3>1, <3>2 DEF RateKnown
    <2>2. CASE x # s
      <3>1. held'[x] = held[x] /\ polled'[x] = polled[x]
        BY <1>1, <2>2 DEF FundingInv
      <3>2. held[x] = None \/ (Quoted(x, held[x], now) /\ held[x].rate = polled[x] /\ polled[x] \in Int)
        BY DEF FundingInv, RateKnown
      <3> QED  BY <1>3, <3>1, <3>2 DEF RateKnown
    <2> QED  BY <2>1, <2>2
  <1> QED  BY <1>1, <1>2, <1>3, <1>4, <1>5, <1>6, <1>7, <1>8 DEF FundingInv, CacheKnows

(* Time passes, a schedule is read, the exchange changes its rate: nothing held. *)
LEMMA HeldStays ==
    ASSUME FundingApart, FundingInv, Funding!Tick \/ \E s \in Funding!Sides : Funding!PollFails(s) \/ Funding!RateChanges(s)
    PROVE  FundingInv'
  <1>1. market' = market /\ cache' = cache /\ held' = held /\ polled' = polled
    BY DEF Funding!Tick, Funding!PollFails, Funding!RateChanges
  <1>2. now \in Nat /\ now' \in Nat /\ now <= now'
    BY DEF Funding!Tick, Funding!PollFails, Funding!RateChanges, FundingInv
  <1>3. /\ VenuesAre'
        /\ \A x \in Funding!Sides : \A list : Listed(x, list, now) => Listed(x, list, now)'
        /\ \A x \in Funding!Sides : \A r : Quoted(x, r, now) => Quoted(x, r, now)'
    BY <1>1, <1>2, VenuesStay
  <1>4. CacheKnows(cache, now)'
    BY <1>1, <1>2, CacheStays
  <1>5. fraction' \in [Funding!Sides -> Int]
    <2>1. ASSUME NEW s \in Funding!Sides, Funding!RateChanges(s) PROVE fraction' \in [Funding!Sides -> Int]
      <3>1. PICK f \in Fractions : fraction' = [fraction EXCEPT ![s] = f]
        BY <2>1 DEF Funding!RateChanges
      <3> QED  BY <3>1 DEF FundingInv, FundingApart
    <2>2. Funding!Tick \/ (\E s \in Funding!Sides : Funding!PollFails(s)) => fraction' = fraction
      BY DEF Funding!Tick, Funding!PollFails
    <2> QED  BY <2>1, <2>2 DEF FundingInv
  <1>6. /\ DOMAIN schedule' = Funding!Sides
        /\ \A x \in Funding!Sides : ScheduleKnown(x)'
    <2>1. CASE schedule' = schedule
      <3>1. DOMAIN schedule = Funding!Sides /\ \A x \in Funding!Sides : schedule[x] = None \/ Listed(x, schedule[x].list, now)
        BY DEF FundingInv, ScheduleKnown
      <3> QED  BY <1>3, <2>1, <3>1 DEF ScheduleKnown
    <2>2. ASSUME NEW s \in Funding!Sides, Funding!PollFails(s)
          PROVE  /\ DOMAIN schedule' = Funding!Sides
                 /\ \A x \in Funding!Sides : ScheduleKnown(x)'
      <3>1. schedule' = [schedule EXCEPT ![s] = Funding!ScheduleOf(s)]
        BY <2>2 DEF Funding!PollFails
      <3>2. DOMAIN schedule = Funding!Sides /\ \A x \in Funding!Sides : schedule[x] = None \/ Listed(x, schedule[x].list, now)
        BY DEF FundingInv, ScheduleKnown
      <3>3. Listed(s, Funding!ScheduleOf(s).list, now)
        BY ListIs
      <3>4. \A x \in Funding!Sides : schedule'[x] = IF x = s THEN Funding!ScheduleOf(s) ELSE schedule[x]
        BY <3>1, <3>2
      <3> QED  BY <1>3, <3>1, <3>2, <3>3, <3>4 DEF ScheduleKnown
    <2> QED  BY <2>1, <2>2 DEF Funding!Tick, Funding!RateChanges
  <1>7. ASSUME NEW x \in Funding!Sides
        PROVE  RateKnown(x)'
    <2>1. held[x] = None \/ (Quoted(x, held[x], now) /\ held[x].rate = polled[x] /\ polled[x] \in Int)
      BY DEF FundingInv, RateKnown
    <2> QED  BY <1>1, <1>3, <2>1 DEF RateKnown
  <1>8. DOMAIN held' = Funding!Sides /\ DOMAIN polled' = Funding!Sides
    BY <1>1 DEF FundingInv
  <1> QED  BY <1>2, <1>3, <1>4, <1>5, <1>6, <1>7, <1>8 DEF FundingInv, CacheKnows

LEMMA CurrentIs ==
    ASSUME FundingInv, NEW s \in Funding!Sides
    PROVE  \/ Funding!CurrentRate(s) = None
           \/ /\ Quoted(s, Funding!CurrentRate(s), now)
              /\ Funding!CurrentRate(s).rate = polled[s] /\ polled[s] \in Int
  <1>1. Funding!CurrentRate(s) = None \/ Funding!CurrentRate(s) = held[s]
    BY DEF Funding!CurrentRate
  <1> QED  BY <1>1 DEF FundingInv, RateKnown

LEMMA ShowKeeps ==
    ASSUME FundingApart, FundingInv, Funding!Show
    PROVE  FundingInv'
  <1> DEFINE long == Funding!CurrentRate("long")
  <1> DEFINE short == Funding!CurrentRate("short")
  <1> DEFINE funding == Funding!PairFunding(long, short, now)
  <1>1. /\ cache' = [until |-> IF funding = None THEN None ELSE funding.changes, long |-> long, short |-> short, funding |-> funding]
        /\ now' = now /\ market' = market /\ fraction' = fraction /\ schedule' = schedule /\ held' = held /\ polled' = polled
    BY DEF Funding!Show
  <1>2. now \in Nat /\ now <= now'
    BY <1>1 DEF FundingInv
  <1>3. /\ VenuesAre'
        /\ \A x \in Funding!Sides : \A list : Listed(x, list, now) => Listed(x, list, now)'
        /\ \A x \in Funding!Sides : \A r : Quoted(x, r, now) => Quoted(x, r, now)'
        /\ \A x, r, t : Quoted(x, r, t)' = Quoted(x, r, t)
    BY <1>1, <1>2, VenuesStay
  <1>4. (long = None \/ Quoted("long", long, now)) /\ (short = None \/ Quoted("short", short, now))
    <2>1. "long" \in Funding!Sides /\ "short" \in Funding!Sides
      BY DEF Funding!Sides
    <2> QED  BY <2>1, CurrentIs
  <1>5. CacheKnows(cache, now)'
    <2> HIDE DEF long, short, funding
    <2>1. /\ cache'.long = long /\ cache'.short = short /\ cache'.funding = funding
          /\ cache'.until = IF funding = None THEN None ELSE funding.changes
      BY <1>1
    <2>2. PICK a, b : a = long /\ b = short
      OBVIOUS
    <2>3. PICK t \in Nat : t = now
      BY <1>2
    <2>4. (a = None \/ Quoted("long", a, t)) /\ (b = None \/ Quoted("short", b, t)) /\ funding = Funding!PairFunding(a, b, t)
      BY <1>4, <2>2, <2>3 DEF funding
    <2>5. (a = None \/ Quoted("long", a, t)') /\ (b = None \/ Quoted("short", b, t)')
      BY <1>3, <2>4
    <2>6. t <= now'
      BY <1>2, <2>3
    <2> QED  BY <2>1, <2>2, <2>4, <2>5, <2>6 DEF CacheKnows
  <1>6. ASSUME NEW x \in Funding!Sides PROVE ScheduleKnown(x)'
    <2>1. schedule[x] = None \/ Listed(x, schedule[x].list, now)
      BY DEF FundingInv, ScheduleKnown
    <2> QED  BY <1>1, <1>3, <2>1 DEF ScheduleKnown
  <1>7. ASSUME NEW x \in Funding!Sides
        PROVE  RateKnown(x)'
    <2>1. held[x] = None \/ (Quoted(x, held[x], now) /\ held[x].rate = polled[x] /\ polled[x] \in Int)
      BY DEF FundingInv, RateKnown
    <2> QED  BY <1>1, <1>3, <2>1 DEF RateKnown
  <1>8. /\ DOMAIN schedule' = Funding!Sides /\ DOMAIN held' = Funding!Sides /\ DOMAIN polled' = Funding!Sides
        /\ fraction' \in [Funding!Sides -> Int] /\ now' \in Nat
    BY <1>1, <1>2 DEF FundingInv
  <1> QED  BY <1>3, <1>5, <1>6, <1>7, <1>8 DEF FundingInv, CacheKnows

LEMMA CachedHolds == FundingApart /\ FundingInv => CachedIsCurrent
  <1> SUFFICES ASSUME FundingApart, FundingInv, Funding!Usable(cache)
               PROVE  Alike(Funding!PairFunding(Funding!CurrentRate("long"), Funding!CurrentRate("short"), now), cache.funding)
    BY Zenon DEF CachedIsCurrent, Funding!CachedIsCurrent, Alike
  <1>1. /\ cache # None /\ cache.long = Funding!CurrentRate("long") /\ cache.short = Funding!CurrentRate("short")
        /\ cache.until = None \/ now < cache.until
    BY DEF Funding!Usable
  <1>2. CacheKnows(cache, now) /\ now \in Nat /\ VenuesAre
    BY DEF FundingInv, CacheKnows
  <1>3. PICK t \in Nat : \E long, short :
              /\ t <= now
              /\ long = None \/ Quoted("long", long, t)
              /\ short = None \/ Quoted("short", short, t)
              /\ cache.long = long /\ cache.short = short
              /\ cache.funding = Funding!PairFunding(long, short, t)
              /\ cache.until = IF cache.funding = None THEN None ELSE cache.funding.changes
    BY <1>1, <1>2 DEF CacheKnows
  <1>4. PICK long, short :
              /\ t <= now
              /\ long = None \/ Quoted("long", long, t)
              /\ short = None \/ Quoted("short", short, t)
              /\ cache.long = long /\ cache.short = short
              /\ cache.funding = Funding!PairFunding(long, short, t)
              /\ cache.until = IF cache.funding = None THEN None ELSE cache.funding.changes
    BY <1>3
  <1>5. ASSUME long # None, short # None, Stale(long, short, t) # {}
        PROVE  now < Funding!Min(Stale(long, short, t))
    <2>1. cache.funding = FundingOf(long, short, t)
      BY <1>4, <1>5, FundingIs
    <2>2. cache.funding # None /\ cache.funding.changes = Funding!Min(Stale(long, short, t))
      BY <1>5, <2>1 DEF FundingOf, FundingApart
    <2>3. cache.until = Funding!Min(Stale(long, short, t))
      BY <1>4, <2>2
    <2>4. Funding!Min(Stale(long, short, t)) \in Int
      BY <1>2, <1>4, <1>5, StaleIs
    <2>5. cache.until # None
      BY <2>3, <2>4 DEF FundingApart
    <2> QED  BY <1>1, <2>3, <2>5
  <1>6. Alike(Funding!PairFunding(long, short, now), Funding!PairFunding(long, short, t))
    BY <1>2, <1>4, <1>5, FundingStays
  <1> QED  BY <1>1, <1>4, <1>6

(* Settlements up to the horizon, one by one. *)
LEMMA CountIs ==
    ASSUME FundingApart, VenuesAre, NEW s \in Funding!Sides, NEW t \in Nat, NEW r, Quoted(s, r, t)
    PROVE  Funding!SettlementsWithin(r, t, Horizon * Hour)
             = IF market[s].name = "variational" THEN Horizon \div market[s].interval
               ELSE Funding!Cardinality({u \in t + 1 .. t + Horizon * Hour : Funding!SettlesAt(s, u)})
  <1> DEFINE h == Horizon * Hour
  <1> DEFINE f == market[s].first
  <1> DEFINE d == Funding!Every(s)
  <1> DEFINE all == {u \in t + 1 .. t + h : Funding!SettlesAt(s, u)}
  <1>1. f \in Nat /\ d \in Nat \ {0} /\ r.interval * Hour = d /\ h \in Nat /\ d = market[s].interval * Hour
    BY HorizonIs, VenueIs, QuotedIs
  <1>2. CASE market[s].name = "variational"
    <2> DEFINE i == market[s].interval
    <2> DEFINE q == Horizon \div i
    <2>1. Horizon \in Nat /\ Hour \in Nat \ {0} /\ i \in Nat \ {0}
      BY VenueIs DEF FundingApart
    <2>2. q \in Nat /\ q * i <= Horizon /\ Horizon < q * i + i
      BY <2>1, QuotientIs
    <2> HIDE DEF i, q
    <2>3. q * i \in Nat /\ (q + 1) * i = q * i + i
      BY <2>1, <2>2, Grows
    <2>4. (q * i) * Hour <= Horizon * Hour
      BY <2>1, <2>2, <2>3, Grows
    <2>5. Horizon + 1 <= q * i + i /\ Horizon + 1 \in Nat /\ q * i + i \in Nat
      BY <2>1, <2>2, <2>3
    <2>6. (Horizon + 1) * Hour <= (q * i + i) * Hour
      BY <2>1, <2>5, Grows
    <2>7. (Horizon + 1) * Hour = Horizon * Hour + Hour /\ (q * i + i) * Hour = (q * i) * Hour + i * Hour
      BY <2>1, <2>3, Sums, Grows
    <2>8. (q * i) * Hour = q * (i * Hour)
      BY <2>1, <2>2, Z3
    <2>9. q * d <= h /\ h < q * d + d
      <3>1. d = i * Hour
        BY <1>1 DEF i
      <3>2. q * d \in Nat
        BY <1>1, <2>2, Grows
      <3> HIDE DEF d
      <3> QED  BY <1>1, <2>1, <2>4, <2>6, <2>7, <2>8, <3>1, <3>2
    <2> HIDE DEF h, d
    <2>10. h \div d = q
      BY <1>1, <2>2, <2>9, QuotientOf
    <2>11. Funding!SettlementsWithin(r, t, h) = h \div d
      <3>1. Funding!NextSettlement(r, t) = None
        BY <1>2, NextIs
      <3> QED  BY <1>1, <3>1 DEF Funding!SettlementsWithin
    <2> QED  BY <1>2, <2>10, <2>11 DEF h, q, i
  <1>3. CASE market[s].name # "variational"
    <2> DEFINE n == Funding!NextSettlement(r, t)
    <2>1. OnTime(s, n) /\ n \in Nat /\ n # None /\ t < n /\ n <= t + d
      BY <1>3, NextIs
    <2>2. Funding!SettlementsWithin(r, t, h) = IF n > t + h THEN 0 ELSE 1 + ((t + h) - n) \div d
      BY <1>1, <2>1 DEF Funding!SettlementsWithin
    <2>3. \A u : u \in all <=> u \in t + 1 .. t + h /\ OnTime(s, u)
      <3>1. \A u \in t + 1 .. t + h : Funding!SettlesAt(s, u) <=> OnTime(s, u)
        BY SettlesIs
      <3> QED  BY <3>1
    <2>4. ASSUME NEW u, OnTime(s, u), t < u, u <= t + d PROVE u = n
      BY <2>1, <2>4, OnceInAnInterval
    <2> HIDE DEF h, f, d, n, all
    <2>5. f \in Nat /\ d \in Nat \ {0} /\ n \in Int
      BY <1>1, <2>1
    <2>6. CASE n > t + h
      <3>1. all = {}
        <4>1. ASSUME NEW u \in all PROVE FALSE
          <5>1. OnTime(s, u) /\ u \in Int /\ t < u /\ u <= t + h
            BY <1>1, <2>3
          <5>2. u <= t + d
            BY <1>1, <2>1, <2>6, <5>1
          <5> QED  BY <2>1, <2>4, <2>6, <5>1, <5>2, <1>1
        <4> QED  BY <4>1
      <3>2. Funding!Cardinality(all) = 0
        BY <3>1, FS_EmptySet, Zenon DEF Funding!Cardinality, Cardinality
      <3> QED  BY <1>3, <2>2, <2>6, <3>2 DEF h, all
    <2>7. CASE ~(n > t + h)
      <3> DEFINE q == ((t + h) - n) \div d
      <3> DEFINE at == [i \in 1 .. q + 1 |-> n + (i - 1) * d]
      <3>1. (t + h) - n \in Nat
        BY <1>1, <2>1, <2>7
      <3>2. q \in Nat /\ q * d <= (t + h) - n /\ (t + h) - n < q * d + d
        BY <1>1, <3>1, QuotientIs
      <3> HIDE DEF q
      <3>3. (q + 1) * d = q * d + d /\ q * d \in Nat /\ q + 1 \in Nat
        <4>1. q \in Nat /\ q <= q
          BY <3>2
        <4> QED  BY <2>5, <4>1, Grows
      <3>4. Grid(f, d, n)
        BY <2>1 DEF OnTime, f, d
      <3>5. ASSUME NEW k \in Nat, k <= q PROVE n + k * d \in all
        <4>1. k * d <= q * d /\ k * d \in Nat
          BY <1>1, <3>2, <3>5, Grows
        <4>2. \A x \in Nat : Grid(f, d, n + x * d)
          BY <1>1, <2>1, <3>4, GridGoesOn
        <4>3. Grid(f, d, n + k * d)
          BY <4>2
        <4>4. n + k * d \in Nat \ {0} /\ n + k * d \in t + 1 .. t + h
          BY <1>1, <2>1, <3>2, <3>3, <4>1
        <4> QED  BY <2>3, <4>3, <4>4 DEF OnTime, f, d
      <3>6. ASSUME NEW u \in all PROVE \E k \in Nat : k <= q /\ u = n + k * d
        <4>1. OnTime(s, u) /\ u \in Int /\ t < u /\ u <= t + h
          BY <1>1, <2>3
        <4>2. Grid(f, d, u)
          BY <4>1 DEF OnTime, f, d
        <4>3. n - d < u
          BY <1>1, <2>1, <4>1
        <4>4. PICK k \in Nat : u = n + k * d
          BY <2>5, <3>4, <4>1, <4>2, <4>3, GridFrom
        <4>5. k <= q
          <5>1. ASSUME q + 1 <= k PROVE FALSE
            <6>1. (q + 1) * d <= k * d /\ k * d \in Nat
              BY <1>1, <3>3, <5>1, Grows
            <6> QED  BY <1>1, <2>1, <3>2, <3>3, <4>1, <4>4, <6>1
          <5> QED  BY <3>2, <5>1
        <4> QED  BY <4>4, <4>5
      <3>7. ASSUME NEW k \in Nat, NEW j \in Nat, n + k * d = n + j * d PROVE k = j
        <4>1. ASSUME NEW a \in Nat, NEW b \in Nat, a < b PROVE a * d # b * d
          <5>1. a + 1 \in Nat /\ a + 1 <= b
            BY <4>1
          <5>2. (a + 1) * d <= b * d /\ (a + 1) * d = a * d + d /\ a * d \in Nat /\ b * d \in Nat
            BY <1>1, <5>1, Grows
          <5> QED  BY <1>1, <5>2
        <4>2. k * d \in Nat /\ j * d \in Nat
          BY <1>1, Grows
        <4>3. k * d = j * d
          BY <2>1, <3>7, <4>2
        <4> QED  BY <4>1, <4>3
      <3>8. \A i \in 1 .. q + 1 : i - 1 \in Nat /\ i - 1 <= q
        BY <3>2
      <3>9. at \in [1 .. q + 1 -> all]
        BY <3>5, <3>8
      <3>10. \A i, j \in 1 .. q + 1 : at[i] = at[j] => i = j
        <4>1. ASSUME NEW i \in 1 .. q + 1, NEW j \in 1 .. q + 1, at[i] = at[j] PROVE i = j
          <5>1. n + (i - 1) * d = n + (j - 1) * d
            BY <4>1
          <5>2. i - 1 = j - 1
            BY <3>7, <3>8, <5>1
          <5> QED  BY <5>2
        <4> QED  BY <4>1
      <3>11. \A u \in all : \E i \in 1 .. q + 1 : at[i] = u
        <4>1. ASSUME NEW u \in all PROVE \E i \in 1 .. q + 1 : at[i] = u
          <5>1. PICK k \in Nat : k <= q /\ u = n + k * d
            BY <3>6
          <5>2. k + 1 \in 1 .. q + 1 /\ (k + 1) - 1 = k
            BY <3>2, <5>1
          <5>3. at[k + 1] = n + ((k + 1) - 1) * d
            BY <5>2
          <5> QED  BY <5>1, <5>2, <5>3
        <4> QED  BY <4>1
      <3> HIDE DEF at
      <3>12. at \in Bijection(1 .. q + 1, all)
        BY <3>9, <3>10, <3>11 DEF Bijection, Injection, Surjection, IsInjective
      <3>13. ExistsBijection(1 .. q + 1, all)
        BY <3>12 DEF ExistsBijection
      <3>14. IsFiniteSet(1 .. q + 1) /\ Cardinality(1 .. q + 1) = q + 1
        BY <3>3, FS_Interval
      <3>15. Cardinality(all) = q + 1
        BY <3>13, <3>14, FS_Bijection
      <3>16. Funding!Cardinality(all) = q + 1
        BY <3>15, Zenon DEF Funding!Cardinality, Cardinality
      <3>17. Funding!SettlementsWithin(r, t, h) = 1 + q
        BY <2>2, <2>7 DEF q
      <3> QED  BY <1>3, <3>2, <3>16, <3>17 DEF h, all
    <2> QED  BY <2>6, <2>7
  <1> QED  BY <1>2, <1>3

LEMMA ProjectionHolds == FundingApart /\ FundingInv => ProjectionAddsUp
  <1> DEFINE long == Funding!CurrentRate("long")
  <1> DEFINE short == Funding!CurrentRate("short")
  <1> SUFFICES ASSUME FundingApart, FundingInv, long # None, short # None
               PROVE  Funding!PairFunding(long, short, now).horizon = Funding!Paid("short") - Funding!Paid("long")
    BY Zenon DEF ProjectionAddsUp, Funding!ProjectionAddsUp
  <1>1. now \in Nat /\ VenuesAre /\ "long" \in Funding!Sides /\ "short" \in Funding!Sides
    BY DEF FundingInv, Funding!Sides
  <1>2. ASSUME NEW s \in Funding!Sides, Funding!CurrentRate(s) # None
        PROVE  Funding!CurrentRate(s).rate * Funding!SettlementsWithin(Funding!CurrentRate(s), now, Horizon * Hour) = Funding!Paid(s)
    <2>1. Quoted(s, Funding!CurrentRate(s), now) /\ Funding!CurrentRate(s).rate = polled[s]
      BY <1>2, CurrentIs
    <2> DEFINE count == IF market[s].name = "variational" THEN Horizon \div market[s].interval
                        ELSE Funding!Cardinality({u \in now + 1 .. now + Horizon * Hour : Funding!SettlesAt(s, u)})
    <2>2. Funding!SettlementsWithin(Funding!CurrentRate(s), now, Horizon * Hour) = count
      BY <1>1, <2>1, CountIs
    <2>3. Funding!Paid(s) = polled[s] * count
      BY Zenon DEF Funding!Paid
    <2> HIDE DEF count
    <2> QED  BY <2>1, <2>2, <2>3
  <1>3. Funding!PairFunding(long, short, now) = FundingOf(long, short, now)
    BY FundingIs
  <1>4. FundingOf(long, short, now).horizon
          = short.rate * Funding!SettlementsWithin(short, now, Horizon * Hour)
            - long.rate * Funding!SettlementsWithin(long, now, Horizon * Hour)
    BY DEF FundingOf
  <1>5. /\ long.rate * Funding!SettlementsWithin(long, now, Horizon * Hour) = Funding!Paid("long")
        /\ short.rate * Funding!SettlementsWithin(short, now, Horizon * Hour) = Funding!Paid("short")
    BY <1>1, <1>2
  <1> QED  BY <1>3, <1>4, <1>5

LEMMA FundingHolds == ASSUME FundingApart PROVE SpecAll => []FundingInv
  <1>1. ASSUME InitAll PROVE FundingInv
    <2>1. Funding!Init
      BY <1>1 DEF InitAll
    <2>2. PICK l \in Funding!Venues(FundedVenues), x \in Funding!Venues(OtherVenues) : market = [long |-> l, short |-> x]
      BY <2>1 DEF Funding!Init
    <2>3. ASSUME NEW names, names \subseteq FundingNames, NEW v \in Funding!Venues(names)
          PROVE  /\ v.name \in FundingNames /\ v.interval \in Intervals /\ v.first \in Nat /\ v.first < v.interval * Hour
                 /\ v.name = "hyperliquid" => v.interval = 1 /\ v.first = 0
      BY <2>3 DEF Funding!Venues
    <2>4. VenuesAre
      <3>1. ASSUME NEW s \in Funding!Sides PROVE market[s] \in Funding!Venues(FundedVenues) \cup Funding!Venues(OtherVenues)
        BY <2>2 DEF Funding!Sides
      <3> QED  BY <2>3, <3>1 DEF VenuesAre, Funding!Every, FundingApart
    <2>5. fraction \in [Funding!Sides -> Int]
      BY <2>1 DEF Funding!Init, FundingApart
    <2>6. now = 0 /\ cache = None /\ schedule = [s \in Funding!Sides |-> None] /\ held = [s \in Funding!Sides |-> None]
          /\ polled = [s \in Funding!Sides |-> None]
      BY <2>1 DEF Funding!Init
    <2> QED  BY <2>4, <2>5, <2>6 DEF FundingInv, ScheduleKnown, RateKnown
  <1>2. ASSUME FundingInv, [NextAll]_allVars PROVE FundingInv'
    <2>1. CASE Funding!Next
      BY <1>2, <2>1, PollKeeps, HeldStays, ShowKeeps DEF Funding!Next
    <2>2. CASE UNCHANGED fundingVars
      <3>1. /\ now' = now /\ market' = market /\ fraction' = fraction /\ schedule' = schedule /\ held' = held
            /\ polled' = polled /\ cache' = cache
        BY <2>2 DEF fundingVars
      <3>2. now \in Nat /\ now <= now'
        BY <1>2, <3>1 DEF FundingInv
      <3>3. /\ VenuesAre'
            /\ \A x \in Funding!Sides : \A list : Listed(x, list, now) => Listed(x, list, now)'
            /\ \A x \in Funding!Sides : \A r : Quoted(x, r, now) => Quoted(x, r, now)'
        BY <1>2, <3>1, <3>2, VenuesStay
      <3>4. CacheKnows(cache, now)'
        BY <1>2, <3>1, <3>2, CacheStays
      <3>5. ASSUME NEW x \in Funding!Sides PROVE ScheduleKnown(x)' /\ RateKnown(x)'
        <4>1. ScheduleKnown(x) /\ RateKnown(x)
          BY <1>2 DEF FundingInv
        <4> QED  BY <3>1, <3>3, <4>1 DEF ScheduleKnown, RateKnown
      <3> QED  BY <1>2, <3>1, <3>2, <3>3, <3>4, <3>5 DEF FundingInv, CacheKnows
    <2> QED
      BY <1>2, <2>1, <2>2
         DEF NextAll, ClickStep, LegsStep, OrderStep, ContractStep, AccountStep, BookStep, FundingStep, RadarStep, allVars
  <1> QED  BY <1>1, <1>2, PTL DEF SpecAll

(* What is shown from the cache is what the current rates give at this moment,
   for any exchanges, rates, intervals, horizon and age of what was polled. *)
THEOREM CachedFundingIsCurrent ==
    ASSUME FundingApart PROVE SpecAll => []CachedIsCurrent
  BY CachedHolds, FundingHolds, PTL

(* The projected funding of a pair is the sum of the settlements inside the
   horizon, for the same. *)
THEOREM ProjectionsAddUp ==
    ASSUME FundingApart PROVE SpecAll => []ProjectionAddsUp
  BY ProjectionHolds, FundingHolds, PTL
--------------------------------------------------------------------------------
(* What the books of a pair carry *)

(* Products of whole numbers. *)

LEMMA WholeProducts ==
    /\ \A a, b \in Int : a * b \in Int
    /\ \A a, b, c \in Int : (a + b) * c = a * c + b * c
    /\ \A a, b, c \in Int : (a - b) * c = a * c - b * c
    /\ \A a, b \in Int : a * b = b * a
    /\ \A a, b, c \in Int : (a * b) * c = a * (b * c)
  <1>1. \A a, b \in Int : a * b \in Int
    OBVIOUS
  <1>2. \A a, b, c \in Int : (a + b) * c = a * c + b * c
    OBVIOUS
  <1>3. \A a, b, c \in Int : (a - b) * c = a * c - b * c
    OBVIOUS
  <1>4. \A a, b \in Int : a * b = b * a
    OBVIOUS
  <1>5. \A a, b, c \in Int : (a * b) * c = a * (b * c)
    OBVIOUS
  <1> QED  BY <1>1, <1>2, <1>3, <1>4, <1>5

LEMMA ProductGrows == \A a \in Nat, x, y \in Int : x <= y => a * x <= a * y
  OBVIOUS

LEMMA ProductShrinks ==
    ASSUME NEW a \in Nat \ {0}, NEW x \in Int, NEW y \in Int, a * x <= a * y
    PROVE  x <= y
  OBVIOUS

(* A cost that is no more than at the price x, with d more at x. *)
LEMMA CheapBefore ==
    ASSUME NEW b \in Nat, NEW d \in Nat, NEW x \in Int, NEW y \in Int, NEW c \in Int, c <= b * x, x <= y
    PROVE  c + d * x <= (b + d) * y
  <1>1. (b + d) * x <= (b + d) * y
    BY ProductGrows
  <1>2. (b + d) * x = b * x + d * x /\ b * x \in Int /\ d * x \in Int /\ (b + d) * y \in Int
    BY WholeProducts
  <1> QED  BY <1>1, <1>2

(* A cost that rises by a price of x or more, with d more at y. *)
LEMMA DearBehind ==
    ASSUME NEW a \in Int, NEW d \in Nat, NEW x \in Int, NEW y \in Int, NEW c \in Int, NEW b \in Int,
           a * x <= c - b, x <= y
    PROVE  (a + d) * x <= (c + d * y) - b
  <1>1. d * x <= d * y
    BY ProductGrows
  <1>2. (a + d) * x = a * x + d * x /\ a * x \in Int /\ d * x \in Int /\ d * y \in Int
    BY WholeProducts
  <1> QED  BY <1>1, <1>2

(* A cost below the price s for the first f, and above it for the rest. *)
LEMMA MeanRises ==
    ASSUME NEW x \in Int, NEW y \in Int, NEW s \in Int, NEW f \in Nat, NEW m \in Nat, f <= m,
           x <= f * s, (m - f) * s <= y - x
    PROVE  x * m <= y * f
  <1> DEFINE r == m - f
             z == y - x
  <1>1. r \in Nat /\ m = f + r /\ z \in Int /\ y = x + z
    OBVIOUS
  <1>2. r * s <= z
    OBVIOUS
  <1> HIDE DEF r, z
  <1>3. r * x <= r * (f * s) /\ f * (r * s) <= f * z
    BY <1>1, <1>2, WholeProducts, ProductGrows
  <1>4. r * (f * s) = f * (r * s)
    <2>1. r * (f * s) = (r * f) * s /\ f * (r * s) = (f * r) * s /\ r * f = f * r
      BY <1>1, WholeProducts
    <2> QED  BY <2>1
  <1>5. x * m = f * x + r * x /\ y * f = f * x + f * z
    <2>1. x * m = m * x /\ m * x = f * x + r * x
      BY <1>1, WholeProducts
    <2>2. y * f = x * f + z * f /\ x * f = f * x /\ z * f = f * z
      BY <1>1, WholeProducts
    <2> QED  BY <2>1, <2>2
  <1>6. r * x \in Int /\ f * z \in Int /\ f * x \in Int /\ f * (r * s) \in Int
    BY <1>1, WholeProducts
  <1> QED  BY <1>3, <1>4, <1>5, <1>6

(* Two quantities that end in one level. *)
LEMMA WithinLevel ==
    ASSUME NEW m \in Int, NEW f \in Int, NEW q \in Int, NEW p \in Int, NEW c \in Int
    PROVE  (c + (m - q) * p) - (c + (f - q) * p) = (m - f) * p
  <1>1. /\ (m - q) * p = m * p - q * p /\ (f - q) * p = f * p - q * p /\ (m - f) * p = m * p - f * p
        /\ m * p \in Int /\ q * p \in Int /\ f * p \in Int
    BY WholeProducts
  <1> QED  BY <1>1

(* And two that end in levels of prices p and s: there is b behind the level of the first. *)
LEMMA AcrossLevels ==
    ASSUME NEW m \in Int, NEW f \in Int, NEW p \in Int, NEW s \in Int, p <= s,
           NEW q \in Int, NEW w \in Int, NEW c \in Int,
           NEW r \in Int, NEW d \in Int, r <= m, (r - (q + w)) * p <= d - (c + w * p)
    PROVE  (m - f) * p <= (d + (m - r) * s) - (c + (f - q) * p)
  <1>1. (m - r) * p <= (m - r) * s
    <2>1. m - r \in Nat
      OBVIOUS
    <2> QED  BY <2>1, ProductGrows
  <1>2. /\ (m - r) * p = m * p - r * p /\ (f - q) * p = f * p - q * p /\ (m - f) * p = m * p - f * p
        /\ (r - (q + w)) * p = r * p - (q + w) * p /\ (q + w) * p = q * p + w * p
    BY WholeProducts
  <1>3. m * p \in Int /\ q * p \in Int /\ f * p \in Int /\ r * p \in Int /\ w * p \in Int /\ (m - r) * s \in Int
    BY WholeProducts
  <1> DEFINE mp == m * p
             qp == q * p
             fp == f * p
             rp == r * p
             wp == w * p
             ms == (m - r) * s
  <1>4. mp \in Int /\ qp \in Int /\ fp \in Int /\ rp \in Int /\ wp \in Int /\ ms \in Int
    BY <1>3
  <1>5. mp - rp <= ms /\ rp - (qp + wp) <= d - (c + wp)
    BY <1>1, <1>2
  <1>6. (m - f) * p = mp - fp /\ (f - q) * p = fp - qp
    BY <1>2
  <1> HIDE DEF mp, qp, fp, rp, wp, ms
  <1>7. mp - fp <= (d + ms) - (c + (fp - qp))
    BY <1>4, <1>5
  <1> QED  BY <1>6, <1>7 DEF ms
(* The running quantity Q and cost C of levels of w at prices p. *)
Running(n, Q, C, w, p) ==
    /\ n \in Nat /\ Q \in [0 .. n -> Int] /\ C \in [0 .. n -> Int]
    /\ w \in [1 .. n -> Nat] /\ p \in [1 .. n -> Int] /\ Q[0] = 0 /\ C[0] = 0
    /\ \A i \in 1 .. n : Q[i] = Q[i - 1] + w[i] /\ C[i] = C[i - 1] + w[i] * p[i]

Rises(n, Q, C, w, p) == Running(n, Q, C, w, p) /\ \A i \in 1 .. n - 1 : p[i] <= p[i + 1]

LEMMA RunsOn ==
    ASSUME NEW n, NEW Q, NEW C, NEW w, NEW p, Running(n, Q, C, w, p), NEW i \in 1 .. n
    PROVE  /\ i - 1 \in 0 .. n /\ i \in 0 .. n /\ Q[i - 1] \in Int /\ C[i - 1] \in Int /\ w[i] \in Nat /\ p[i] \in Int
           /\ Q[i] = Q[i - 1] + w[i] /\ C[i] = C[i - 1] + w[i] * p[i] /\ Q[i] \in Int /\ C[i] \in Int
  BY DEF Running

LEMMA RunCounts ==
    ASSUME NEW n, NEW Q, NEW C, NEW w, NEW p, Running(n, Q, C, w, p)
    PROVE  \A i \in 0 .. n : Q[i] \in Nat
  <1> DEFINE S == {i \in 0 .. n : ~(Q[i] \in Nat)}
  <1> SUFFICES ASSUME S # {} PROVE FALSE
    OBVIOUS
  <1>1. S \subseteq Nat
    OBVIOUS
  <1>2. PICK i \in S : \A y \in S : i <= y
    <2> HIDE DEF S
    <2> QED  BY <1>1, LeastOf
  <1>3. i \in 1 .. n /\ i - 1 \in 0 .. n /\ ~(i <= i - 1)
    BY <1>2 DEF Running
  <1>4. Q[i - 1] \in Nat
    BY <1>2, <1>3
  <1>5. Q[i] = Q[i - 1] + w[i] /\ w[i] \in Nat
    BY <1>3, RunsOn
  <1>6. Q[i] \in Nat
    BY <1>4, <1>5
  <1> QED  BY <1>2, <1>6

LEMMA RiseBelow ==
    ASSUME NEW n, NEW Q, NEW C, NEW w, NEW p, Rises(n, Q, C, w, p)
    PROVE  \A i \in 1 .. n : C[i - 1] <= Q[i - 1] * p[i]
  <1> DEFINE P(i) == C[i - 1] <= Q[i - 1] * p[i]
             S == {i \in 1 .. n : ~P(i)}
  <1> SUFFICES ASSUME S # {} PROVE FALSE
    OBVIOUS
  <1>1. S \subseteq Nat
    BY DEF Rises, Running
  <1>2. PICK i \in S : \A y \in S : i <= y
    <2> HIDE DEF S
    <2> QED  BY <1>1, LeastOf
  <1>3. i # 1
    <2>1. C[1 - 1] = 0 /\ Q[1 - 1] = 0
      BY DEF Rises, Running
    <2>2. i = 1 => p[i] \in Int
      BY <1>2, RunsOn DEF Rises
    <2>3. i = 1 => P(i)
      BY <2>1, <2>2
    <2> HIDE DEF P
    <2> QED  BY <1>2, <2>3
  <1> DEFINE h == i - 1
  <1>4. h \in 1 .. n /\ h \in 1 .. n - 1 /\ h + 1 = i /\ i \in 1 .. n /\ ~(i <= h)
    BY <1>2, <1>3 DEF Rises, Running
  <1> HIDE DEF h
  <1>5. P(h)
    <2> HIDE DEF P
    <2> QED  BY <1>2, <1>4
  <1>6. p[h] <= p[i] /\ p[i] \in Int
    BY <1>4, RunsOn DEF Rises, Running
  <1>7. /\ h - 1 \in 0 .. n /\ C[h - 1] \in Int /\ w[h] \in Nat /\ p[h] \in Int
        /\ Q[h] = Q[h - 1] + w[h] /\ C[h] = C[h - 1] + w[h] * p[h]
    BY <1>4, RunsOn DEF Rises
  <1>8. Q[h - 1] \in Nat
    BY <1>7, RunCounts DEF Rises
  <1>9. C[h - 1] + w[h] * p[h] <= (Q[h - 1] + w[h]) * p[i]
    BY <1>5, <1>6, <1>7, <1>8, CheapBefore
  <1>10. P(i)
    <2>1. i - 1 = h
      BY <1>4
    <2> QED  BY <1>7, <1>9, <2>1
  <1> HIDE DEF P
  <1> QED  BY <1>2, <1>10

LEMMA RiseBehind ==
    ASSUME NEW n, NEW Q, NEW C, NEW w, NEW p, Rises(n, Q, C, w, p), NEW j \in 1 .. n
    PROVE  \A i \in j .. n : p[j] <= p[i] /\ (Q[i] - Q[j]) * p[j] <= C[i] - C[j]
  <1> DEFINE P(i) == p[j] <= p[i] /\ (Q[i] - Q[j]) * p[j] <= C[i] - C[j]
             S == {i \in j .. n : ~P(i)}
  <1> SUFFICES ASSUME S # {} PROVE FALSE
    OBVIOUS
  <1>0. Q[j] \in Int /\ C[j] \in Int /\ p[j] \in Int
    BY RunsOn DEF Rises
  <1>1. S \subseteq Nat
    BY DEF Rises, Running
  <1>2. PICK i \in S : \A y \in S : i <= y
    <2> HIDE DEF S
    <2> QED  BY <1>1, LeastOf
  <1>3. i # j
    <2>1. (Q[j] - Q[j]) * p[j] = 0 /\ C[j] - C[j] = 0
      BY <1>0
    <2>2. P(j)
      BY <1>0, <2>1
    <2> HIDE DEF P
    <2> QED  BY <1>2, <2>2
  <1> DEFINE h == i - 1
  <1>4. h \in j .. n /\ h \in 1 .. n /\ h \in 1 .. n - 1 /\ h + 1 = i /\ i \in 1 .. n /\ ~(i <= h)
    BY <1>2, <1>3 DEF Rises, Running
  <1> HIDE DEF h
  <1>5. P(h)
    <2> HIDE DEF P
    <2> QED  BY <1>2, <1>4
  <1>6. p[h] <= p[i] /\ p[i] \in Int /\ p[h] \in Int /\ Q[h] \in Int /\ C[h] \in Int
    <2>1. p[h] <= p[h + 1]
      BY <1>4 DEF Rises, Running
    <2> QED  BY <1>4, <2>1, RunsOn DEF Rises
  <1>7. p[j] <= p[i]
    BY <1>0, <1>5, <1>6
  <1>8. w[i] \in Nat /\ Q[i] = Q[h] + w[i] /\ C[i] = C[h] + w[i] * p[i]
    <2>1. i - 1 = h
      BY <1>4
    <2> QED  BY <1>4, <2>1, RunsOn DEF Rises
  <1>9. Q[h] - Q[j] \in Int /\ (Q[h] - Q[j]) * p[j] <= C[h] - C[j]
    BY <1>0, <1>5, <1>6
  <1>10. ((Q[h] - Q[j]) + w[i]) * p[j] <= (C[h] + w[i] * p[i]) - C[j]
    BY <1>0, <1>6, <1>7, <1>8, <1>9, DearBehind
  <1>11. Q[i] - Q[j] = (Q[h] - Q[j]) + w[i]
    BY <1>0, <1>6, <1>8
  <1>12. P(i)
    <2> DEFINE e == C[h] + w[i] * p[i]
    <2>0. (Q[i] - Q[j]) * p[j] = ((Q[h] - Q[j]) + w[i]) * p[j]
      BY <1>11, Zenon
    <2>1. (Q[i] - Q[j]) * p[j] <= e - C[j]
      BY <1>10, <2>0, Zenon
    <2>2. C[i] = e
      BY <1>8
    <2> HIDE DEF e
    <2> QED  BY <1>7, <2>1, <2>2
  <1> HIDE DEF P
  <1> QED  BY <1>2, <1>12

(* The cost of a quantity that ends in level j. *)
Upto(Q, C, p, j, qty) == C[j - 1] + (qty - Q[j - 1]) * p[j]

EndsIn(n, Q, j, qty) == j \in 1 .. n /\ Q[j - 1] < qty /\ qty <= Q[j]

LEMMA AverageRises ==
    ASSUME NEW n, NEW Q, NEW C, NEW w, NEW p, Rises(n, Q, C, w, p),
           NEW few \in Nat, NEW many \in Nat, few <= many,
           NEW j, EndsIn(n, Q, j, few), NEW k, EndsIn(n, Q, k, many)
    PROVE  Upto(Q, C, p, j, few) * many <= Upto(Q, C, p, k, many) * few
  <1>1. j \in 1 .. n /\ k \in 1 .. n /\ Q[j - 1] < few /\ few <= Q[j] /\ Q[k - 1] < many /\ many <= Q[k] /\ n \in Nat
    BY DEF EndsIn, Rises, Running
  <1>2. /\ Q[j - 1] \in Int /\ C[j - 1] \in Int /\ w[j] \in Nat /\ p[j] \in Int
        /\ Q[j] = Q[j - 1] + w[j] /\ C[j] = C[j - 1] + w[j] * p[j] /\ Q[j] \in Int /\ C[j] \in Int
    BY <1>1, RunsOn DEF Rises
  <1>3. /\ k - 1 \in 0 .. n /\ Q[k - 1] \in Int /\ C[k - 1] \in Int /\ w[k] \in Nat /\ p[k] \in Int /\ Q[k] \in Int
    BY <1>1, RunsOn DEF Rises
  <1> DEFINE x == Upto(Q, C, p, j, few)
             y == Upto(Q, C, p, k, many)
  <1>4. x \in Int /\ y \in Int
    <2>1. (few - Q[j - 1]) * p[j] \in Int /\ (many - Q[k - 1]) * p[k] \in Int
      BY <1>2, <1>3, WholeProducts
    <2> QED  BY <1>2, <1>3, <2>1 DEF Upto
  <1>5. x <= few * p[j]
    <2>1. C[j - 1] <= Q[j - 1] * p[j]
      BY <1>1, RiseBelow
    <2>2. (few - Q[j - 1]) * p[j] = few * p[j] - Q[j - 1] * p[j] /\ few * p[j] \in Int /\ Q[j - 1] * p[j] \in Int
      BY <1>2, WholeProducts
    <2> QED  BY <1>2, <2>1, <2>2 DEF Upto
  <1>6. ~(k < j)
    <2> SUFFICES ASSUME k < j PROVE FALSE
      OBVIOUS
    <2>1. j - 1 \in k .. n
      BY <1>1
    <2>2. Q[k] <= Q[j - 1]
      <3> DEFINE S == {i \in k .. n : ~(Q[k] <= Q[i])}
      <3> SUFFICES ASSUME S # {} PROVE FALSE
        BY <2>1
      <3>1. S \subseteq Nat
        BY <1>1
      <3>2. PICK i \in S : \A z \in S : i <= z
        <4> HIDE DEF S
        <4> QED  BY <3>1, LeastOf
      <3>3. i # k /\ i \in 1 .. n /\ i - 1 \in k .. n /\ ~(i <= i - 1)
        BY <1>1, <1>3, <3>2
      <3>4. Q[k] <= Q[i - 1]
        BY <3>2, <3>3
      <3>5. Q[i] = Q[i - 1] + w[i] /\ w[i] \in Nat /\ Q[i - 1] \in Int
        BY <3>3, RunsOn DEF Rises
      <3> QED  BY <1>3, <3>2, <3>4, <3>5
    <2> QED  BY <1>1, <1>2, <1>3, <2>2
  <1>7. (many - few) * p[j] <= y - x
    <2>1. CASE k = j
      <3>1. y - x = (many - few) * p[j]
        BY <1>2, <2>1, WithinLevel DEF Upto
      <3>2. (many - few) * p[j] \in Int
        BY <1>2, WholeProducts
      <3> HIDE DEF x, y
      <3> QED  BY <3>1, <3>2
    <2>2. CASE k # j
      <3>1. k - 1 \in j .. n /\ k \in j .. n
        BY <1>1, <1>6, <2>2
      <3>2. (Q[k - 1] - Q[j]) * p[j] <= C[k - 1] - C[j] /\ p[j] <= p[k]
        BY <1>1, <3>1, RiseBehind
      <3>3. (Q[k - 1] - (Q[j - 1] + w[j])) * p[j] <= C[k - 1] - (C[j - 1] + w[j] * p[j])
        BY <1>2, <3>2
      <3>4. Q[k - 1] <= many /\ w[j] \in Int
        BY <1>1, <1>2, <1>3
      <3>5. (many - few) * p[j] <= (C[k - 1] + (many - Q[k - 1]) * p[k]) - (C[j - 1] + (few - Q[j - 1]) * p[j])
        <4>1. many \in Int /\ few \in Int /\ p[j] <= p[k]
          BY <3>2
        <4> QED  BY <1>2, <1>3, <3>3, <3>4, <4>1, AcrossLevels, Zenon
      <3> QED  BY <3>5 DEF Upto
    <2> QED  BY <2>1, <2>2
  <1> HIDE DEF x, y
  <1>8. x * many <= y * few
    BY <1>2, <1>4, <1>5, <1>7, MeanRises
  <1> QED  BY <1>8 DEF x, y

Falls(n, Q, C, w, p) == Running(n, Q, C, w, p) /\ \A i \in 1 .. n - 1 : p[i] >= p[i + 1]

(* Debts at falling prices are costs at rising ones. *)
LEMMA AverageFalls ==
    ASSUME NEW n, NEW Q, NEW C, NEW w, NEW p, Falls(n, Q, C, w, p),
           NEW few \in Nat, NEW many \in Nat, few <= many,
           NEW j, EndsIn(n, Q, j, few), NEW k, EndsIn(n, Q, k, many)
    PROVE  Upto(Q, C, p, k, many) * few <= Upto(Q, C, p, j, few) * many
  <1> DEFINE D == [i \in 0 .. n |-> - C[i]]
             s == [i \in 1 .. n |-> - p[i]]
  <1>1. Running(n, Q, D, w, s)
    <2>0. n \in Nat /\ C \in [0 .. n -> Int] /\ p \in [1 .. n -> Int] /\ C[0] = 0
      BY DEF Falls, Running
    <2>1. D \in [0 .. n -> Int] /\ s \in [1 .. n -> Int] /\ D[0] = 0
      <3>1. 0 \in 0 .. n
        BY <2>0
      <3>2. \A x \in Int : - x \in Int
        OBVIOUS
      <3>3. D[0] = - C[0]
        BY <3>1
      <3>4. \A x \in Int : - x = 0 - x
        OBVIOUS
      <3>5. D[0] = 0
        <4>0. C[0] \in Int
          BY <2>0, <3>1
        <4>1. - C[0] = 0 - C[0]
          BY <3>4, <4>0, Zenon
        <4>2. 0 - C[0] = 0
          BY <2>0
        <4> QED  BY <3>3, <4>1, <4>2, Zenon
      <3>6. D \in [0 .. n -> Int]
        BY <2>0, <3>2
      <3>7. s \in [1 .. n -> Int]
        BY <2>0, <3>2
      <3> QED  BY <3>5, <3>6, <3>7
    <2>2. ASSUME NEW i \in 1 .. n PROVE Q[i] = Q[i - 1] + w[i] /\ D[i] = D[i - 1] + w[i] * s[i]
      <3>1. /\ i - 1 \in 0 .. n /\ i \in 0 .. n /\ w[i] \in Nat /\ p[i] \in Int /\ C[i - 1] \in Int
            /\ Q[i] = Q[i - 1] + w[i] /\ C[i] = C[i - 1] + w[i] * p[i]
        BY RunsOn DEF Falls
      <3>2. w[i] * (- p[i]) = - (w[i] * p[i])
        <4>1. \A a, b \in Int : a * (- b) = - (a * b)
          OBVIOUS
        <4> QED  BY <3>1, <4>1
      <3>3. w[i] * p[i] \in Int
        BY <3>1, WholeProducts
      <3>4. - (C[i - 1] + w[i] * p[i]) = (- C[i - 1]) + (- (w[i] * p[i]))
        BY <3>1, <3>3
      <3>5. D[i] = - C[i] /\ D[i - 1] = - C[i - 1] /\ s[i] = - p[i]
        BY <3>1
      <3> HIDE DEF D, s
      <3> QED  BY <3>1, <3>2, <3>4, <3>5, Zenon
    <2> HIDE DEF D, s
    <2> QED  BY <2>1, <2>2 DEF Falls, Running
  <1>2. ASSUME NEW i \in 1 .. n - 1 PROVE s[i] <= s[i + 1]
    <2>1. n \in Nat /\ p \in [1 .. n -> Int] /\ p[i] >= p[i + 1]
      BY DEF Falls, Running
    <2>2. i \in 1 .. n /\ i + 1 \in 1 .. n /\ p[i] \in Int /\ p[i + 1] \in Int
      BY <2>1
    <2> QED  BY <2>1, <2>2
  <1>3. ASSUME NEW q \in Nat, NEW i, EndsIn(n, Q, i, q)
        PROVE  Upto(Q, D, s, i, q) = - Upto(Q, C, p, i, q) /\ Upto(Q, C, p, i, q) \in Int
    <2>1. i \in 1 .. n /\ i - 1 \in 0 .. n /\ Q[i - 1] \in Int /\ C[i - 1] \in Int /\ p[i] \in Int
      BY <1>3, RunsOn DEF Falls, EndsIn
    <2>2. D[i - 1] = - C[i - 1] /\ s[i] = - p[i]
      BY <2>1
    <2>3. q - Q[i - 1] \in Int
      BY <2>1
    <2>4. (q - Q[i - 1]) * (- p[i]) = - ((q - Q[i - 1]) * p[i]) /\ (q - Q[i - 1]) * p[i] \in Int
      <3>1. \A a, b \in Int : a * (- b) = - (a * b)
        OBVIOUS
      <3> QED  BY <2>1, <2>3, <3>1, WholeProducts
    <2> DEFINE e == (q - Q[i - 1]) * p[i]
    <2>5. Upto(Q, C, p, i, q) = C[i - 1] + e /\ Upto(Q, D, s, i, q) = (- C[i - 1]) + (- e)
      BY <2>2, <2>4, Zenon DEF Upto
    <2> HIDE DEF e, D, s
    <2>6. e \in Int
      BY <2>4 DEF e
    <2> QED  BY <2>1, <2>5, <2>6
  <1>4. Upto(Q, D, s, j, few) * many <= Upto(Q, D, s, k, many) * few
    <2> HIDE DEF D, s
    <2>1. Rises(n, Q, D, w, s)
      BY <1>1, <1>2 DEF Rises
    <2> QED  BY <2>1, AverageRises
  <1> DEFINE x == Upto(Q, C, p, j, few)
             y == Upto(Q, C, p, k, many)
  <1>5. x \in Int /\ y \in Int /\ (- x) * many <= (- y) * few
    BY <1>3, <1>4
  <1> HIDE DEF x, y
  <1>6. y * few <= x * many
    <2>1. \A a, b \in Int : (- a) * b = - (a * b) /\ a * b \in Int
      OBVIOUS
    <2>2. (- x) * many = - (x * many) /\ (- y) * few = - (y * few) /\ x * many \in Int /\ y * few \in Int
      BY <1>5, <2>1
    <2> QED  BY <1>5, <2>2
  <1> QED  BY <1>6 DEF x, y

(* The running totals of the code. *)

Adds(f, a, n) == f = [i \in 0 .. n |-> IF i = 0 THEN 0 ELSE f[i - 1] + a[i]]

LEMMA SumsExist ==
    ASSUME NEW n \in Nat, NEW a
    PROVE  \E f : Adds(f, a, n)
  <1> DEFINE S == {m \in Nat : ~ \E f : Adds(f, a, m)}
  <1> SUFFICES ASSUME n \in S PROVE FALSE
    OBVIOUS
  <1>1. PICK m \in S : \A y \in S : m <= y
    BY LeastOf, S \subseteq Nat, S # {}
  <1>2. m # 0
    <2>1. Adds([i \in 0 .. 0 |-> 0], a, 0)
      BY DEF Adds
    <2> QED  BY <2>1, <1>1
  <1>3. PICK g : Adds(g, a, m - 1)
    <2>1. m - 1 \in Nat /\ ~(m <= m - 1)
      BY <1>2
    <2> QED  BY <2>1, <1>1
  <1> DEFINE h == [i \in 0 .. m |-> IF i = m THEN g[m - 1] + a[m] ELSE g[i]]
  <1>4. ASSUME NEW i \in 0 .. m PROVE h[i] = IF i = 0 THEN 0 ELSE h[i - 1] + a[i]
    <2>1. CASE i = m
      <3>1. h[i - 1] = g[m - 1]
        BY <2>1, <1>2
      <3> QED  BY <3>1, <2>1, <1>2
    <2>2. CASE i # m
      <3>1. i \in 0 .. m - 1
        BY <2>2
      <3>2. g[i] = IF i = 0 THEN 0 ELSE g[i - 1] + a[i]
        BY <3>1, <1>3 DEF Adds
      <3>3. h[i] = g[i] /\ (i # 0 => h[i - 1] = g[i - 1])
        BY <3>1
      <3> HIDE DEF h
      <3> QED  BY <3>2, <3>3
    <2> QED  BY <2>1, <2>2
  <1>5. h = [i \in 0 .. m |-> h[i]]
    OBVIOUS
  <1> HIDE DEF h
  <1>6. [i \in 0 .. m |-> h[i]] = [i \in 0 .. m |-> IF i = 0 THEN 0 ELSE h[i - 1] + a[i]]
    BY <1>4, Zenon
  <1>7. Adds(h, a, m)
    BY <1>5, <1>6 DEF Adds
  <1> QED  BY <1>1, <1>7

LEMMA SumsAre ==
    ASSUME NEW n \in Nat, NEW a \in [1 .. n -> Int]
    PROVE  /\ Books!Sums(a) \in [0 .. n -> Int] /\ Books!Sums(a)[0] = 0
           /\ \A i \in 1 .. n : Books!Sums(a)[i] = Books!Sums(a)[i - 1] + a[i]
  <1>1. Len(a) = n
    OBVIOUS
  <1> DEFINE f == CHOOSE f : f = [i \in 0 .. n |-> IF i = 0 THEN 0 ELSE f[i - 1] + a[i]]
  <1>2. Books!Sums(a) = f
    BY <1>1, Zenon DEF Books!Sums
  <1>3. \E g : g = [i \in 0 .. n |-> IF i = 0 THEN 0 ELSE g[i - 1] + a[i]]
    BY SumsExist DEF Adds
  <1>4. f = [i \in 0 .. n |-> IF i = 0 THEN 0 ELSE f[i - 1] + a[i]]
    BY <1>3, Zenon
  <1> HIDE DEF f
  <1>5. f[0] = 0 /\ DOMAIN f = 0 .. n /\ \A i \in 1 .. n : f[i] = f[i - 1] + a[i]
    BY <1>4
  <1>6. \A i \in 0 .. n : f[i] \in Int
    <2> DEFINE S == {i \in 0 .. n : ~(f[i] \in Int)}
    <2> SUFFICES ASSUME S # {} PROVE FALSE
      OBVIOUS
    <2>1. S \subseteq Nat
      OBVIOUS
    <2>2. PICK i \in S : \A y \in S : i <= y
      <3> HIDE DEF S
      <3> QED  BY <2>1, LeastOf
    <2>3. i \in 1 .. n /\ i - 1 \in 0 .. n /\ ~(i <= i - 1)
      BY <1>5, <2>2
    <2>4. f[i - 1] \in Int
      BY <2>2, <2>3
    <2>5. a[i] \in Int /\ f[i] = f[i - 1] + a[i]
      BY <1>5, <2>3
    <2> QED  BY <2>2, <2>4, <2>5
  <1>7. f = [i \in 0 .. n |-> f[i]]
    BY <1>4
  <1>8. f \in [0 .. n -> Int]
    BY <1>6, <1>7
  <1> QED  BY <1>2, <1>5, <1>8

Level == [price : Nat, qty : Nat]

Sizes(levels) == [i \in DOMAIN levels |-> levels[i].qty]

Quotes(levels) == [i \in DOMAIN levels |-> levels[i].price]

(* Between what and what a side runs. *)
Runs(levels) ==
    Running(Len(levels), Books!Totals(levels).qty, Books!Totals(levels).cost, Sizes(levels), Quotes(levels))

LEMMA SideRuns ==
    ASSUME NEW levels \in Seq(Level)
    PROVE  /\ Runs(levels) /\ Len(levels) \in Nat /\ DOMAIN levels = 1 .. Len(levels)
           /\ \A i \in 1 .. Len(levels) : Sizes(levels)[i] = levels[i].qty /\ Quotes(levels)[i] = levels[i].price
  <1> DEFINE n == Len(levels)
             w == Sizes(levels)
             p == Quotes(levels)
             c == [i \in DOMAIN levels |-> levels[i].qty * levels[i].price]
  <1>1. n \in Nat /\ DOMAIN levels = 1 .. n /\ \A i \in 1 .. n : levels[i] \in Level
    OBVIOUS
  <1>2. \A i \in 1 .. n : levels[i].qty \in Nat /\ levels[i].price \in Nat
    BY <1>1 DEF Level
  <1>3. /\ w \in [1 .. n -> Nat] /\ p \in [1 .. n -> Int] /\ w \in [1 .. n -> Int]
        /\ \A i \in 1 .. n : w[i] = levels[i].qty /\ p[i] = levels[i].price
    BY <1>1, <1>2 DEF Sizes, Quotes
  <1>4. c \in [1 .. n -> Int] /\ \A i \in 1 .. n : c[i] = w[i] * p[i]
    <2>1. ASSUME NEW i \in 1 .. n PROVE levels[i].qty * levels[i].price \in Int
      BY <1>2, WholeProducts
    <2>2. \A i \in 1 .. n : c[i] = levels[i].qty * levels[i].price
      BY <1>1
    <2> HIDE DEF w, p
    <2>3. c \in [1 .. n -> Int]
      BY <1>1, <2>1
    <2>4. \A i \in 1 .. n : c[i] = w[i] * p[i]
      BY <1>3, <2>2
    <2> QED  BY <2>3, <2>4
  <1>5. Books!Totals(levels).qty = Books!Sums(w) /\ Books!Totals(levels).cost = Books!Sums(c)
    BY DEF Books!Totals, Sizes
  <1> HIDE DEF w, p, c
  <1>6. /\ Books!Sums(w) \in [0 .. n -> Int] /\ Books!Sums(w)[0] = 0
        /\ \A i \in 1 .. n : Books!Sums(w)[i] = Books!Sums(w)[i - 1] + w[i]
    BY <1>1, <1>3, SumsAre
  <1>7. /\ Books!Sums(c) \in [0 .. n -> Int] /\ Books!Sums(c)[0] = 0
        /\ \A i \in 1 .. n : Books!Sums(c)[i] = Books!Sums(c)[i - 1] + w[i] * p[i]
    <2>1. /\ Books!Sums(c) \in [0 .. n -> Int] /\ Books!Sums(c)[0] = 0
          /\ \A i \in 1 .. n : Books!Sums(c)[i] = Books!Sums(c)[i - 1] + c[i]
      BY <1>1, <1>4, SumsAre
    <2> QED  BY <1>4, <2>1
  <1> HIDE DEF n
  <1>8. Running(n, Books!Totals(levels).qty, Books!Totals(levels).cost, w, p)
    BY <1>1, <1>3, <1>5, <1>6, <1>7 DEF Running
  <1> QED  BY <1>1, <1>3, <1>8 DEF Runs, n, w, p
LEMMA QuantitiesRise ==
    ASSUME NEW n, NEW Q, NEW C, NEW w, NEW p, Running(n, Q, C, w, p), NEW j \in 0 .. n
    PROVE  \A i \in j .. n : Q[j] <= Q[i]
  <1> DEFINE S == {i \in j .. n : ~(Q[j] <= Q[i])}
  <1> SUFFICES ASSUME S # {} PROVE FALSE
    OBVIOUS
  <1>0. n \in Nat /\ \A i \in 0 .. n : Q[i] \in Nat
    <2>1. \A i \in 0 .. n : Q[i] \in Nat
      BY RunCounts, Zenon
    <2>2. n \in Nat
      BY DEF Running
    <2> QED  BY <2>1, <2>2
  <1>1. S \subseteq Nat
    BY <1>0
  <1>2. PICK i \in S : \A y \in S : i <= y
    <2> HIDE DEF S
    <2> QED  BY <1>1, LeastOf
  <1>3. i \in j .. n /\ ~(Q[j] <= Q[i])
    BY <1>2
  <1>4. i # j
    BY <1>0, <1>3
  <1>5. i \in 1 .. n /\ i - 1 \in j .. n /\ i - 1 \in 0 .. n /\ ~(i <= i - 1)
    BY <1>0, <1>3, <1>4
  <1>6. Q[j] <= Q[i - 1]
    BY <1>2, <1>5
  <1>7. Q[i] = Q[i - 1] + w[i] /\ w[i] \in Nat
    BY <1>5, RunsOn
  <1>8. Q[j] \in Nat /\ Q[i - 1] \in Nat
    BY <1>0, <1>5
  <1> QED  BY <1>3, <1>6, <1>7, <1>8

LEMMA MinIs ==
    ASSUME NEW S, S \subseteq Nat, S # {}
    PROVE  Books!Min(S) \in S /\ \A y \in S : Books!Min(S) <= y
  <1>1. \E x \in S : \A y \in S : x <= y
    BY LeastOf
  <1> QED  BY <1>1 DEF Books!Min

LEMMA CostIs ==
    ASSUME NEW levels \in Seq(Level), NEW q \in Nat \ {0}, q <= Books!Depth(levels)
    PROVE  \E m \in 1 .. Len(levels) :
               /\ EndsIn(Len(levels), Books!Totals(levels).qty, m, q)
               /\ Books!CostOf(levels, q) = Upto(Books!Totals(levels).qty, Books!Totals(levels).cost, Quotes(levels), m, q)
  <1> DEFINE n == Len(levels)
             Q == Books!Totals(levels).qty
             C == Books!Totals(levels).cost
             w == Sizes(levels)
             p == Quotes(levels)
             S == {i \in 0 .. n : Q[i] >= q}
             m == Books!Min(S)
  <1>1. Running(n, Q, C, w, p) /\ n \in Nat /\ Q[n] >= q
    BY SideRuns DEF Runs, Books!Depth
  <1>2. \A i \in 1 .. n : w[i] = levels[i].qty /\ p[i] = levels[i].price
    BY SideRuns
  <1>3. Books!CostOf(levels, q) = IF Q[m] = q THEN C[m] ELSE C[m - 1] + (q - Q[m - 1]) * levels[m].price
    BY DEF Books!CostOf
  <1> HIDE DEF Q, C, w, p, n
  <1>4. S \subseteq Nat /\ n \in S
    BY <1>1
  <1>5. m \in S /\ \A y \in S : m <= y
    <2> HIDE DEF S
    <2> QED  BY <1>4, MinIs
  <1> HIDE DEF m
  <1>6. m \in 0 .. n /\ Q[m] >= q
    BY <1>5
  <1>7. Q[0] = 0
    BY <1>1 DEF Running
  <1>8. m \in 1 .. n
    BY <1>1, <1>6, <1>7
  <1>9. /\ m - 1 \in 0 .. n /\ Q[m - 1] \in Int /\ C[m - 1] \in Int /\ w[m] \in Nat /\ p[m] \in Int
        /\ Q[m] = Q[m - 1] + w[m] /\ C[m] = C[m - 1] + w[m] * p[m] /\ Q[m] \in Int
    BY <1>1, <1>8, RunsOn
  <1>10. Q[m - 1] < q
    <2>1. m - 1 \notin S
      <3> HIDE DEF S
      <3>1. ~(m <= m - 1)
        BY <1>8
      <3> QED  BY <1>5, <3>1
    <2> QED  BY <1>9, <2>1
  <1>11. EndsIn(n, Q, m, q)
    BY <1>6, <1>8, <1>9, <1>10 DEF EndsIn
  <1>12. Books!CostOf(levels, q) = Upto(Q, C, p, m, q)
    <2>1. CASE Q[m] = q
      <3>1. w[m] = q - Q[m - 1]
        BY <1>9, <2>1
      <3> QED  BY <1>3, <1>9, <2>1, <3>1, Zenon DEF Upto
    <2>2. CASE Q[m] # q
      <3> QED  BY <1>2, <1>3, <1>8, <2>2, Zenon DEF Upto
    <2> QED  BY <2>1, <2>2
  <1> QED  BY <1>8, <1>11, <1>12 DEF n, Q, C, p

LEMMA UptoCounts ==
    ASSUME NEW n, NEW Q, NEW C, NEW w, NEW p, Running(n, Q, C, w, p), NEW q \in Nat, NEW j, EndsIn(n, Q, j, q)
    PROVE  Upto(Q, C, p, j, q) \in Int
  <1>1. j \in 1 .. n
    BY DEF EndsIn
  <1>2. Q[j - 1] \in Int /\ C[j - 1] \in Int /\ p[j] \in Int
    BY <1>1, RunsOn
  <1>3. (q - Q[j - 1]) * p[j] \in Int
    BY <1>2, WholeProducts
  <1> QED  BY <1>2, <1>3 DEF Upto

LEMMA LesserOf ==
    ASSUME NEW a \in Nat, NEW b \in Nat
    PROVE  /\ Books!Min({a, b}) \in Nat
           /\ a <= b => Books!Min({a, b}) = a
           /\ b <= a => Books!Min({a, b}) = b
  <1> DEFINE S == {a, b}
  <1>1. S \subseteq Nat /\ S # {}
    OBVIOUS
  <1>2. Books!Min(S) \in S /\ \A y \in S : Books!Min(S) <= y
    <2> HIDE DEF S
    <2> QED  BY <1>1, MinIs
  <1>3. (Books!Min(S) = a \/ Books!Min(S) = b) /\ Books!Min(S) <= a /\ Books!Min(S) <= b
    BY <1>2
  <1> QED  BY <1>3

LEMMA EndsOnce ==
    ASSUME NEW n, NEW Q, NEW C, NEW w, NEW p, Running(n, Q, C, w, p),
           NEW j, NEW k, NEW q \in Nat, EndsIn(n, Q, j, q), EndsIn(n, Q, k, q)
    PROVE  j = k
  <1>1. /\ j \in 1 .. n /\ k \in 1 .. n /\ n \in Nat
        /\ Q[j - 1] < q /\ q <= Q[j] /\ Q[k - 1] < q /\ q <= Q[k]
    BY DEF EndsIn, Running
  <1>2. \A i \in 0 .. n : Q[i] \in Nat
    BY RunCounts
  <1>3. ASSUME NEW a \in 1 .. n, NEW b \in 1 .. n, a < b, q <= Q[a], Q[b - 1] < q PROVE FALSE
    <2>1. a \in 0 .. n /\ b - 1 \in a .. n /\ b - 1 \in 0 .. n
      BY <1>1, <1>3
    <2>2. Q[a] <= Q[b - 1] /\ Q[a] \in Nat /\ Q[b - 1] \in Nat
      BY <1>2, <2>1, QuantitiesRise
    <2> QED  BY <1>3, <2>2
  <1> QED  BY <1>1, <1>3

(* One step of the walk, and the whole of it. *)
Taken(at, level) ==
    LET part == Books!Min({at.left, level.qty})
    IN  [left |-> at.left - part, cost |-> at.cost + part * level.price]

LEMMA TakenFrom ==
    ASSUME NEW at, NEW level, NEW a, NEW c, NEW size, NEW price, NEW part,
           at = [left |-> a, cost |-> c], size = level.qty, price = level.price, Books!Min({a, size}) = part
    PROVE  Taken(at, level) = [left |-> a - part, cost |-> c + part * price]
  <1>1. at.left = a /\ at.cost = c
    OBVIOUS
  <1>2. Books!Min({at.left, level.qty}) = part
    BY <1>1, Zenon
  <1> QED  BY <1>1, <1>2, Zenon DEF Taken

LEMMA TakenNothing ==
    ASSUME NEW at, NEW level, NEW c \in Int, at = [left |-> 0, cost |-> c], level.price \in Int, Books!Min({0, level.qty}) = 0
    PROVE  Taken(at, level) = at
  <1>1. at.left = 0 /\ at.cost = c
    OBVIOUS
  <1>2. Books!Min({at.left, level.qty}) = 0
    BY <1>1, Zenon
  <1>3. Taken(at, level) = [left |-> at.left - 0, cost |-> at.cost + 0 * level.price]
    BY <1>2, Zenon DEF Taken
  <1>4. at.left - 0 = 0 /\ at.cost + 0 * level.price = c
    BY <1>1
  <1> QED  BY <1>3, <1>4, Zenon

Walks(f, levels, qty) ==
    f = [i \in 0 .. Len(levels) |->
            IF i = 0 THEN [left |-> qty, cost |-> 0] ELSE Taken(f[i - 1], levels[i])]

(* core/roi.py, _Totals.avg_price: within the visible depth the running totals
   price a quantity as walk does level by level, and walk finds too thin exactly
   the books the totals do, for any side and quantity. *)
THEOREM TotalsWalk ==
    ASSUME NEW levels \in Seq(Level), NEW q \in Nat \ {0}
    PROVE  Books!Walk(levels, q) = IF q <= Books!Depth(levels) THEN Books!CostOf(levels, q) ELSE None
  <1> DEFINE n == Len(levels)
             Q == Books!Totals(levels).qty
             C == Books!Totals(levels).cost
             w == Sizes(levels)
             p == Quotes(levels)
             cost == Books!CostOf(levels, q)
             g == [i \in 0 .. n |-> IF q > Q[i] THEN [left |-> q - Q[i], cost |-> C[i]] ELSE [left |-> 0, cost |-> cost]]
             W == CHOOSE f : Walks(f, levels, q)
  <1>1. Running(n, Q, C, w, p) /\ n \in Nat /\ Books!Depth(levels) = Q[n]
    BY SideRuns DEF Runs, Books!Depth
  <1>2. \A i \in 1 .. n : w[i] = levels[i].qty /\ p[i] = levels[i].price
    BY SideRuns
  <1>3. q <= Q[n] => \E m : EndsIn(n, Q, m, q) /\ cost = Upto(Q, C, p, m, q)
    BY <1>1, CostIs
  <1>4. Books!Walk(levels, q) = IF W[n].left = 0 THEN W[n].cost ELSE None
    BY Zenon DEF Books!Walk, Walks, Taken
  <1> HIDE DEF Q, C, w, p, n, cost
  <1>5. \A i \in 0 .. n : Q[i] \in Nat
    BY <1>1, RunCounts
  <1>6. ASSUME NEW i \in 1 .. n PROVE g[i] = Taken(g[i - 1], levels[i])
    <2>1. /\ i - 1 \in 0 .. n /\ i \in 0 .. n /\ Q[i - 1] \in Nat /\ C[i - 1] \in Int /\ w[i] \in Nat /\ p[i] \in Int
          /\ Q[i] = Q[i - 1] + w[i] /\ C[i] = C[i - 1] + w[i] * p[i] /\ Q[i] \in Nat
      BY <1>1, <1>5, RunsOn
    <2>2. w[i] = levels[i].qty /\ p[i] = levels[i].price
      BY <1>2
    <2>3. /\ g[i] = IF q > Q[i] THEN [left |-> q - Q[i], cost |-> C[i]] ELSE [left |-> 0, cost |-> cost]
          /\ g[i - 1] = IF q > Q[i - 1] THEN [left |-> q - Q[i - 1], cost |-> C[i - 1]] ELSE [left |-> 0, cost |-> cost]
      BY <2>1
    <2> HIDE DEF g
    <2>4. CASE q > Q[i]
      <3>1. q > Q[i - 1] /\ q - Q[i - 1] \in Nat /\ w[i] <= q - Q[i - 1] /\ (q - Q[i - 1]) - w[i] = q - Q[i]
        BY <2>1, <2>4, SMTT(30)
      <3>2. Books!Min({q - Q[i - 1], w[i]}) = w[i]
        BY <2>1, <3>1, LesserOf
      <3>3. g[i - 1] = [left |-> q - Q[i - 1], cost |-> C[i - 1]] /\ g[i] = [left |-> q - Q[i], cost |-> C[i]]
        BY <2>3, <2>4, <3>1
      <3>4. Taken(g[i - 1], levels[i]) = [left |-> (q - Q[i - 1]) - w[i], cost |-> C[i - 1] + w[i] * p[i]]
        BY <2>2, <3>2, <3>3, TakenFrom
      <3> QED  BY <2>1, <3>1, <3>3, <3>4, Zenon
    <2>5. CASE q > Q[i - 1] /\ ~(q > Q[i])
      <3>1. q - Q[i - 1] \in Nat /\ q - Q[i - 1] <= w[i] /\ (q - Q[i - 1]) - (q - Q[i - 1]) = 0
        BY <2>1, <2>5
      <3>2. Books!Min({q - Q[i - 1], w[i]}) = q - Q[i - 1]
        BY <2>1, <3>1, LesserOf
      <3>3. g[i - 1] = [left |-> q - Q[i - 1], cost |-> C[i - 1]] /\ g[i] = [left |-> 0, cost |-> cost]
        BY <2>3, <2>5
      <3>4. Taken(g[i - 1], levels[i])
            = [left |-> (q - Q[i - 1]) - (q - Q[i - 1]), cost |-> C[i - 1] + (q - Q[i - 1]) * p[i]]
        BY <2>2, <3>2, <3>3, TakenFrom
      <3>5. EndsIn(n, Q, i, q)
        BY <2>1, <2>5 DEF EndsIn
      <3>6. q <= Q[n]
        <4>1. n \in i .. n /\ n \in 0 .. n
          BY <1>1
        <4>2. Q[i] <= Q[n] /\ Q[n] \in Nat
          BY <1>1, <1>5, <2>1, <4>1, QuantitiesRise
        <4> QED  BY <2>1, <2>5, <4>2
      <3>7. cost = Upto(Q, C, p, i, q)
        <4>1. PICK m : EndsIn(n, Q, m, q) /\ cost = Upto(Q, C, p, m, q)
          BY <1>3, <3>6
        <4>2. m = i
          BY <1>1, <3>5, <4>1, EndsOnce
        <4> QED  BY <4>1, <4>2
      <3> QED  BY <3>1, <3>3, <3>4, <3>7, Zenon DEF Upto
    <2>6. CASE ~(q > Q[i - 1])
      <3>1. ~(q > Q[i]) /\ 0 <= w[i] /\ 0 - 0 = 0
        BY <2>1, <2>6
      <3>2. Books!Min({0, w[i]}) = 0
        <4>1. 0 \in Nat
          OBVIOUS
        <4> QED  BY <2>1, <3>1, <4>1, LesserOf, Zenon
      <3>3. g[i - 1] = [left |-> 0, cost |-> cost] /\ g[i] = [left |-> 0, cost |-> cost]
        BY <2>3, <2>6, <3>1
      <3>5. cost \in Int
        <4>1. n \in (i - 1) .. n /\ n \in 0 .. n
          BY <1>1, <2>1
        <4>2. Q[i - 1] <= Q[n] /\ Q[n] \in Nat
          BY <1>1, <1>5, <2>1, <4>1, QuantitiesRise
        <4>3. PICK m : EndsIn(n, Q, m, q) /\ cost = Upto(Q, C, p, m, q)
          BY <1>3, <2>1, <2>6, <4>2
        <4> QED  BY <1>1, <4>3, UptoCounts
      <3>6. Taken(g[i - 1], levels[i]) = g[i - 1]
        <4>1. levels[i].price \in Int /\ Books!Min({0, levels[i].qty}) = 0
          BY <2>1, <2>2, <3>2, Zenon
        <4> QED  BY <3>3, <3>5, <4>1, TakenNothing
      <3> QED  BY <3>3, <3>6, Zenon
    <2> QED  BY <2>4, <2>5, <2>6
  <1>7. g[0] = [left |-> q, cost |-> 0]
    <2>1. Q[0] = 0 /\ C[0] = 0 /\ 0 \in 0 .. n /\ q > 0 /\ q - 0 = q
      BY <1>1 DEF Running
    <2>2. g[0] = IF q > Q[0] THEN [left |-> q - Q[0], cost |-> C[0]] ELSE [left |-> 0, cost |-> cost]
      BY <2>1
    <2> HIDE DEF g
    <2> QED  BY <2>1, <2>2, Zenon
  <1>8. g = [i \in 0 .. n |-> g[i]]
    OBVIOUS
  <1>9. g[n] = IF q > Q[n] THEN [left |-> q - Q[n], cost |-> C[n]] ELSE [left |-> 0, cost |-> cost]
    <2>1. n \in 0 .. n
      BY <1>1
    <2> QED  BY <2>1
  <1> HIDE DEF g
  <1>10. Walks(g, levels, q)
    <2>1. ASSUME NEW i \in 0 .. n
          PROVE  g[i] = IF i = 0 THEN [left |-> q, cost |-> 0] ELSE Taken(g[i - 1], levels[i])
      <3>1. CASE i = 0
        BY <1>7, <3>1
      <3>2. CASE i # 0
        <4>1. i \in 1 .. n
          BY <1>1, <3>2
        <4> QED  BY <1>6, <3>2, <4>1
      <3> QED  BY <3>1, <3>2
    <2>2. [i \in 0 .. n |-> g[i]]
          = [i \in 0 .. n |-> IF i = 0 THEN [left |-> q, cost |-> 0] ELSE Taken(g[i - 1], levels[i])]
      BY <2>1, Zenon
    <2> QED  BY <1>8, <2>2, Zenon DEF Walks, n
  <1>11. Walks(W, levels, q)
    BY <1>10, Zenon
  <1> HIDE DEF W
  <1>12. W[n] = g[n]
    <2> DEFINE S == {i \in 0 .. n : W[i] # g[i]}
    <2> SUFFICES ASSUME S # {} PROVE FALSE
      BY <1>1
    <2>1. S \subseteq Nat
      BY <1>1
    <2>2. PICK i \in S : \A y \in S : i <= y
      <3> HIDE DEF S
      <3> QED  BY <2>1, LeastOf
    <2>3. \A k \in 0 .. n :
             W[k] = IF k = 0 THEN [left |-> q, cost |-> 0] ELSE Taken(W[k - 1], levels[k])
      BY <1>11, Zenon DEF Walks, n
    <2>4. i # 0
      <3>1. 0 \in 0 .. n
        BY <1>1
      <3>2. W[0] = g[0]
        BY <1>7, <2>3, <3>1, Zenon
      <3> QED  BY <2>2, <3>2
    <2>5. i \in 1 .. n /\ i \in 0 .. n /\ i - 1 \in 0 .. n /\ ~(i <= i - 1)
      BY <1>1, <2>2, <2>4
    <2>6. W[i - 1] = g[i - 1]
      BY <2>2, <2>5
    <2>7. W[i] = g[i]
      BY <1>6, <2>3, <2>4, <2>5, <2>6, Zenon
    <2> QED  BY <2>2, <2>7
  <1>13. n \in 0 .. n /\ Q[n] \in Nat
    BY <1>1, <1>5
  <1>14. CASE q > Q[n]
    <2>1. q - Q[n] # 0 /\ ~(q <= Q[n])
      BY <1>13, <1>14
    <2>2. W[n].left = q - Q[n]
      BY <1>9, <1>12, <1>14
    <2> QED  BY <1>1, <1>4, <2>1, <2>2
  <1>15. CASE ~(q > Q[n])
    <2>1. q <= Q[n]
      BY <1>13, <1>15
    <2>2. W[n].left = 0 /\ W[n].cost = cost
      BY <1>9, <1>12, <1>15
    <2> QED  BY <1>1, <1>4, <2>1, <2>2 DEF cost
  <1> QED  BY <1>14, <1>15

(* A net result that pays for a quantity pays for every smaller one. *)
LEMMA Rearranged ==
    ASSUME NEW a \in Int, NEW b \in Int, NEW c \in Int
    PROVE  /\ a * (b * c) = c * (a * b) /\ a * (b * c) = b * (a * c) /\ a * (b * c) = c * (b * a)
           /\ a * (b * c) \in Int /\ a * b \in Int
  <1>1. /\ a * (b * c) = (a * b) * c /\ (a * b) * c = c * (a * b) /\ a * b = b * a /\ b * (a * c) = (b * a) * c
        /\ a * b \in Int /\ b * c \in Int
    BY WholeProducts
  <1>2. a * (b * c) \in Int
    BY <1>1, WholeProducts
  <1> QED  BY <1>1, <1>2

LEMMA PaysBelow ==
    ASSUME NEW few \in Nat, NEW many \in Nat \ {0}, NEW t \in Int, NEW unit \in Nat, t + unit \in Nat,
           NEW x \in Int, NEW y \in Int, x * many <= y * few,
           NEW c \in Int, NEW d \in Int, d * few <= c * many, (d - y) * unit >= t * y
    PROVE  (c - x) * unit >= t * x
  <1> DEFINE k == t + unit
  <1>1. k \in Nat
    OBVIOUS
  <1>2. \A z \in Int : k * z = t * z + unit * z /\ k * z \in Int /\ t * z \in Int /\ unit * z \in Int
    BY WholeProducts
  <1>3. \A v, z \in Int : (v - z) * unit = v * unit - z * unit /\ z * unit = unit * z
    BY WholeProducts
  <1> HIDE DEF k
  <1>4. k * y <= unit * d
    <2>1. (d - y) * unit = unit * d - unit * y
      BY <1>3, ZenonT(40)
    <2> QED  BY <1>2, <2>1
  <1>5. few * (k * y) <= few * (unit * d)
    BY <1>2, <1>4, ProductGrows
  <1>6. k * (x * many) <= k * (y * few)
    BY <1>1, WholeProducts, ProductGrows
  <1>7. unit * (d * few) <= unit * (c * many)
    BY WholeProducts, ProductGrows
  <1>8. /\ k * (x * many) = many * (k * x) /\ k * (y * few) = few * (k * y)
        /\ unit * (d * few) = few * (unit * d) /\ unit * (c * many) = many * (unit * c)
    BY <1>1, Rearranged
  <1>9. /\ many * (k * x) \in Int /\ few * (k * y) \in Int /\ few * (unit * d) \in Int /\ many * (unit * c) \in Int
    BY <1>1, Rearranged
  <1>10. many * (k * x) <= many * (unit * c)
    BY <1>5, <1>6, <1>7, <1>8, <1>9
  <1>11. k * x <= unit * c
    BY <1>2, <1>10, ProductShrinks
  <1>12. (c - x) * unit = unit * c - unit * x
    BY <1>3, ZenonT(40)
  <1> QED  BY <1>2, <1>11, <1>12

(* How the two sides of a pair lie, and what the search has found. *)
Ascending(levels) == \A i \in 1 .. Len(levels) - 1 : levels[i].price <= levels[i + 1].price

Descending(levels) == \A i \in 1 .. Len(levels) - 1 : levels[i].price >= levels[i + 1].price

BooksLie == asks \in Seq(Level) /\ Ascending(asks) /\ bids \in Seq(Level) /\ Descending(bids)

BooksApart ==
    /\ BookPrices \subseteq Nat /\ BookQuantities \subseteq Nat /\ MaxLevels \in Nat
    /\ StepSizes \subseteq Nat \ {0} /\ Percent \in Nat
    /\ \A t \in Thresholds : t \in Int /\ t + Percent \in Nat
    /\ None \notin Int /\ None \notin [buy : Int, sell : Int]

Priced(qty, threshold) == Books!Pays(Books!CostOf(asks, qty), Books!CostOf(bids, qty), threshold)

LEMMA DepthCounts ==
    ASSUME NEW levels \in Seq(Level)
    PROVE  Books!Depth(levels) \in Nat
  <1>1. Runs(levels) /\ Len(levels) \in Nat
    BY SideRuns
  <1>2. \A i \in 0 .. Len(levels) : Books!Totals(levels).qty[i] \in Nat
    BY <1>1, RunCounts DEF Runs
  <1>3. Len(levels) \in 0 .. Len(levels)
    BY <1>1
  <1> QED  BY <1>2, <1>3 DEF Books!Depth

LEMMA CostCounts ==
    ASSUME NEW levels \in Seq(Level), NEW q \in Nat \ {0}, q <= Books!Depth(levels)
    PROVE  Books!CostOf(levels, q) \in Int
  <1>1. PICK m : /\ EndsIn(Len(levels), Books!Totals(levels).qty, m, q)
                 /\ Books!CostOf(levels, q) = Upto(Books!Totals(levels).qty, Books!Totals(levels).cost, Quotes(levels), m, q)
    BY CostIs
  <1>2. Runs(levels)
    BY SideRuns
  <1> QED  BY <1>1, <1>2, UptoCounts DEF Runs

LEMMA FitsIs ==
    ASSUME BooksApart, asks \in Seq(Level), bids \in Seq(Level), NEW q \in Nat \ {0}, NEW t
    PROVE  Books!Fits(q, t) <=> q <= Books!Depth(asks) /\ q <= Books!Depth(bids) /\ Priced(q, t)
  <1>1. /\ Books!Walk(asks, q) = IF q <= Books!Depth(asks) THEN Books!CostOf(asks, q) ELSE None
        /\ Books!Walk(bids, q) = IF q <= Books!Depth(bids) THEN Books!CostOf(bids, q) ELSE None
    BY TotalsWalk
  <1>2. CASE ~(q <= Books!Depth(asks)) \/ ~(q <= Books!Depth(bids))
    <2>1. Books!EntryQuote(q) = None
      BY <1>1, <1>2, Zenon DEF Books!EntryQuote
    <2> QED  BY <1>2, <2>1 DEF Books!Fits
  <1>3. CASE q <= Books!Depth(asks) /\ q <= Books!Depth(bids)
    <2> DEFINE a == Books!CostOf(asks, q)
               b == Books!CostOf(bids, q)
    <2>1. a \in Int /\ b \in Int
      BY <1>3, CostCounts
    <2>2. Books!Walk(asks, q) = a /\ Books!Walk(bids, q) = b
      BY <1>1, <1>3
    <2> HIDE DEF a, b
    <2>3. a # None /\ b # None /\ [buy |-> a, sell |-> b] # None
      BY <2>1 DEF BooksApart
    <2>4. Books!EntryQuote(q) = [buy |-> a, sell |-> b]
      BY <2>2, <2>3, Zenon DEF Books!EntryQuote
    <2>5. Books!Fits(q, t) <=> Books!Pays(a, b, t)
      <3>1. Books!EntryQuote(q).buy = a /\ Books!EntryQuote(q).sell = b
        BY <2>4
      <3> QED  BY <2>3, <2>4, <3>1, Zenon DEF Books!Fits
    <2> QED  BY <1>3, <2>5 DEF Priced, a, b
  <1> QED  BY <1>2, <1>3

LEMMA Worsens ==
    ASSUME BooksApart, BooksLie, NEW t \in Thresholds, NEW few \in Nat \ {0}, NEW many \in Nat, few <= many,
           many <= Books!Depth(asks), many <= Books!Depth(bids), Priced(many, t)
    PROVE  Priced(few, t)
  <1> DEFINE x == Books!CostOf(asks, few)
             y == Books!CostOf(asks, many)
             c == Books!CostOf(bids, few)
             d == Books!CostOf(bids, many)
  <1>0. Books!Depth(asks) \in Nat /\ Books!Depth(bids) \in Nat /\ few \in Nat /\ many \in Nat \ {0}
    BY DepthCounts DEF BooksLie
  <1>1. few <= Books!Depth(asks) /\ few <= Books!Depth(bids)
    BY <1>0
  <1>2. x \in Int /\ y \in Int /\ c \in Int /\ d \in Int
    BY <1>0, <1>1, CostCounts DEF BooksLie
  <1>3. x * many <= y * few
    <2> DEFINE n == Len(asks)
               Q == Books!Totals(asks).qty
               C == Books!Totals(asks).cost
               w == Sizes(asks)
               p == Quotes(asks)
    <2>1. Running(n, Q, C, w, p) /\ \A i \in 1 .. n : p[i] = asks[i].price
      BY SideRuns DEF BooksLie, Runs
    <2>2. n \in Nat
      BY DEF BooksLie
    <2>3. \A i \in 1 .. n - 1 : asks[i].price <= asks[i + 1].price
      BY DEF BooksLie, Ascending
    <2>4. \A q \in Nat \ {0} : q <= Books!Depth(asks) => \E m : EndsIn(n, Q, m, q) /\ Books!CostOf(asks, q) = Upto(Q, C, p, m, q)
      BY CostIs DEF BooksLie
    <2> HIDE DEF n, Q, C, w, p
    <2>5. Rises(n, Q, C, w, p)
      <3>1. \A i \in 1 .. n - 1 : i \in 1 .. n /\ i + 1 \in 1 .. n
        BY <2>2
      <3>2. \A i \in 1 .. n - 1 : p[i] <= p[i + 1]
        BY <2>1, <2>3, <3>1
      <3> QED  BY <2>1, <3>2 DEF Rises
    <2>6. PICK j : EndsIn(n, Q, j, few) /\ x = Upto(Q, C, p, j, few)
      BY <1>1, <2>4
    <2>7. PICK k : EndsIn(n, Q, k, many) /\ y = Upto(Q, C, p, k, many)
      BY <1>0, <2>4
    <2>8. Upto(Q, C, p, j, few) * many <= Upto(Q, C, p, k, many) * few
      BY <1>0, <2>5, <2>6, <2>7, AverageRises
    <2> QED  BY <2>6, <2>7, <2>8, Zenon
  <1>4. d * few <= c * many
    <2> DEFINE n == Len(bids)
               Q == Books!Totals(bids).qty
               C == Books!Totals(bids).cost
               w == Sizes(bids)
               p == Quotes(bids)
    <2>1. Running(n, Q, C, w, p) /\ \A i \in 1 .. n : p[i] = bids[i].price
      BY SideRuns DEF BooksLie, Runs
    <2>2. n \in Nat
      BY DEF BooksLie
    <2>3. \A i \in 1 .. n - 1 : bids[i].price >= bids[i + 1].price
      BY DEF BooksLie, Descending
    <2>4. \A q \in Nat \ {0} : q <= Books!Depth(bids) => \E m : EndsIn(n, Q, m, q) /\ Books!CostOf(bids, q) = Upto(Q, C, p, m, q)
      BY CostIs DEF BooksLie
    <2> HIDE DEF n, Q, C, w, p
    <2>5. Falls(n, Q, C, w, p)
      <3>1. \A i \in 1 .. n - 1 : i \in 1 .. n /\ i + 1 \in 1 .. n
        BY <2>2
      <3>2. \A i \in 1 .. n - 1 : p[i] >= p[i + 1]
        BY <2>1, <2>3, <3>1
      <3> QED  BY <2>1, <3>2 DEF Falls
    <2>6. PICK j : EndsIn(n, Q, j, few) /\ c = Upto(Q, C, p, j, few)
      BY <1>1, <2>4
    <2>7. PICK k : EndsIn(n, Q, k, many) /\ d = Upto(Q, C, p, k, many)
      BY <1>0, <2>4
    <2>8. Upto(Q, C, p, k, many) * few <= Upto(Q, C, p, j, few) * many
      BY <1>0, <2>5, <2>6, <2>7, AverageFalls
    <2> QED  BY <2>6, <2>7, <2>8, Zenon
  <1>5. (d - y) * Percent >= t * y
    BY DEF Priced, Books!Pays
  <1>6. t \in Int /\ Percent \in Nat /\ t + Percent \in Nat
    BY DEF BooksApart
  <1> HIDE DEF x, y, c, d
  <1>7. (c - x) * Percent >= t * x
    BY <1>0, <1>2, <1>3, <1>4, <1>5, <1>6, PaysBelow
  <1> QED  BY <1>7 DEF Priced, Books!Pays, x, c

Most(step) == Books!Min({Books!Depth(asks), Books!Depth(bids)}) \div step

(* Below low every size pays, above high none that both sides fill. *)
Bracket ==
    capacity # None =>
        /\ capacity \in [step : Nat \ {0}, threshold : Thresholds, low : Nat, high : Nat]
        /\ capacity.high \in capacity.low .. Most(capacity.step)
        /\ capacity.low > 0 => Priced(capacity.step * capacity.low, capacity.threshold)
        /\ \A k \in capacity.high + 1 .. Most(capacity.step) : ~Priced(capacity.step * k, capacity.threshold)

BooksInv == BooksLie /\ Bracket

LEMMA Quotients ==
    ASSUME NEW n \in Nat, NEW s \in Nat \ {0}
    PROVE  n \div s \in Nat /\ \A k \in Nat : k <= n \div s <=> s * k <= n
  <1> DEFINE d == n \div s
             r == n % s
  <1>1. d \in Nat /\ r \in 0 .. s - 1 /\ n = s * d + r
    BY Z3
  <1> HIDE DEF d, r
  <1>2. ASSUME NEW k \in Nat, k <= d PROVE s * k <= n
    <2>1. s * k <= s * d /\ s * k \in Int /\ s * d \in Int
      BY <1>1, <1>2, WholeProducts, ProductGrows
    <2> QED  BY <1>1, <2>1
  <1>3. ASSUME NEW k \in Nat, ~(k <= d) PROVE ~(s * k <= n)
    <2>1. s * (d + 1) <= s * k /\ s * k \in Int /\ s * d \in Int
      BY <1>1, <1>3, WholeProducts, ProductGrows
    <2>2. s * (d + 1) = s * d + s
      <3>1. (d + 1) * s = d * s + 1 * s /\ s * (d + 1) = (d + 1) * s /\ s * d = d * s
        BY <1>1, WholeProducts
      <3> QED  BY <3>1
    <2> QED  BY <1>1, <2>1, <2>2
  <1>4. \A k \in Nat : k <= d <=> s * k <= n
    BY <1>2, <1>3
  <1> QED  BY <1>1, <1>4 DEF d

(* What both sides fill. *)
LEMMA MostIs ==
    ASSUME BooksLie, NEW s \in Nat \ {0}
    PROVE  Most(s) \in Nat /\ \A k \in Nat : k <= Most(s) <=> s * k <= Books!Depth(asks) /\ s * k <= Books!Depth(bids)
  <1> DEFINE a == Books!Depth(asks)
             b == Books!Depth(bids)
             m == Books!Min({a, b})
  <1>1. a \in Nat /\ b \in Nat
    BY DepthCounts DEF BooksLie
  <1> HIDE DEF a, b
  <1>2. m \in Nat /\ (a <= b => m = a) /\ (b <= a => m = b)
    BY <1>1, LesserOf
  <1> HIDE DEF m
  <1>3. m \div s \in Nat /\ \A k \in Nat : k <= m \div s <=> s * k <= m
    BY <1>2, Quotients
  <1>4. ASSUME NEW k \in Nat PROVE k <= m \div s <=> s * k <= a /\ s * k <= b
    <2>1. s * k \in Int /\ (k <= m \div s <=> s * k <= m)
      BY <1>3, WholeProducts
    <2> QED  BY <1>1, <1>2, <2>1
  <1>5. Most(s) = m \div s
    BY DEF Most, m, a, b
  <1> QED  BY <1>3, <1>4, <1>5 DEF a, b

LEMMA SidesAre ==
    ASSUME BooksApart, Books!Init
    PROVE  BooksLie
  <1> DEFINE Any == UNION {[1 .. n -> [price : BookPrices, qty : BookQuantities]] : n \in 0 .. MaxLevels}
  <1>1. /\ asks \in Any /\ \A i \in 1 .. Len(asks) - 1 : asks[i].price < asks[i + 1].price
        /\ bids \in Any /\ \A i \in 1 .. Len(bids) - 1 : bids[i].price > bids[i + 1].price
    BY Zenon DEF Books!Init, Books!Sides
  <1>2. ASSUME NEW levels \in Any
        PROVE  levels \in Seq(Level)
    <2>1. PICK n \in 0 .. MaxLevels : levels \in [1 .. n -> [price : BookPrices, qty : BookQuantities]]
      OBVIOUS
    <2>2. n \in Nat
      BY <2>1 DEF BooksApart
    <2>3. levels \in [1 .. n -> Level]
      BY <2>1 DEF BooksApart, Level
    <2> QED  BY <2>2, <2>3
  <1>3. asks \in Seq(Level) /\ bids \in Seq(Level)
    BY <1>1, <1>2
  <1>4. /\ \A i \in 1 .. Len(asks) - 1 : i \in 1 .. Len(asks) /\ i + 1 \in 1 .. Len(asks)
        /\ \A i \in 1 .. Len(bids) - 1 : i \in 1 .. Len(bids) /\ i + 1 \in 1 .. Len(bids)
    BY <1>3
  <1>5. /\ \A i \in 1 .. Len(asks) : asks[i].price \in Nat
        /\ \A i \in 1 .. Len(bids) : bids[i].price \in Nat
    <2>1. ASSUME NEW levels \in Seq(Level), NEW i \in 1 .. Len(levels) PROVE levels[i].price \in Nat
      <3>1. levels[i] \in Level
        OBVIOUS
      <3> QED  BY <3>1 DEF Level
    <2> QED  BY <1>3, <2>1
  <1>6. Ascending(asks) /\ Descending(bids)
    BY <1>1, <1>4, <1>5 DEF Ascending, Descending
  <1> QED  BY <1>3, <1>6 DEF BooksLie

LEMMA Asking ==
    ASSUME BooksApart, BooksInv, Books!AskCapacity
    PROVE  BooksInv'
  <1>1. PICK step \in StepSizes, threshold \in Thresholds :
            capacity' = [step |-> step, threshold |-> threshold, low |-> 0, high |-> Most(step)]
    BY DEF Books!AskCapacity, Most
  <1>2. step \in Nat \ {0}
    BY DEF BooksApart
  <1>3. Most(step) \in Nat
    BY <1>2, MostIs DEF BooksInv
  <1>4. UNCHANGED <<asks, bids>>
    BY DEF Books!AskCapacity
  <1>5. BooksLie' /\ Most(step)' = Most(step)
    BY <1>4 DEF BooksInv, BooksLie, Most
  <1>6. /\ capacity'.step = step /\ capacity'.threshold = threshold /\ capacity'.low = 0 /\ capacity'.high = Most(step)
        /\ capacity' \in [step : Nat \ {0}, threshold : Thresholds, low : Nat, high : Nat]
    BY <1>1, <1>2, <1>3
  <1>7. 0 \in Nat /\ ~(0 > 0) /\ Most(step) \in 0 .. Most(step)
        /\ \A k \in Most(step) + 1 .. Most(step) : FALSE
    BY <1>3
  <1>8. Bracket'
    BY <1>2, <1>5, <1>6, <1>7, Zenon DEF Bracket
  <1> QED  BY <1>5, <1>8 DEF BooksInv

LEMMA Probing ==
    ASSUME BooksApart, BooksInv, Books!Probe
    PROVE  BooksInv'
  <1> DEFINE step == capacity.step
             t == capacity.threshold
             low == capacity.low
             high == capacity.high
             most == Most(step)
             middle == (low + high + 1) \div 2
  <1>1. /\ step \in Nat \ {0} /\ t \in Thresholds /\ low \in Nat /\ high \in low .. most
        /\ low > 0 => Priced(step * low, t)
        /\ \A k \in high + 1 .. most : ~Priced(step * k, t)
        /\ low < high
    BY DEF Books!Probe, BooksInv, Bracket
  <1>2. BooksLie /\ UNCHANGED <<asks, bids>>
    BY DEF Books!Probe, BooksInv
  <1>3. capacity' = IF Priced(step * middle, t) THEN [capacity EXCEPT !.low = middle] ELSE [capacity EXCEPT !.high = middle - 1]
    BY Zenon DEF Books!Probe, Priced
  <1>4. capacity \in [step : Nat \ {0}, threshold : Thresholds, low : Nat, high : Nat]
    BY DEF Books!Probe, BooksInv, Bracket
  <1>5. middle \in low + 1 .. high /\ middle \in Nat \ {0} /\ middle - 1 \in low .. high /\ middle - 1 \in Nat
    <2>1. low \in Nat /\ high \in Nat /\ low < high
      BY <1>1, <1>4
    <2> HIDE DEF low, high
    <2> QED  BY <2>1, Z3
  <1>6. most \in Nat /\ \A k \in Nat : k <= most <=> step * k <= Books!Depth(asks) /\ step * k <= Books!Depth(bids)
    BY <1>1, <1>2, MostIs
  <1>7. BooksLie'
    BY <1>2 DEF BooksLie
  <1>10. ASSUME NEW s PROVE Most(s)' = Most(s)
    BY <1>2 DEF Most
  <1>11. ASSUME NEW q, NEW z PROVE Priced(q, z)' <=> Priced(q, z)
    BY <1>2, Zenon DEF Priced
  <1>8. CASE Priced(step * middle, t)
    <2>1. capacity' = [capacity EXCEPT !.low = middle]
      BY <1>3, <1>8
    <2> HIDE DEF middle
    <2>2. /\ capacity'.step = step /\ capacity'.threshold = t /\ capacity'.low = middle /\ capacity'.high = high
          /\ capacity' \in [step : Nat \ {0}, threshold : Thresholds, low : Nat, high : Nat]
      BY <1>4, <1>5, <2>1
    <2> HIDE DEF step, t, low, high, most
    <2>3. high \in middle .. most
      BY <1>1, <1>5, <1>6
    <2> USE DEF most
    <2>4. Bracket'
      BY <1>1, <1>8, <1>10, <1>11, <2>2, <2>3, Zenon DEF Bracket
    <2> QED  BY <1>7, <2>4 DEF BooksInv
  <1>9. CASE ~Priced(step * middle, t)
    <2>1. capacity' = [capacity EXCEPT !.high = middle - 1]
      BY <1>3, <1>9
    <2> HIDE DEF middle
    <2>2. /\ capacity'.step = step /\ capacity'.threshold = t /\ capacity'.low = low /\ capacity'.high = middle - 1
          /\ capacity' \in [step : Nat \ {0}, threshold : Thresholds, low : Nat, high : Nat]
      BY <1>4, <1>5, <2>1
    <2> HIDE DEF step, t, low, high, most
    <2>3. middle - 1 \in low .. most
      BY <1>1, <1>5, <1>6
    <2>4. ASSUME NEW k \in (middle - 1) + 1 .. most, Priced(step * k, t) PROVE FALSE
      <3>1. k \in Nat /\ middle <= k /\ k <= most
        BY <1>5, <1>6, <2>4
      <3>2. step * k <= Books!Depth(asks) /\ step * k <= Books!Depth(bids)
        BY <1>6, <3>1
      <3>3. step * middle \in Nat \ {0} /\ step * k \in Nat /\ step * middle <= step * k
        <4>1. step * middle <= step * k
          BY <1>1, <1>5, <3>1, ProductGrows
        <4>2. step * middle \in Int /\ step * k \in Int /\ step * 1 <= step * middle /\ step * 1 = step
          <5>1. step \in Nat /\ 1 <= middle /\ middle \in Int /\ k \in Int
            BY <1>1, <1>5, <3>1
          <5>2. step * 1 = step
            BY <5>1
          <5> QED  BY <5>1, <5>2, WholeProducts, ProductGrows
        <4> QED  BY <1>1, <4>1, <4>2
      <3>4. Priced(step * middle, t)
        BY <1>1, <1>2, <2>4, <3>2, <3>3, Worsens
      <3> QED  BY <1>9, <3>4
    <2> USE DEF most
    <2>5. Bracket'
      BY <1>1, <1>10, <1>11, <2>2, <2>3, <2>4, Zenon DEF Bracket
    <2> QED  BY <1>7, <2>5 DEF BooksInv
  <1> QED  BY <1>8, <1>9

LEMMA BracketSuffices ==
    ASSUME BooksApart, BooksInv
    PROVE  Books!CapacityIsLargest
  <1> SUFFICES ASSUME capacity # None, capacity.low >= capacity.high
               PROVE  /\ capacity.low > 0 => Books!Fits(capacity.step * capacity.low, capacity.threshold)
                      /\ \A k \in capacity.low + 1 .. Books!Depth(asks) \div capacity.step :
                             ~Books!Fits(capacity.step * k, capacity.threshold)
    BY Zenon DEF Books!CapacityIsLargest
  <1> DEFINE step == capacity.step
             t == capacity.threshold
             low == capacity.low
             high == capacity.high
             most == Most(step)
  <1>1. /\ step \in Nat \ {0} /\ low \in Nat /\ high \in Nat /\ high \in low .. most
        /\ low > 0 => Priced(step * low, t)
        /\ \A k \in high + 1 .. most : ~Priced(step * k, t)
        /\ low >= high
    BY DEF BooksInv, Bracket
  <1>2. BooksLie /\ asks \in Seq(Level) /\ bids \in Seq(Level)
    BY DEF BooksInv, BooksLie
  <1>3. most \in Nat /\ \A k \in Nat : k <= most <=> step * k <= Books!Depth(asks) /\ step * k <= Books!Depth(bids)
    BY <1>1, <1>2, MostIs
  <1> HIDE DEF step, t, low, high, most
  <1>4. low = high /\ low <= most
    BY <1>1, <1>3
  <1>5. ASSUME NEW k \in Nat \ {0} PROVE step * k \in Nat \ {0}
    <2>1. step \in Nat /\ 1 <= k /\ k \in Int
      BY <1>1
    <2>2. step * 1 = step
      BY <2>1
    <2>3. step * 1 <= step * k /\ step * k \in Int
      BY <2>1, WholeProducts, ProductGrows
    <2> QED  BY <1>1, <2>2, <2>3
  <1>6. low > 0 => Books!Fits(step * low, t)
    <2> SUFFICES ASSUME low > 0 PROVE Books!Fits(step * low, t)
      OBVIOUS
    <2>1. low \in Nat \ {0}
      BY <1>1
    <2>2. step * low \in Nat \ {0} /\ step * low <= Books!Depth(asks) /\ step * low <= Books!Depth(bids)
      BY <1>1, <1>3, <1>4, <1>5, <2>1
    <2> QED  BY <1>1, <1>2, <2>2, FitsIs
  <1>7. ASSUME NEW k \in low + 1 .. Books!Depth(asks) \div step PROVE ~Books!Fits(step * k, t)
    <2>1. k \in Nat \ {0} /\ k \in Nat /\ low < k
      <3>1. Books!Depth(asks) \div step \in Nat
        BY <1>1, <1>2, DepthCounts, Quotients
      <3> QED  BY <1>1, <3>1
    <2>2. step * k \in Nat \ {0}
      BY <1>5, <2>1
    <2>3. CASE k <= most
      <3>1. k \in high + 1 .. most
        BY <1>1, <1>3, <1>4, <2>1, <2>3
      <3>2. ~Priced(step * k, t)
        BY <1>1, <3>1
      <3> QED  BY <1>2, <2>2, <3>2, FitsIs
    <2>4. CASE ~(k <= most)
      <3>1. ~(step * k <= Books!Depth(asks) /\ step * k <= Books!Depth(bids))
        BY <1>3, <2>1, <2>4
      <3> QED  BY <1>2, <2>2, <3>1, FitsIs
    <2> QED  BY <2>3, <2>4
  <1> QED  BY <1>6, <1>7 DEF step, t, low

LEMMA BooksHold == ASSUME BooksApart PROVE SpecAll => []BooksInv
  <1>1. ASSUME InitAll PROVE BooksInv
    <2>1. Books!Init /\ capacity = None
      BY <1>1 DEF InitAll, Books!Init
    <2> QED  BY <2>1, SidesAre DEF BooksInv, Bracket
  <1>2. ASSUME BooksInv, [NextAll]_allVars PROVE BooksInv'
    <2>1. CASE Books!Next
      BY <1>2, <2>1, Asking, Probing DEF Books!Next
    <2>2. CASE UNCHANGED bookVars
      <3>1. asks' = asks /\ bids' = bids /\ capacity' = capacity
        BY <2>2 DEF bookVars
      <3>2. BooksLie'
        BY <1>2, <3>1 DEF BooksInv, BooksLie
      <3>3. ASSUME NEW s PROVE Most(s)' = Most(s)
        BY <3>1 DEF Most
      <3>4. ASSUME NEW q, NEW z PROVE Priced(q, z)' <=> Priced(q, z)
        BY <3>1, Zenon DEF Priced
      <3>5. Bracket'
        BY <1>2, <3>1, <3>3, <3>4 DEF BooksInv, Bracket
      <3> QED  BY <3>2, <3>5 DEF BooksInv
    <2> QED
      BY <1>2, <2>1, <2>2
         DEF NextAll, ClickStep, LegsStep, OrderStep, ContractStep, AccountStep, BookStep, FundingStep, RadarStep, allVars
  <1> QED  BY <1>1, <1>2, PTL DEF SpecAll

LEMMA LargestHolds == BooksApart /\ BooksInv => CapacityIsLargest
  BY BracketSuffices DEF CapacityIsLargest

(* The capacity of a pair is the largest multiple of the step that both books
   fill at the threshold, for books of any depth, prices and quantities, any
   steps and thresholds: no larger one pays, although the search tries few. *)
THEOREM CapacitiesAreLargest ==
    ASSUME BooksApart PROVE SpecAll => []CapacityIsLargest
  BY LargestHolds, BooksHold, PTL

--------------------------------------------------------------------------------
(* The executions of a pair *)

LEMMA SumIs ==
    ASSUME NEW n \in Nat, NEW a \in [1 .. n -> Int]
    PROVE  Units!Sum(a) = Books!Sums(a)[n] /\ Units!Sum(a) \in Int
  <1>1. Len(a) = n
    OBVIOUS
  <1>2. Units!Sum(a) = Books!Sums(a)[n]
    BY <1>1, Zenon DEF Units!Sum, Books!Sums
  <1>3. Books!Sums(a) \in [0 .. n -> Int] /\ n \in 0 .. n
    BY SumsAre
  <1> QED  BY <1>2, <1>3

LEMMA SumScales ==
    ASSUME NEW n \in Nat, NEW a \in [1 .. n -> Int], NEW u \in Int, NEW b \in [1 .. n -> Int],
           \A k \in 1 .. n : b[k] = a[k] * u
    PROVE  Units!Sum(b) = Units!Sum(a) * u
  <1> DEFINE f == Books!Sums(a)
             g == Books!Sums(b)
             S == {i \in 0 .. n : g[i] # f[i] * u}
  <1>1. f \in [0 .. n -> Int] /\ f[0] = 0 /\ \A i \in 1 .. n : f[i] = f[i - 1] + a[i]
    BY SumsAre
  <1>2. g \in [0 .. n -> Int] /\ g[0] = 0 /\ \A i \in 1 .. n : g[i] = g[i - 1] + b[i]
    BY SumsAre
  <1>3. Units!Sum(a) = f[n] /\ Units!Sum(b) = g[n] /\ n \in 0 .. n
    BY SumIs
  <1> HIDE DEF f, g
  <1> SUFFICES ASSUME S # {} PROVE FALSE
    BY <1>3
  <1>4. S \subseteq Nat
    OBVIOUS
  <1>5. PICK i \in S : \A y \in S : i <= y
    <2> HIDE DEF S
    <2> QED  BY <1>4, LeastOf
  <1>6. i # 0
    <2>1. 0 * u = 0
      OBVIOUS
    <2> QED  BY <1>1, <1>2, <1>5, <2>1
  <1>7. i \in 1 .. n /\ i - 1 \in 0 .. n /\ ~(i <= i - 1)
    BY <1>5, <1>6
  <1>8. g[i - 1] = f[i - 1] * u
    BY <1>5, <1>7
  <1>9. g[i] = f[i - 1] * u + a[i] * u /\ f[i] = f[i - 1] + a[i] /\ f[i - 1] \in Int /\ a[i] \in Int
    BY <1>1, <1>2, <1>7, <1>8
  <1>10. g[i] = f[i] * u
    <2>1. (f[i - 1] + a[i]) * u = f[i - 1] * u + a[i] * u
      BY <1>9, WholeProducts
    <2> QED  BY <1>9, <2>1, Zenon
  <1> QED  BY <1>5, <1>10

(* Executions of parts of an order, in tokens at the price of a token. *)
InTokens(n, parts, qtyUnit) == [k \in 1 .. n |-> Units!Fill(parts[k] * qtyUnit, Units!TokenPrice)]

LEMMA BingxFills ==
    ASSUME NEW c, c.mult \in Nat \ {0}, NEW i, i.priceUnit = c.mult, i.qtyUnit = c.mult,
           NEW n \in Nat, NEW parts \in [1 .. n -> Nat], NEW units \in Nat \ {0}, Units!Sum(parts) = units,
           NEW inTokens \in BOOLEAN
    PROVE  Units!BingxParseFills(Units!FillRows("bingx", c, parts, inTokens), i, units)
           = InTokens(n, parts, i.qtyUnit)
  <1> DEFINE size(u) == IF inTokens THEN u * c.mult ELSE u
             rows == [k \in 1 .. n |-> [volume |-> size(parts[k]), price |-> Units!Price(c)]]
             volumes == [k \in 1 .. n |-> size(parts[k])]
             m == c.mult
             divisor == IF m # 1 /\ Units!Sum(volumes) = units * m THEN m ELSE 1
  <1>0. parts \in [1 .. n -> Int] /\ DOMAIN parts = 1 .. n /\ m \in Nat \ {0} /\ m \in Int
    OBVIOUS
  <1>1. Units!FillRows("bingx", c, parts, inTokens) = rows
    BY <1>0 DEF Units!FillRows
  <1>2. Units!Price(c) \div i.priceUnit = Units!TokenPrice
    BY DivideBack DEF Units!Price, Units!TokenPrice
  <1>3. ASSUME NEW k \in 1 .. n PROVE parts[k] * m \in Int /\ parts[k] \in Nat
    BY <1>0, WholeProducts
  <1>4. volumes \in [1 .. n -> Int] /\ \A k \in 1 .. n : volumes[k] = IF inTokens THEN parts[k] * m ELSE parts[k]
    BY <1>3
  <1>5. Units!BingxParseFills(rows, i, units)
        = [k \in 1 .. n |-> Units!Fill((volumes[k] \div divisor) * m, Units!TokenPrice)]
    <2>1. DOMAIN rows = 1 .. n /\ \A k \in 1 .. n : rows[k].volume = volumes[k] /\ rows[k].price = Units!Price(c)
      OBVIOUS
    <2>2. volumes = [k \in 1 .. n |-> rows[k].volume]
      OBVIOUS
    <2> HIDE DEF rows, volumes
    <2> QED  BY <1>2, <2>1, <2>2 DEF Units!BingxParseFills
  <1> HIDE DEF volumes, m
  <1>6. ASSUME NEW k \in 1 .. n PROVE (volumes[k] \div divisor) * m = parts[k] * m
    <2>1. CASE ~inTokens
      <3>1. volumes = parts
        BY <1>0, <1>4, <2>1
      <3>2. m # 1 => units # units * m
        <4>1. ASSUME m # 1 PROVE units # units * m
          <5>1. units * 2 <= units * m /\ units * m \in Int
            BY <1>0, <4>1, ProductGrows, WholeProducts
          <5> QED  BY <5>1
        <4> QED  BY <4>1
      <3>3. divisor = 1
        BY <3>1, <3>2, Zenon
      <3>4. volumes[k] \div 1 = parts[k]
        BY <1>3, <3>1
      <3> QED  BY <3>3, <3>4, Zenon
    <2>2. CASE inTokens
      <3>1. Units!Sum(volumes) = units * m
        <4>1. volumes \in [1 .. n -> Int] /\ \A j \in 1 .. n : volumes[j] = parts[j] * m
          BY <1>4, <2>2
        <4>2. Units!Sum(volumes) = Units!Sum(parts) * m
          BY <1>0, <4>1, SumScales, ZenonT(40)
        <4> QED  BY <4>2
      <3>2. divisor = m
        BY <1>0, <3>1
      <3>3. (parts[k] * m) \div m = parts[k]
        BY <1>0, <1>3, DivideBack
      <3>4. volumes[k] = parts[k] * m
        BY <1>4, <2>2
      <3> QED  BY <3>2, <3>3, <3>4, Zenon
    <2> QED  BY <2>1, <2>2
  <1>7. [k \in 1 .. n |-> Units!Fill((volumes[k] \div divisor) * m, Units!TokenPrice)]
        = [k \in 1 .. n |-> Units!Fill(parts[k] * m, Units!TokenPrice)]
    BY <1>6, Zenon
  <1> QED  BY <1>1, <1>5, <1>7 DEF InTokens, m

(* Hyperliquid lists the executions of all orders, one of another order first. *)
OwnRows(f, rows, i) ==
    f = [k \in 0 .. Len(rows) |->
            IF k = 0 THEN <<>>
            ELSE IF rows[k].oid = "this" /\ rows[k].coin = "this"
                 THEN Append(f[k - 1], Units!Fill(rows[k].sz * i.qtyUnit, rows[k].px \div i.priceUnit))
                 ELSE f[k - 1]]

LEMMA HyperliquidFills ==
    ASSUME NEW c, c.mult \in Nat \ {0}, NEW i, i.priceUnit = c.mult, i.qtyUnit \in Nat,
           NEW n \in Nat, NEW parts \in [1 .. n -> Nat], NEW inTokens
    PROVE  Units!HyperliquidParseFills(Units!FillRows("hyperliquid", c, parts, inTokens), i)
           = InTokens(n, parts, i.qtyUnit)
  <1> DEFINE own == [k \in 1 .. n |-> [oid |-> "this", coin |-> "this", sz |-> parts[k], px |-> Units!Price(c)]]
             first == [oid |-> "other", coin |-> "this", sz |-> 1, px |-> Units!Price(c)]
             rows == <<first>> \o own
             fill(k) == Units!Fill(parts[k] * i.qtyUnit, Units!TokenPrice)
             g == [k \in 0 .. n + 1 |-> IF k = 0 THEN <<>> ELSE [j \in 1 .. k - 1 |-> fill(j)]]
             W == CHOOSE f : OwnRows(f, rows, i)
  <1>0. DOMAIN parts = 1 .. n
    OBVIOUS
  <1>1. Units!FillRows("hyperliquid", c, parts, inTokens) = rows
    BY <1>0 DEF Units!FillRows
  <1>2. Units!Price(c) \div i.priceUnit = Units!TokenPrice
    BY DivideBack DEF Units!Price, Units!TokenPrice
  <1>3. Len(rows) = n + 1 /\ rows[1] = first /\ \A k \in 2 .. n + 1 : rows[k] = own[k - 1]
    OBVIOUS
  <1>4. Units!HyperliquidParseFills(rows, i) = W[n + 1]
    <2> HIDE DEF rows
    <2> QED  BY <1>3, Zenon DEF Units!HyperliquidParseFills, OwnRows
  <1>5. first.oid # "this"
    OBVIOUS
  <1>6. ASSUME NEW k \in 2 .. n + 1
        PROVE  rows[k].oid = "this" /\ rows[k].coin = "this"
               /\ Units!Fill(rows[k].sz * i.qtyUnit, rows[k].px \div i.priceUnit) = fill(k - 1)
    <2>1. k - 1 \in 1 .. n
      OBVIOUS
    <2>2. rows[k] = [oid |-> "this", coin |-> "this", sz |-> parts[k - 1], px |-> Units!Price(c)]
      BY <1>3, <2>1
    <2> HIDE DEF rows
    <2> QED  BY <1>2, <2>2
  <1> HIDE DEF rows, first, own
  <1>7. OwnRows(g, rows, i)
    <2>1. ASSUME NEW k \in 0 .. n + 1
          PROVE  g[k] = IF k = 0 THEN <<>>
                        ELSE IF rows[k].oid = "this" /\ rows[k].coin = "this"
                             THEN Append(g[k - 1], Units!Fill(rows[k].sz * i.qtyUnit, rows[k].px \div i.priceUnit))
                             ELSE g[k - 1]
      <3>1. CASE k = 0
        BY <3>1
      <3>2. CASE k = 1
        <4>1. g[1] = [j \in 1 .. 0 |-> fill(j)] /\ g[0] = <<>>
          OBVIOUS
        <4>2. [j \in 1 .. 0 |-> fill(j)] = <<>>
          <5> HIDE DEF fill
          <5> QED  OBVIOUS
        <4> HIDE DEF g
        <4> QED  BY <1>3, <1>5, <3>2, <4>1, <4>2
      <3>3. CASE k \in 2 .. n + 1
        <4>1. g[k] = [j \in 1 .. k - 1 |-> fill(j)] /\ g[k - 1] = [j \in 1 .. k - 2 |-> fill(j)]
          BY <3>3
        <4> HIDE DEF fill, g
        <4>2. Append([j \in 1 .. k - 2 |-> fill(j)], fill(k - 1)) = [j \in 1 .. k - 1 |-> fill(j)]
          BY <3>3
        <4> QED  BY <1>6, <3>3, <4>1, <4>2
      <3> QED  BY <3>1, <3>2, <3>3
    <2>2. g = [k \in 0 .. n + 1 |-> g[k]]
      OBVIOUS
    <2> HIDE DEF g
    <2>3. [k \in 0 .. n + 1 |-> g[k]]
          = [k \in 0 .. n + 1 |->
                IF k = 0 THEN <<>>
                ELSE IF rows[k].oid = "this" /\ rows[k].coin = "this"
                     THEN Append(g[k - 1], Units!Fill(rows[k].sz * i.qtyUnit, rows[k].px \div i.priceUnit))
                     ELSE g[k - 1]]
      BY <2>1, Zenon
    <2> QED  BY <1>3, <2>2, <2>3, Zenon DEF OwnRows
  <1>8. OwnRows(W, rows, i)
    BY <1>7, Zenon
  <1>9. g[n + 1] = [j \in 1 .. n |-> fill(j)]
    <2>1. n + 1 \in 0 .. n + 1 /\ n + 1 # 0 /\ (n + 1) - 1 = n
      OBVIOUS
    <2> QED  BY <2>1
  <1> HIDE DEF W, g
  <1>10. W[n + 1] = g[n + 1]
    <2> DEFINE S == {k \in 0 .. n + 1 : W[k] # g[k]}
    <2> SUFFICES ASSUME S # {} PROVE FALSE
      OBVIOUS
    <2>1. S \subseteq Nat
      OBVIOUS
    <2>2. PICK k \in S : \A y \in S : k <= y
      <3> HIDE DEF S
      <3> QED  BY <2>1, LeastOf
    <2> DEFINE Step(f) == IF k = 0 THEN <<>>
                          ELSE IF rows[k].oid = "this" /\ rows[k].coin = "this"
                               THEN Append(f[k - 1], Units!Fill(rows[k].sz * i.qtyUnit, rows[k].px \div i.priceUnit))
                               ELSE f[k - 1]
    <2>3. W[k] = Step(W) /\ g[k] = Step(g)
      BY <1>3, <1>7, <1>8, <2>2, Zenon DEF OwnRows
    <2>4. k = 0 \/ W[k - 1] = g[k - 1]
      <3>1. k # 0 => k - 1 \in 0 .. n + 1 /\ ~(k <= k - 1)
        BY <2>2
      <3> QED  BY <2>2, <3>1
    <2>5. Step(W) = Step(g)
      BY <2>4, Zenon
    <2> HIDE DEF Step
    <2> QED  BY <2>2, <2>3, <2>5
  <1> QED  BY <1>1, <1>4, <1>9, <1>10, Zenon DEF InTokens

LEMMA FillsAre ==
    ASSUME NEW x \in Adapters, NEW c, c.mult \in Nat \ {0}, NEW i, i.priceUnit = c.mult, i.qtyUnit \in Nat \ {0},
           x = "bingx" => i.qtyUnit = c.mult,
           NEW n \in Nat, NEW parts \in [1 .. n -> Nat], NEW units \in Nat \ {0}, Units!Sum(parts) = units,
           NEW inTokens \in BOOLEAN
    PROVE  Units!ParseFills(x, Units!FillRows(x, c, parts, inTokens), i, units) = InTokens(n, parts, i.qtyUnit)
  <1> DEFINE rows == Units!FillRows(x, c, parts, inTokens)
  <1>0. DOMAIN parts = 1 .. n
    OBVIOUS
  <1>1. Units!Price(c) \div i.priceUnit = Units!TokenPrice
    BY DivideBack DEF Units!Price, Units!TokenPrice
  <1>2. CASE x = "bingx"
    <2>1. Units!ParseFills(x, rows, i, units) = Units!BingxParseFills(rows, i, units)
      BY <1>2 DEF Units!ParseFills
    <2> QED  BY <1>2, <2>1, BingxFills
  <1>3. CASE x = "hyperliquid"
    <2>1. Units!ParseFills(x, rows, i, units) = Units!HyperliquidParseFills(rows, i)
      BY <1>3 DEF Units!ParseFills
    <2> QED  BY <1>3, <2>1, HyperliquidFills
  <1>4. CASE x \notin {"bingx", "hyperliquid"}
    <2> DEFINE row(k) ==
                 CASE x \in {"binance", "aster"} -> [qty |-> parts[k], price |-> Units!Price(c)]
                   [] x = "bybit" -> [execQty |-> parts[k], execPrice |-> Units!Price(c)]
                   [] x = "bitget" -> [baseVolume |-> parts[k], price |-> Units!Price(c)]
                   [] x = "gate" -> [size |-> -parts[k], price |-> Units!Price(c)]
                   [] x = "kucoin" -> [size |-> parts[k], price |-> Units!Price(c)]
                   [] x = "mexc" -> [vol |-> parts[k], price |-> Units!Price(c)]
               read(r) ==
                 CASE x \in {"binance", "aster"} -> Units!BinanceParseFill(r, i)
                   [] x = "bybit" -> Units!BybitParseFill(r, i)
                   [] x = "bitget" -> Units!BitgetParseFill(r, i)
                   [] x = "gate" -> Units!GateParseFill(r, i)
                   [] x = "kucoin" -> Units!KucoinParseFill(r, i)
                   [] x = "mexc" -> Units!MexcParseFill(r, i)
    <2>1. rows = [k \in 1 .. n |-> row(k)]
      BY <1>0, <1>4 DEF Units!FillRows, Adapters
    <2>2. Units!ParseFills(x, rows, i, units) = [k \in 1 .. n |-> read(row(k))]
      <3>1. DOMAIN rows = 1 .. n /\ \A k \in 1 .. n : rows[k] = row(k)
        <4> HIDE DEF rows, row
        <4> QED  BY <2>1
      <3> HIDE DEF rows, row
      <3>2. Units!ParseFills(x, rows, i, units) = [k \in DOMAIN rows |-> read(rows[k])]
        BY <1>4 DEF Units!ParseFills, Adapters
      <3> HIDE DEF read
      <3> QED  BY <3>1, <3>2
    <2>3. ASSUME NEW k \in 1 .. n PROVE read(row(k)) = Units!Fill(parts[k] * i.qtyUnit, Units!TokenPrice)
      <3>1. parts[k] \in Nat
        OBVIOUS
      <3>2. Units!Abs(-parts[k]) = parts[k]
        <4>1. \A z \in Nat : Units!Abs(-z) = z
          BY DEF Units!Abs
        <4> QED  BY <3>1, <4>1
      <3>3. CASE x \in {"binance", "aster"}
        <4>1. row(k) = [qty |-> parts[k], price |-> Units!Price(c)] /\ read(row(k)) = Units!BinanceParseFill(row(k), i)
          BY <3>3
        <4> HIDE DEF row, read
        <4> QED  BY <1>1, <4>1 DEF Units!BinanceParseFill
      <3>4. CASE x = "bybit"
        <4>1. row(k) = [execQty |-> parts[k], execPrice |-> Units!Price(c)] /\ read(row(k)) = Units!BybitParseFill(row(k), i)
          BY <3>4
        <4> HIDE DEF row, read
        <4> QED  BY <1>1, <4>1 DEF Units!BybitParseFill
      <3>5. CASE x = "bitget"
        <4>1. row(k) = [baseVolume |-> parts[k], price |-> Units!Price(c)] /\ read(row(k)) = Units!BitgetParseFill(row(k), i)
          BY <3>5
        <4> HIDE DEF row, read
        <4> QED  BY <1>1, <4>1 DEF Units!BitgetParseFill
      <3>6. CASE x = "gate"
        <4>1. row(k) = [size |-> -parts[k], price |-> Units!Price(c)] /\ read(row(k)) = Units!GateParseFill(row(k), i)
          BY <3>6
        <4> HIDE DEF row, read
        <4> QED  BY <1>1, <3>2, <4>1 DEF Units!GateParseFill
      <3>7. CASE x = "kucoin"
        <4>1. row(k) = [size |-> parts[k], price |-> Units!Price(c)] /\ read(row(k)) = Units!KucoinParseFill(row(k), i)
          BY <3>7
        <4> HIDE DEF row, read
        <4> QED  BY <1>1, <4>1 DEF Units!KucoinParseFill
      <3>8. CASE x = "mexc"
        <4>1. row(k) = [vol |-> parts[k], price |-> Units!Price(c)] /\ read(row(k)) = Units!MexcParseFill(row(k), i)
          BY <3>8
        <4> HIDE DEF row, read
        <4> QED  BY <1>1, <4>1 DEF Units!MexcParseFill
      <3> QED  BY <1>4, <3>3, <3>4, <3>5, <3>6, <3>7, <3>8 DEF Adapters
    <2> HIDE DEF row, read
    <2>4. [k \in 1 .. n |-> read(row(k))] = [k \in 1 .. n |-> Units!Fill(parts[k] * i.qtyUnit, Units!TokenPrice)]
      BY <2>3, Zenon
    <2> QED  BY <2>2, <2>4, Zenon DEF InTokens
  <1> QED  BY <1>2, <1>3, <1>4

(* What is listed adds up to what was planned. *)
Listing(rows, total) ==
    /\ Units!Sum([k \in DOMAIN rows |-> rows[k].qty]) = total
    /\ \A k \in DOMAIN rows : rows[k].price = Units!TokenPrice

FillsInv == stage \in {"executed", "held"} => \A leg \in Units!Legs : Listing(fills[leg], quantity)

LEMMA FetchAddsUp ==
    ASSUME ContractsApart, UnitInv, Units!FetchFills
    PROVE  FillsInv'
  <1>1. stage = "open" /\ UNCHANGED <<venue, contract, ledger, asked, quantity>>
    BY DEF Units!FetchFills
  <1>2. UnitShape /\ Planned
    BY <1>1 DEF UnitInv
  <1>3. PICK long \in Units!Splits(Units!Abs(ledger.long.held)), short \in Units!Splits(Units!Abs(ledger.short.held)),
             inTokens \in BOOLEAN :
          fills' = [leg \in Units!Legs |->
               Units!ParseFills(venue[leg],
                          Units!FillRows(venue[leg], contract[leg], IF leg = "long" THEN long ELSE short, inTokens),
                          Units!instrument[leg], Units!ToUnits(quantity, Units!instrument[leg]))]
    BY DEF Units!FetchFills
  <1>4. ASSUME NEW leg \in Units!Legs PROVE Listing(fills'[leg], quantity)
    <2> DEFINE n == Units!ToUnits(quantity, Units!instrument[leg])
               parts == IF leg = "long" THEN long ELSE short
               i == Units!instrument[leg]
               x == venue[leg]
               c == contract[leg]
    <2>1. /\ n \in Nat \ {0} /\ n * i.qtyUnit = quantity
          /\ Units!Abs(Lot(leg)) = n
      BY <1>2, LotIs
    <2>2. ledger[leg].held = Lot(leg)
      BY <1>1 DEF UnitInv, AccountsInv
    <2>3. parts \in Units!Splits(n)
      BY <1>3, <2>1, <2>2 DEF Units!Legs
    <2>4. PICK p \in 1 .. MaxParts : parts \in [1 .. p -> 1 .. n] /\ Units!Sum(parts) = n
      <3> HIDE DEF n, parts
      <3> QED  BY <2>3 DEF Units!Splits
    <2>5. /\ x \in Adapters /\ c.mult \in Nat \ {0} /\ i.qtyUnit \in Nat \ {0} /\ i.priceUnit = c.mult
          /\ i.qtyUnit = Units!CoinsPerUnit(x, c) * c.mult
      BY <1>2, UnitsOf DEF Planned, LoadedInstrument
    <2>6. x = "bingx" => i.qtyUnit = c.mult
      BY <2>5 DEF Units!CoinsPerUnit
    <2>7. fills'[leg] = Units!ParseFills(x, Units!FillRows(x, c, parts, inTokens), i, n)
      BY <1>3
    <2> HIDE DEF n, parts, i, x, c
    <2>8. p \in Nat /\ parts \in [1 .. p -> Nat] /\ parts \in [1 .. p -> Int]
      BY <2>1, <2>4 DEF ContractsApart
    <2>9. fills'[leg] = InTokens(p, parts, i.qtyUnit)
      BY <2>1, <2>4, <2>5, <2>6, <2>7, <2>8, FillsAre, SMTT(30)
    <2> DEFINE rows == InTokens(p, parts, i.qtyUnit)
               amounts == [k \in DOMAIN rows |-> rows[k].qty]
    <2>10. /\ DOMAIN rows = 1 .. p
           /\ \A k \in 1 .. p : rows[k].qty = parts[k] * i.qtyUnit /\ rows[k].price = Units!TokenPrice
      BY <2>8 DEF InTokens, Units!Fill
    <2> HIDE DEF rows
    <2>11. amounts \in [1 .. p -> Int] /\ \A k \in 1 .. p : amounts[k] = parts[k] * i.qtyUnit
      <3>1. ASSUME NEW k \in 1 .. p PROVE parts[k] * i.qtyUnit \in Int
        BY <2>5, <2>8, WholeProducts
      <3> QED  BY <2>10, <3>1
    <2>12. Units!Sum(amounts) = n * i.qtyUnit
      <3> HIDE DEF amounts
      <3>1. PICK u \in Int : u = i.qtyUnit
        BY <2>5
      <3>2. \A k \in 1 .. p : amounts[k] = parts[k] * u
        BY <2>11, <3>1, Zenon
      <3>3. Units!Sum(amounts) = Units!Sum(parts) * u
        BY <2>8, <2>11, <3>2, SumScales
      <3> QED  BY <2>4, <3>1, <3>3, Zenon
    <2> QED  BY <2>1, <2>9, <2>10, <2>12 DEF Listing, rows
  <1> QED  BY <1>1, <1>4 DEF FillsInv

LEMMA FillsHold == ASSUME ContractsApart PROVE SpecAll => []FillsInv
  <1>1. ASSUME InitAll PROVE FillsInv
    BY <1>1 DEF InitAll, Units!Init, FillsInv
  <1>2. ASSUME FillsInv, UnitInv, [NextAll]_allVars PROVE FillsInv'
    <2>1. CASE Units!FetchFills
      BY <1>2, <2>1, FetchAddsUp
    <2>2. ASSUME UNCHANGED <<quantity, fills>>, stage' \in {"executed", "held"} => stage \in {"executed", "held"}
          PROVE  FillsInv'
      BY <1>2, <2>2 DEF FillsInv
    <2>3. CASE Units!Next /\ ~Units!FetchFills
      <3>1. stage' \notin {"executed", "held"} \/ (Units!FetchPositions /\ stage \in {"executed", "closed"})
        BY <1>2, <2>3 DEF Units!Next, Units!Plan, Units!Open, Units!Close, Units!SettingAnswered, Units!SettingFails,
                          Units!FetchPositions
      <3>2. CASE stage' \notin {"executed", "held"}
        BY <3>2 DEF FillsInv
      <3>3. CASE stage' \in {"executed", "held"}
        <4>1. stage = "executed" /\ UNCHANGED <<quantity, fills>>
          BY <3>1, <3>3 DEF Units!FetchPositions
        <4> QED  BY <2>2, <4>1
      <3> QED  BY <3>2, <3>3
    <2>4. CASE UNCHANGED contractVars
      BY <2>2, <2>4 DEF contractVars
    <2> QED
      BY <1>2, <2>1, <2>3, <2>4
         DEF NextAll, ClickStep, LegsStep, OrderStep, ContractStep, AccountStep, BookStep, FundingStep, RadarStep, allVars
  <1> QED  BY <1>1, <1>2, UnitsHold, PTL DEF SpecAll

(* UnitsAgree, for contracts of any size, step and limits on any two of the     *)
(* nine exchanges and orders executed in any number of parts: the pair is of     *)
(* one size in what the exchanges hold, in the positions read and in the         *)
(* executions listed.                                                            *)
THEOREM UnitsAlwaysAgree ==
    ASSUME ContractsApart PROVE SpecAll => []UnitsAgree
  <1>1. FillsInv => Units!FillsAddUp
    BY DEF FillsInv, Listing, Units!FillsAddUp
  <1>2. Units!HeldAsPlanned /\ Units!FillsAddUp => UnitsAgree
    BY DEF UnitsAgree, Units!UnitsAgree
  <1> QED  BY <1>1, <1>2, LegsHoldThePlan, FillsHold, PTL

================================================================================
