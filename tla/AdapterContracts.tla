--------------------------- MODULE AdapterContracts ---------------------------
(***************************************************************************)
(* The units of a pair on its way through two exchange adapters: the       *)
(* contracts are read, one quantity is planned for both legs, leverage and *)
(* margin are set, both orders are sent, the positions are read back and   *)
(* closed again.  Every exchange counts in units of its own, coins of the  *)
(* symbol or contracts, prices them in others, and names sides and margin  *)
(* modes in words of its own; the terminal knows tokens only.              *)
(*                                                                         *)
(* A symbol such as 1000PEPE stands for mult tokens; a contract holds size *)
(* coins of the symbol.  Prices are whole multiples of mult, so that       *)
(* dividing them is exact.                                                 *)
(***************************************************************************)
EXTENDS Integers, Sequences

CONSTANTS
    None,
    LongExchanges, ShortExchanges,    \* exchanges of the two legs
    Shapes,         \* contracts of the long leg: [mult, size, step, lot, min, max,
                    \* notional, listed]
    ShortShapes,    \* contracts of the short leg
    Wanted,         \* tokens the configured size buys
    MinOrderUsd,    \* MIN_ORDER_USD of Hyperliquid
    Leverage,       \* leverage asked for; accounts start with another
    MaxFailures,    \* bound: requests of prepare_symbol that fail
    MaxParts        \* bound: executions of one order

VARIABLES
    venue,      \* the exchange of each leg
    contract,   \* its listing
    ledger,     \* the exchange's account of that contract: [held, mode, leverage]
    asked,      \* [wanted, isolated]: what the user set up
    stage,      \* how far the pair is
    todo,       \* requests of prepare_symbol still to send, by leg
    failures,   \* requests of prepare_symbol that failed
    quantity,   \* tokens planned for each leg, None before
    fills,      \* the executions read from the exchanges
    position    \* the positions read from the exchanges, None when absent or unread

vars == <<venue, contract, ledger, asked, stage, todo, failures, quantity, fills, position>>

Legs == {"long", "short"}

TokenPrice == 2

Max2(a, b) == IF a > b THEN a ELSE b

Or(value, other) == IF value \in {None, 0} THEN other ELSE value

--------------------------------------------------------------------------------
(* parse_instruments: the contract in tokens, None when it is not loaded. *)

Instrument(qtyUnit, priceUnit, step, min, max, notional) ==
    [qtyUnit |-> qtyUnit, priceUnit |-> priceUnit, step |-> step, min |-> min, max |-> max,
     notional |-> notional]

(* MARKET_LOT_SIZE may have a step of 0: LOT_SIZE counts then. *)
BinanceParseInstrument(c) ==
    IF ~c.listed THEN None
    ELSE Instrument(c.mult, c.mult, IF c.step <= 0 THEN c.lot ELSE c.step, c.min, c.max, c.notional)

BingxParseInstrument(c) == IF ~c.listed THEN None ELSE Instrument(c.mult, c.mult, c.step, c.min, None, c.notional)

BybitParseInstrument(c) ==
    IF ~c.listed \/ c.step = 0 THEN None
    ELSE Instrument(c.mult, c.mult, c.step, Or(c.min, c.step), c.max, c.notional)

BitgetParseInstrument(c) ==
    IF ~c.listed \/ c.step = 0 THEN None
    ELSE Instrument(c.mult, c.mult, c.step, Or(c.min, c.step), c.max, c.notional)

(* Mutant: a contract of Gate is taken for one coin. *)
GateParseInstrumentInCoins(c) ==
    IF ~c.listed THEN None ELSE Instrument(c.mult, c.mult, 1, Max2(c.min, 1), c.max, 0)

GateParseInstrument(c) ==
    IF ~c.listed THEN None ELSE Instrument(c.size * c.mult, c.mult, 1, Max2(c.min, 1), c.max, 0)

KucoinParseInstrument(c) ==
    IF ~c.listed THEN None
    ELSE Instrument(c.size * c.mult, c.mult, Or(c.step, 1), Or(c.step, 1), c.max, 0)

MexcParseInstrument(c) ==
    IF ~c.listed THEN None ELSE Instrument(c.size * c.mult, c.mult, Or(c.step, 1), c.min, c.max, 0)

HyperliquidParseInstrument(c) ==
    IF ~c.listed THEN None ELSE Instrument(c.mult, c.mult, c.step, c.step, None, MinOrderUsd)

ParseInstrument(x, c) ==
    CASE x \in {"binance", "aster"} -> BinanceParseInstrument(c)
      [] x = "bingx" -> BingxParseInstrument(c)
      [] x = "bybit" -> BybitParseInstrument(c)
      [] x = "bitget" -> BitgetParseInstrument(c)
      [] x = "gate" -> GateParseInstrument(c)
      [] x = "kucoin" -> KucoinParseInstrument(c)
      [] x = "mexc" -> MexcParseInstrument(c)
      [] x = "hyperliquid" -> HyperliquidParseInstrument(c)

instrument == [leg \in Legs |-> ParseInstrument(venue[leg], contract[leg])]

--------------------------------------------------------------------------------
(* plan_quantity: one quantity both exchanges take. *)

StepTokens(i) == i.step * i.qtyUnit

LeastCommonMultiple(a, b) ==
    CHOOSE n \in 1 .. a * b : n % a = 0 /\ n % b = 0 /\ \A k \in 1 .. n - 1 : k % a # 0 \/ k % b # 0

Floor(qty, step) == (qty \div step) * step

Ceilings(i) == IF i.max = None THEN {} ELSE {i.max * i.qtyUnit}

PlanQuantity(wanted, long, short) ==
    LET step == LeastCommonMultiple(StepTokens(long), StepTokens(short))
        ceilings == Ceilings(long) \cup Ceilings(short)
        floors == {Floor(wanted, step)} \cup {Floor(c, step) : c \in ceilings}
        qty == CHOOSE q \in floors : \A other \in floors : q <= other
        allowed(i) == /\ qty >= i.min * i.qtyUnit
                      /\ qty * TokenPrice >= i.notional
                      /\ i.max # None => qty <= i.max * i.qtyUnit
    IN  IF qty > 0 /\ allowed(long) /\ allowed(short) THEN qty ELSE None

ToUnits(tokens, i) == tokens \div i.qtyUnit

--------------------------------------------------------------------------------
(* prepare_symbol: the settings it sends, in order; "same" says whether the   *)
(* answer "it already is" counts as done.                                     *)

Setting(mode, leverage, same) == [mode |-> mode, leverage |-> leverage, same |-> same]

BinancePrepareSymbol(isolated) ==
    <<Setting(None, Leverage, FALSE), Setting(IF isolated THEN "ISOLATED" ELSE "CROSSED", None, TRUE)>>

AsterPrepareSymbol(isolated) ==
    <<Setting(None, Leverage, FALSE), Setting(IF isolated THEN "ISOLATED" ELSE "CROSSED", None, TRUE)>>

(* The mode is read first and sent only when it differs. *)
BingxPrepareSymbol(isolated, mode) ==
    LET wanted == IF isolated THEN "ISOLATED" ELSE "CROSSED" IN
    (IF mode # wanted THEN <<Setting(wanted, None, FALSE)>> ELSE <<>>) \o <<Setting(None, Leverage, FALSE)>>

(* The margin mode belongs to the whole account and is left alone. *)
BybitPrepareSymbol(isolated) == <<Setting(None, Leverage, TRUE)>>

BitgetPrepareSymbol(isolated) ==
    <<Setting(IF isolated THEN "isolated" ELSE "crossed", None, TRUE), Setting(None, Leverage, FALSE)>>

(* Mutant: cross margin is not told by leverage 0. *)
GatePrepareSymbolPlain(isolated) == <<Setting("leverage", Leverage, FALSE)>>

(* Leverage 0 is cross margin. *)
GatePrepareSymbol(isolated) ==
    <<Setting(IF isolated THEN "leverage" ELSE "leverage 0", Leverage, FALSE)>>

(* Isolated leverage travels with the order. *)
KucoinPrepareSymbol(isolated) ==
    <<Setting(IF isolated THEN "ISOLATED" ELSE "CROSS", None, FALSE)>>
        \o IF isolated THEN <<>> ELSE <<Setting(None, Leverage, FALSE)>>

(* Once for either side. *)
MexcPrepareSymbol(isolated) ==
    LET both == Setting(IF isolated THEN "openType 1" ELSE "openType 2", Leverage, FALSE) IN <<both, both>>

HyperliquidPrepareSymbol(isolated) == <<Setting(IF isolated THEN "isolated" ELSE "cross", Leverage, FALSE)>>

PrepareSymbol(x, isolated, mode) ==
    CASE x = "binance" -> BinancePrepareSymbol(isolated)
      [] x = "aster" -> AsterPrepareSymbol(isolated)
      [] x = "bingx" -> BingxPrepareSymbol(isolated, IF mode = "isolated" THEN "ISOLATED" ELSE "CROSSED")
      [] x = "bybit" -> BybitPrepareSymbol(isolated)
      [] x = "bitget" -> BitgetPrepareSymbol(isolated)
      [] x = "gate" -> GatePrepareSymbol(isolated)
      [] x = "kucoin" -> KucoinPrepareSymbol(isolated)
      [] x = "mexc" -> MexcPrepareSymbol(isolated)
      [] x = "hyperliquid" -> HyperliquidPrepareSymbol(isolated)

--------------------------------------------------------------------------------
(* place_market_order: the order in the units and words of the exchange, with *)
(* the margin settings that travel with it.                                   *)

Order(side, size, reduce, mode, leverage) ==
    [side |-> side, size |-> size, reduce |-> reduce, mode |-> mode, leverage |-> leverage]

Buying(leg, opening) == (leg = "long") = opening

BinanceOrder(leg, opening, units) ==
    Order(IF Buying(leg, opening) THEN "BUY" ELSE "SELL", units, ~opening, None, None)

BingxOrder(leg, opening, units) ==
    Order(IF Buying(leg, opening) THEN "BUY" ELSE "SELL", units, ~opening, None, None)

BybitOrder(leg, opening, units) ==
    Order(IF Buying(leg, opening) THEN "Buy" ELSE "Sell", units, ~opening, None, None)

BitgetOrder(leg, opening, units, isolated) ==
    Order(IF Buying(leg, opening) THEN "buy" ELSE "sell", units, ~opening,
          IF isolated THEN "isolated" ELSE "crossed", None)

(* The sign of the size is the side. *)
GateOrder(leg, opening, units) ==
    Order(None, IF Buying(leg, opening) THEN units ELSE -units, ~opening, None, None)

KucoinOrder(leg, opening, units, isolated) ==
    Order(IF Buying(leg, opening) THEN "buy" ELSE "sell", units, ~opening,
          IF isolated THEN "ISOLATED" ELSE "CROSS", Leverage)

(* Mutant: the two closing sides are swapped. *)
MexcOrderSwapped(leg, opening, units, isolated) ==
    LET side == IF opening THEN IF leg = "long" THEN "1" ELSE "3"
                ELSE IF leg = "long" THEN "2" ELSE "4"
    IN  Order(side, units, ~opening, IF isolated THEN "openType 1" ELSE "openType 2", Leverage)

(* 1 opens a long, 2 closes a short, 3 opens a short, 4 closes a long. *)
MexcOrder(leg, opening, units, isolated) ==
    LET side == IF opening THEN IF leg = "long" THEN "1" ELSE "3"
                ELSE IF leg = "long" THEN "4" ELSE "2"
    IN  Order(side, units, ~opening, IF isolated THEN "openType 1" ELSE "openType 2", Leverage)

HyperliquidOrder(leg, opening, units) ==
    Order(IF Buying(leg, opening) THEN "buy" ELSE "sell", units, ~opening, None, None)

PlaceMarketOrder(x, leg, opening, units) ==
    CASE x \in {"binance", "aster"} -> BinanceOrder(leg, opening, units)
      [] x = "bingx" -> BingxOrder(leg, opening, units)
      [] x = "bybit" -> BybitOrder(leg, opening, units)
      [] x = "bitget" -> BitgetOrder(leg, opening, units, asked.isolated)
      [] x = "gate" -> GateOrder(leg, opening, units)
      [] x = "kucoin" -> KucoinOrder(leg, opening, units, asked.isolated)
      [] x = "mexc" -> MexcOrder(leg, opening, units, asked.isolated)
      [] x = "hyperliquid" -> HyperliquidOrder(leg, opening, units)

--------------------------------------------------------------------------------
(* The exchange: what it makes of a setting and of an order, and the row in   *)
(* which it shows the position.                                               *)

Mode(word) == IF word \in {"ISOLATED", "isolated", "leverage", "openType 1"} THEN "isolated" ELSE "cross"

Set(account, s) ==
    [account EXCEPT !.mode = IF s.mode = None THEN @ ELSE Mode(s.mode),
                    !.leverage = IF s.leverage = None THEN @ ELSE s.leverage]

(* Endpoints that answer a setting which already is with an error. *)
RefusesSame(x, s) ==
    \/ x \in {"binance", "aster", "bitget"} /\ s.mode # None
    \/ x = "bybit"

Signed(order) ==
    IF order.side \in {"BUY", "Buy", "buy", "1", "2", None} THEN order.size ELSE -order.size

Abs(n) == IF n < 0 THEN -n ELSE n

(* A reduce-only order never takes more than is held. *)
Execute(account, order) ==
    LET change == Signed(order)
        able == IF ~order.reduce THEN change
                ELSE IF (change > 0) = (account.held > 0) THEN 0
                ELSE IF Abs(change) > Abs(account.held) THEN -account.held ELSE change
    IN  [Set(account, order) EXCEPT !.held = @ + able]

CoinsPerUnit(x, c) == IF x \in {"gate", "kucoin", "mexc"} THEN c.size ELSE 1

Price(c) == TokenPrice * c.mult    \* of one coin of the symbol

Row(x, c, account) ==
    LET held == account.held
        long == held > 0
        isolated == account.mode = "isolated"
    IN  CASE x \in {"binance", "aster"} ->
               [positionAmt |-> held, entryPrice |-> Price(c), leverage |-> account.leverage,
                marginType |-> account.mode]
          [] x = "bingx" ->
               [positionSide |-> "BOTH", positionAmt |-> held, avgPrice |-> Price(c),
                leverage |-> account.leverage, isolated |-> isolated]
          [] x = "bybit" ->
               [side |-> IF long THEN "Buy" ELSE "Sell", size |-> Abs(held), avgPrice |-> Price(c),
                leverage |-> account.leverage, tradeMode |-> None]
          [] x = "bitget" ->
               [holdSide |-> IF long THEN "long" ELSE "short", total |-> Abs(held), openPriceAvg |-> Price(c),
                leverage |-> account.leverage, marginMode |-> IF isolated THEN "isolated" ELSE "crossed"]
          [] x = "gate" ->
               [size |-> held, entry_price |-> Price(c), leverage |-> IF isolated THEN account.leverage ELSE 0,
                cross_leverage_limit |-> IF isolated THEN 0 ELSE account.leverage]
          [] x = "kucoin" ->
               [currentQty |-> held, avgEntryPrice |-> Price(c), leverage |-> account.leverage,
                marginMode |-> IF isolated THEN "ISOLATED" ELSE "CROSS"]
          [] x = "mexc" ->
               [positionType |-> IF long THEN 1 ELSE 2, holdVol |-> Abs(held), holdAvgPrice |-> Price(c),
                leverage |-> account.leverage, openType |-> IF isolated THEN 1 ELSE 2]
          [] x = "hyperliquid" ->
               [szi |-> held, entryPx |-> Price(c), positionValue |-> Abs(held) * Price(c),
                value |-> account.leverage, type |-> account.mode]

--------------------------------------------------------------------------------
(* parse_positions: one row per token, None when the row is skipped. *)

Position(side, qty, entry, leverage, margin) ==
    [side |-> side, qty |-> qty, entry |-> entry, leverage |-> leverage, margin |-> margin]

SideOf(amount) == IF amount > 0 THEN "long" ELSE "short"

BinanceParsePosition(row, i) ==
    IF row.positionAmt = 0 THEN None
    ELSE Position(SideOf(row.positionAmt), Abs(row.positionAmt) * i.qtyUnit, row.entryPrice \div i.priceUnit,
                  row.leverage, IF row.marginType \in {"isolated", "cross"} THEN row.marginType ELSE None)

BingxParsePosition(row, i) ==
    LET side == CASE row.positionSide = "LONG" -> "long"
                  [] row.positionSide = "SHORT" -> "short"
                  [] OTHER -> SideOf(row.positionAmt)
    IN  IF row.positionAmt = 0 THEN None
        ELSE Position(side, Abs(row.positionAmt) * i.qtyUnit, row.avgPrice \div i.priceUnit,
                      row.leverage, IF row.isolated THEN "isolated" ELSE "cross")

BybitParsePosition(row, i) ==
    IF row.size = 0 \/ row.side \notin {"Buy", "Sell"} THEN None
    ELSE Position(IF row.side = "Buy" THEN "long" ELSE "short", Abs(row.size) * i.qtyUnit,
                  row.avgPrice \div i.priceUnit, row.leverage,
                  IF row.tradeMode = None THEN None ELSE IF row.tradeMode = 1 THEN "isolated" ELSE "cross")

BitgetParsePosition(row, i) ==
    IF row.total = 0 \/ row.holdSide \notin {"long", "short"} THEN None
    ELSE Position(row.holdSide, Abs(row.total) * i.qtyUnit, row.openPriceAvg \div i.priceUnit, row.leverage,
                  CASE row.marginMode = "isolated" -> "isolated"
                    [] row.marginMode = "crossed" -> "cross"
                    [] OTHER -> None)

GateParsePosition(row, i) ==
    IF row.size = 0 THEN None
    ELSE Position(SideOf(row.size), Abs(row.size) * i.qtyUnit, row.entry_price \div i.priceUnit,
                  IF row.leverage > 0 THEN row.leverage ELSE row.cross_leverage_limit,
                  IF row.leverage > 0 THEN "isolated" ELSE "cross")

KucoinParsePosition(row, i) ==
    IF row.currentQty = 0 THEN None
    ELSE Position(SideOf(row.currentQty), Abs(row.currentQty) * i.qtyUnit, row.avgEntryPrice \div i.priceUnit,
                  row.leverage,
                  CASE row.marginMode = "ISOLATED" -> "isolated"
                    [] row.marginMode = "CROSS" -> "cross"
                    [] OTHER -> None)

MexcParsePosition(row, i) ==
    IF row.holdVol <= 0 \/ row.positionType \notin {1, 2} THEN None
    ELSE Position(IF row.positionType = 1 THEN "long" ELSE "short", row.holdVol * i.qtyUnit,
                  row.holdAvgPrice \div i.priceUnit, row.leverage,
                  CASE row.openType = 1 -> "isolated" [] row.openType = 2 -> "cross" [] OTHER -> None)

HyperliquidParsePosition(row, i) ==
    IF row.szi = 0 THEN None
    ELSE Position(SideOf(row.szi), Abs(row.szi) * i.qtyUnit, row.entryPx \div i.priceUnit, row.value,
                  IF row.type \in {"isolated", "cross"} THEN row.type ELSE None)

ParsePosition(x, row, i) ==
    CASE x \in {"binance", "aster"} -> BinanceParsePosition(row, i)
      [] x = "bingx" -> BingxParsePosition(row, i)
      [] x = "bybit" -> BybitParsePosition(row, i)
      [] x = "bitget" -> BitgetParsePosition(row, i)
      [] x = "gate" -> GateParsePosition(row, i)
      [] x = "kucoin" -> KucoinParsePosition(row, i)
      [] x = "mexc" -> MexcParsePosition(row, i)
      [] x = "hyperliquid" -> HyperliquidParsePosition(row, i)

--------------------------------------------------------------------------------
(* parse_fills: the executions of one order in tokens. *)

Fill(qty, price) == [qty |-> qty, price |-> price]

BinanceParseFill(f, i) == Fill(f.qty * i.qtyUnit, f.price \div i.priceUnit)

Sum(amounts) ==
    LET sum[k \in 0 .. Len(amounts)] == IF k = 0 THEN 0 ELSE sum[k - 1] + amounts[k]
    IN  sum[Len(amounts)]

(* Volumes that add up to the order's tokens were not in coins of the symbol. *)
BingxParseFills(rows, i, expectedUnits) ==
    LET volumes == Sum([k \in DOMAIN rows |-> rows[k].volume])
        divisor == IF i.qtyUnit # 1 /\ volumes = expectedUnits * i.qtyUnit THEN i.qtyUnit ELSE 1
    IN  [k \in DOMAIN rows |-> Fill((rows[k].volume \div divisor) * i.qtyUnit, rows[k].price \div i.priceUnit)]

BybitParseFill(f, i) == Fill(f.execQty * i.qtyUnit, f.execPrice \div i.priceUnit)

BitgetParseFill(f, i) == Fill(f.baseVolume * i.qtyUnit, f.price \div i.priceUnit)

GateParseFill(f, i) == Fill(Abs(f.size) * i.qtyUnit, f.price \div i.priceUnit)

KucoinParseFill(f, i) == Fill(f.size * i.qtyUnit, f.price \div i.priceUnit)

MexcParseFill(f, i) == Fill(f.vol * i.qtyUnit, f.price \div i.priceUnit)

(* The user's fills of every order are listed; only this order's count. *)
HyperliquidParseFills(rows, i) ==
    LET own[k \in 0 .. Len(rows)] ==
            IF k = 0 THEN <<>>
            ELSE IF rows[k].oid = "this" /\ rows[k].coin = "this"
                 THEN Append(own[k - 1], Fill(rows[k].sz * i.qtyUnit, rows[k].px \div i.priceUnit))
                 ELSE own[k - 1]
    IN  own[Len(rows)]

ParseFills(x, rows, i, expectedUnits) ==
    CASE x = "bingx" -> BingxParseFills(rows, i, expectedUnits)
      [] x = "hyperliquid" -> HyperliquidParseFills(rows, i)
      [] OTHER -> [k \in DOMAIN rows |->
             CASE x \in {"binance", "aster"} -> BinanceParseFill(rows[k], i)
               [] x = "bybit" -> BybitParseFill(rows[k], i)
               [] x = "bitget" -> BitgetParseFill(rows[k], i)
               [] x = "gate" -> GateParseFill(rows[k], i)
               [] x = "kucoin" -> KucoinParseFill(rows[k], i)
               [] x = "mexc" -> MexcParseFill(rows[k], i)]

(* The executions in which units may be filled. *)
Splits(units) ==
    {parts \in UNION {[1 .. n -> 1 .. units] : n \in 1 .. MaxParts} : Sum(parts) = units}

(* BingX may count in tokens; Hyperliquid lists other orders as well. *)
FillRows(x, c, parts, inTokens) ==
    LET row(units) ==
            CASE x \in {"binance", "aster"} -> [qty |-> units, price |-> Price(c)]
              [] x = "bingx" -> [volume |-> IF inTokens THEN units * c.mult ELSE units, price |-> Price(c)]
              [] x = "bybit" -> [execQty |-> units, execPrice |-> Price(c)]
              [] x = "bitget" -> [baseVolume |-> units, price |-> Price(c)]
              [] x = "gate" -> [size |-> -units, price |-> Price(c)]
              [] x = "kucoin" -> [size |-> units, price |-> Price(c)]
              [] x = "mexc" -> [vol |-> units, price |-> Price(c)]
              [] x = "hyperliquid" -> [oid |-> "this", coin |-> "this", sz |-> units, px |-> Price(c)]
        own == [k \in DOMAIN parts |-> row(parts[k])]
    IN  IF x = "hyperliquid" THEN <<[oid |-> "other", coin |-> "this", sz |-> 1, px |-> Price(c)]>> \o own ELSE own

--------------------------------------------------------------------------------
(* Exchanges that give the step as a number of digits, so never as 0. *)
StepIsPrecision == {"bingx", "hyperliquid"}

Init ==
    /\ venue \in [Legs -> LongExchanges \cup ShortExchanges]
    /\ venue.long \in LongExchanges /\ venue.short \in ShortExchanges
    /\ venue.long # venue.short
    /\ contract \in [Legs -> Shapes \cup ShortShapes]
    /\ contract.long \in Shapes /\ contract.short \in ShortShapes
    /\ \A leg \in Legs : contract[leg].step = 0 => venue[leg] \notin StepIsPrecision
    /\ asked \in [wanted : Wanted, isolated : BOOLEAN]
    /\ ledger \in [Legs -> [held : {0}, mode : {"isolated", "cross"}, leverage : {1}]]
    /\ ledger.long.mode # ledger.short.mode
    /\ stage = "new"
    /\ todo = [leg \in Legs |-> <<>>]
    /\ failures = 0
    /\ quantity = None
    /\ fills = [leg \in Legs |-> <<>>]
    /\ position = [leg \in Legs |-> None]

(* A pair exists only when both contracts were loaded. *)
Plan ==
    /\ stage = "new"
    /\ \A leg \in Legs : instrument[leg] # None
    /\ quantity' = PlanQuantity(asked.wanted, instrument.long, instrument.short)
    /\ quantity' # None
    /\ stage' = "preparing"
    /\ todo' = [leg \in Legs |-> PrepareSymbol(venue[leg], asked.isolated, ledger[leg].mode)]
    /\ UNCHANGED <<venue, contract, ledger, asked, failures, fills, position>>

Sent(leg) == todo' = [todo EXCEPT ![leg] = Tail(@)]

(* "It already is" passes where the adapter expects it and fails elsewhere. *)
SettingAnswered(leg) ==
    /\ stage = "preparing" /\ todo[leg] # <<>>
    /\ LET s == Head(todo[leg])
           same == RefusesSame(venue[leg], s) /\ Set(ledger[leg], s) = ledger[leg]
       IN  /\ ledger' = [ledger EXCEPT ![leg] = Set(@, s)]
           /\ IF same /\ ~s.same
              THEN stage' = "refused" /\ UNCHANGED todo
              ELSE Sent(leg) /\ UNCHANGED stage
    /\ UNCHANGED <<venue, contract, asked, failures, quantity, fills, position>>

SettingFails(leg) ==
    /\ stage = "preparing" /\ todo[leg] # <<>> /\ failures < MaxFailures
    /\ failures' = failures + 1
    /\ stage' = "refused"
    /\ UNCHANGED <<venue, contract, ledger, asked, todo, quantity, fills, position>>

Send(opening, tokens) ==
    ledger' = [leg \in Legs |->
        Execute(ledger[leg], PlaceMarketOrder(venue[leg], leg, opening, ToUnits(tokens[leg], instrument[leg])))]

Open ==
    /\ stage = "preparing" /\ \A leg \in Legs : todo[leg] = <<>>
    /\ Send(TRUE, [leg \in Legs |-> quantity])
    /\ stage' = "open"
    /\ UNCHANGED <<venue, contract, asked, todo, failures, quantity, fills, position>>

(* The exchange lists the executions of each order. *)
FetchFills ==
    /\ stage = "open"
    /\ stage' = "executed"
    /\ \E long \in Splits(Abs(ledger.long.held)), short \in Splits(Abs(ledger.short.held)), inTokens \in BOOLEAN :
           fills' = [leg \in Legs |->
               ParseFills(venue[leg],
                          FillRows(venue[leg], contract[leg], IF leg = "long" THEN long ELSE short, inTokens),
                          instrument[leg], ToUnits(quantity, instrument[leg]))]
    /\ UNCHANGED <<venue, contract, ledger, asked, todo, failures, quantity, position>>

Read == position' = [leg \in Legs |->
    ParsePosition(venue[leg], Row(venue[leg], contract[leg], ledger[leg]), instrument[leg])]

FetchPositions ==
    /\ stage \in {"executed", "closed"}
    /\ stage' = IF stage = "executed" THEN "held" ELSE "flat"
    /\ Read
    /\ UNCHANGED <<venue, contract, ledger, asked, todo, failures, quantity, fills>>

(* Closing sends what the exchanges say is held. *)
Close ==
    /\ stage = "held"
    /\ Send(FALSE, [leg \in Legs |-> IF position[leg] = None THEN 0 ELSE position[leg].qty])
    /\ stage' = "closed"
    /\ UNCHANGED <<venue, contract, asked, todo, failures, quantity, fills, position>>

Next ==
    \/ Plan \/ Open \/ FetchFills \/ FetchPositions \/ Close
    \/ \E leg \in Legs : SettingAnswered(leg) \/ SettingFails(leg)

Spec == Init /\ [][Next]_vars
--------------------------------------------------------------------------------
(* What the exchange holds, in tokens. *)
TokensHeld(leg) == Abs(ledger[leg].held) * CoinsPerUnit(venue[leg], contract[leg]) * contract[leg].mult

(* parse_instruments, plan_quantity, place_market_order and parse_positions:  *)
(* both exchanges hold the planned tokens, on opposite sides, and the terminal *)
(* reads that many tokens at the price of a token.                             *)
HeldAsPlanned ==
    /\ stage \in {"open", "executed", "held"} =>
         /\ ledger.long.held > 0 /\ ledger.short.held < 0
         /\ \A leg \in Legs : TokensHeld(leg) = quantity
         /\ quantity <= asked.wanted
    /\ stage = "held" =>
         \A leg \in Legs :
             /\ position[leg].side = leg
             /\ position[leg].qty = quantity
             /\ position[leg].entry = TokenPrice

(* parse_fills: the executions add up to the same tokens at the same price. *)
FillsAddUp ==
    stage = "held" =>
        \A leg \in Legs :
            /\ Sum([k \in DOMAIN fills[leg] |-> fills[leg][k].qty]) = quantity
            /\ \A k \in DOMAIN fills[leg] : fills[leg][k].price = TokenPrice

(* Whatever units the two exchanges count in, the pair is of one size in what *)
(* they hold, in the positions read and in the executions listed.             *)
UnitsAgree == HeldAsPlanned /\ FillsAddUp

(* Closing what was read leaves nothing behind and opens nothing. *)
CloseFlattens ==
    /\ stage \in {"closed", "flat"} => \A leg \in Legs : ledger[leg].held = 0
    /\ stage = "flat" => \A leg \in Legs : position[leg] = None

(* prepare_symbol: a position is held with the leverage and the margin mode   *)
(* asked for, and shows them, whatever the account had before; Bybit leaves    *)
(* the mode of the account alone.  Nothing is refused for being set already.   *)
MarginAsAsked ==
    /\ stage = "held" =>
         \A leg \in Legs :
             /\ position[leg].leverage = Leverage
             /\ venue[leg] # "bybit" =>
                  position[leg].margin = IF asked.isolated THEN "isolated" ELSE "cross"
    /\ stage = "refused" => failures > 0
=============================================================================
