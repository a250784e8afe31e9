---------------------------- MODULE AdapterOrders ----------------------------
(***************************************************************************)
(* One market order of one exchange adapter: place_market_order and        *)
(* fetch_order of the nine exchanges that trade, next to an exchange that  *)
(* accepts, fills and shows the order at its own pace and may lose either  *)
(* the request or the answer.  Each await of the code is a step, so the    *)
(* order moves on between two requests of one call.                        *)
(*                                                                         *)
(* An exchange's record of an order keeps the fields the adapter reads,    *)
(* under the names of that exchange; prices, ids and texts are left out.   *)
(***************************************************************************)
EXTENDS Integers, Sequences

CONSTANTS
    None,
    Exchanges,      \* exchanges an order may be sent to
    Req,            \* units ordered
    StatusPolls,    \* STATUS_POLLS: questions asked after an answer with an id only
    MaxFetches      \* bound: calls of fetch_order

VARIABLES
    exchange,   \* the adapter in use
    order,      \* [state, filled, seen, expired]: the order as the exchange has it
    call,       \* the adapter call under way, None between calls
    report,     \* place_market_order: the report it will return if nothing better comes
    said,       \* the report the last call returned, None before the first
    fetches     \* calls of fetch_order so far

vars == <<exchange, order, call, report, said, fetches>>

--------------------------------------------------------------------------------
(* Reports. *)

Report(outcome, status, filled) == [outcome |-> outcome, status |-> status, filled |-> filled]

Unknown(status) == Report("unknown", status, 0)
NotFound == Report("rejected", "not_found", 0)
Submitted == Unknown("submitted")

ByAmount(word, filled) ==
    Report(IF filled >= Req THEN "filled" ELSE IF filled > 0 THEN "partial" ELSE "rejected", word, filled)

(* A word for a full fill, words for an end without one, and anything else still works. *)
ByWord(word, full, closed, filled) ==
    IF word \in full THEN Report(IF filled >= Req THEN "filled" ELSE "partial", word, filled)
    ELSE IF word \in closed THEN Report(IF filled > 0 THEN "partial" ELSE "rejected", word, filled)
    ELSE Report("unknown", word, filled)

(* What a request comes back with: a record, "refused" by an error code of   *)
(* the exchange, "cut" by a broken connection, "missing" when the error is    *)
(* that of an order the exchange does not know, or "empty".                   *)
Failed(kind) == [kind |-> kind]
Record(raw) == [kind |-> "record", raw |-> raw]

IsRecord(answer) == answer.kind = "record"

IsUnknownOutcomeError(answer) == answer.kind = "cut"

OrderError(answer) ==
    IF IsUnknownOutcomeError(answer) THEN Unknown("error") ELSE Report("rejected", "error", 0)

(* Whether an error says "not found" is taken as read: the code goes by the  *)
(* type, a code or words in its text.                                        *)
StatusError(answer) == IF answer.kind = "missing" THEN NotFound ELSE Unknown("error")

--------------------------------------------------------------------------------
(* parse_order of each exchange. *)

BinanceParseOrder(raw) ==
    ByWord(raw.status, {"FILLED"}, {"EXPIRED", "CANCELED", "REJECTED", "EXPIRED_IN_MATCH"}, raw.executedQty)

BingxParseOrder(raw) ==
    ByWord(raw.status, {"FILLED"}, {"CANCELLED", "CANCELED", "FAILED", "EXPIRED", "REJECTED"}, raw.executedQty)

BybitParseOrder(raw) ==
    ByWord(raw.orderStatus, {"Filled"},
           {"Cancelled", "Rejected", "PartiallyFilledCanceled", "Deactivated"}, raw.cumExecQty)

BitgetParseOrder(raw) == ByWord(raw.state, {"filled"}, {"canceled", "cancelled", "rejected"}, raw.baseVolume)

MexcParseOrder(data) == ByWord(data.state, {"3"}, {"4", "5"}, data.dealVol)

Abs(n) == IF n < 0 THEN -n ELSE n

GateParseOrder(raw) ==
    LET filled == Abs(raw.size) - Abs(raw.left) IN
    IF raw.status # "finished" THEN Report("unknown", raw.status, filled) ELSE ByAmount(raw.status, filled)

KucoinParseOrder(raw) ==
    IF raw.status = "done" \/ ~raw.isActive
    THEN ByAmount(raw.status, raw.filledSize)
    ELSE Report("unknown", raw.status, raw.filledSize)

HyperliquidParseOrderStatus(raw) ==
    LET filled == raw.origSz - raw.sz IN
    IF raw.status = "open" THEN Report("unknown", raw.status, filled) ELSE ByAmount(raw.status, filled)

(* The answer to the order itself names only what filled. *)
HyperliquidParseSubmit(status) ==
    IF "totalSz" \in DOMAIN status
    THEN Report(IF status.totalSz >= Req THEN "filled" ELSE "partial", "filled", status.totalSz)
    ELSE Unknown("resting")

--------------------------------------------------------------------------------
(* fetch_order: what request number k answered is the report to return, or    *)
(* None when the code asks the next endpoint.                                 *)

BinanceFetchOrder(answer) == IF IsRecord(answer) THEN BinanceParseOrder(answer.raw) ELSE StatusError(answer)

AsterFetchOrder(answer) == IF IsRecord(answer) THEN BinanceParseOrder(answer.raw) ELSE StatusError(answer)

BingxFetchOrder(answer) ==
    IF IsRecord(answer) THEN BingxParseOrder(answer.raw)
    ELSE IF answer.kind = "empty" THEN Unknown("empty") ELSE StatusError(answer)

(* Open orders first, past orders second. *)
BybitFetchOrder(k, answer) ==
    IF IsRecord(answer) THEN BybitParseOrder(answer.raw)
    ELSE IF answer.kind # "empty" THEN Unknown("error")
    ELSE IF k = 1 THEN None ELSE NotFound

BitgetFetchOrder(answer) ==
    IF IsRecord(answer) THEN BitgetParseOrder(answer.raw)
    ELSE IF answer.kind = "empty" THEN Unknown("empty") ELSE StatusError(answer)

MexcFetchOrder(answer) ==
    IF IsRecord(answer) THEN MexcParseOrder(answer.raw)
    ELSE IF answer.kind = "empty" THEN Unknown("empty") ELSE StatusError(answer)

(* By the custom id, then among the finished and then among the open orders, *)
(* of which the code reads the last hundred.                                 *)
GateFetchOrder(k, answer) ==
    IF IsRecord(answer) THEN GateParseOrder(answer.raw)
    ELSE IF answer.kind # (IF k = 1 THEN "missing" ELSE "empty") THEN Unknown("error")
    ELSE IF k < 3 THEN None ELSE NotFound

KucoinFetchOrder(answer) ==
    IF IsRecord(answer) THEN KucoinParseOrder(answer.raw)
    ELSE IF answer.kind = "empty" THEN NotFound ELSE StatusError(answer)

(* An order with a fill is asked for its fills too, for their average price. *)
HyperliquidFetchOrder(k, answer, got) ==
    IF k = 2 THEN IF IsRecord(answer) THEN got ELSE Unknown("error")
    ELSE IF IsRecord(answer) THEN HyperliquidParseOrderStatus(answer.raw)
    ELSE IF answer.kind = "missing" THEN NotFound ELSE Unknown("error")

FetchOrder(k, answer, got) ==
    CASE exchange = "binance" -> BinanceFetchOrder(answer)
      [] exchange = "aster" -> AsterFetchOrder(answer)
      [] exchange = "bingx" -> BingxFetchOrder(answer)
      [] exchange = "bybit" -> BybitFetchOrder(k, answer)
      [] exchange = "bitget" -> BitgetFetchOrder(answer)
      [] exchange = "mexc" -> MexcFetchOrder(answer)
      [] exchange = "gate" -> GateFetchOrder(k, answer)
      [] exchange = "kucoin" -> KucoinFetchOrder(answer)
      [] exchange = "hyperliquid" -> HyperliquidFetchOrder(k, answer, got)

--------------------------------------------------------------------------------
(* place_market_order: what the answer to the order itself is taken for.  The *)
(* exchanges that answer with an id only leave the order Submitted.           *)

BinancePlaceMarketOrder(answer) ==
    IF IsRecord(answer) THEN BinanceParseOrder(answer.raw) ELSE OrderError(answer)

AsterPlaceMarketOrder(answer) ==
    IF IsRecord(answer) THEN BinanceParseOrder(answer.raw) ELSE OrderError(answer)

BingxPlaceMarketOrder(answer) == IF IsRecord(answer) THEN Submitted ELSE OrderError(answer)

BybitPlaceMarketOrder(answer) == IF IsRecord(answer) THEN Submitted ELSE OrderError(answer)

BitgetPlaceMarketOrder(answer) == IF IsRecord(answer) THEN Submitted ELSE OrderError(answer)

MexcPlaceMarketOrder(answer) == IF IsRecord(answer) THEN Submitted ELSE OrderError(answer)

GatePlaceMarketOrder(answer) ==
    IF IsRecord(answer) THEN GateParseOrder(answer.raw) ELSE OrderError(answer)

KucoinPlaceMarketOrder(answer) == IF IsRecord(answer) THEN Submitted ELSE OrderError(answer)

HyperliquidPlaceMarketOrder(answer) ==
    IF IsRecord(answer) THEN HyperliquidParseSubmit(answer.raw) ELSE OrderError(answer)

PlaceMarketOrder(answer) ==
    CASE exchange = "binance" -> BinancePlaceMarketOrder(answer)
      [] exchange = "aster" -> AsterPlaceMarketOrder(answer)
      [] exchange = "bingx" -> BingxPlaceMarketOrder(answer)
      [] exchange = "bybit" -> BybitPlaceMarketOrder(answer)
      [] exchange = "bitget" -> BitgetPlaceMarketOrder(answer)
      [] exchange = "mexc" -> MexcPlaceMarketOrder(answer)
      [] exchange = "gate" -> GatePlaceMarketOrder(answer)
      [] exchange = "kucoin" -> KucoinPlaceMarketOrder(answer)
      [] exchange = "hyperliquid" -> HyperliquidPlaceMarketOrder(answer)

--------------------------------------------------------------------------------
At(stage) == call # None /\ call.at = stage

(* The exchange.  It works on an order between any two requests. *)

Arrive ==
    /\ order.state = "travelling" /\ ~At("book")
    /\ \E s \in {"live", "refused", "lost"} : order' = [order EXCEPT !.state = s]
    /\ UNCHANGED <<exchange, call, report, said, fetches>>

Match ==
    /\ order.state = "live" /\ order.filled < Req
    /\ order' = [order EXCEPT !.filled = @ + 1]
    /\ UNCHANGED <<exchange, call, report, said, fetches>>

End ==
    /\ order.state = "live"
    /\ order' = [order EXCEPT !.state = "done"]
    /\ UNCHANGED <<exchange, call, report, said, fetches>>

(* The status endpoints learn of an order some time after it was accepted. *)
Show ==
    /\ order.state \in {"live", "done"} /\ ~order.seen
    /\ order' = [order EXCEPT !.seen = TRUE]
    /\ UNCHANGED <<exchange, call, report, said, fetches>>

(* Gate forgets the custom id of a finished order after a minute. *)
Expire ==
    /\ exchange = "gate" /\ order.state = "done" /\ order.seen /\ ~order.expired
    /\ order' = [order EXCEPT !.expired = TRUE]
    /\ UNCHANGED <<exchange, call, report, said, fetches>>

(* The words of an exchange for an order that works, that filled, that ended short. *)
Word(working, full, short) ==
    IF order.state = "live" THEN working ELSE IF order.filled = Req THEN full ELSE short

Records ==
    LET f == order.filled IN
    CASE exchange \in {"binance", "aster"} ->
           [status : Word({"NEW", "PARTIALLY_FILLED"}, {"FILLED"}, {"EXPIRED", "CANCELED"}), executedQty : {f}]
      [] exchange = "bingx" ->
           [status : Word({"PENDING"}, {"FILLED"}, {"CANCELLED", "FAILED"}), executedQty : {f}]
      [] exchange = "bybit" ->
           [orderStatus : Word({"New"}, {"Filled"}, {"Cancelled", "PartiallyFilledCanceled"}), cumExecQty : {f}]
      [] exchange = "bitget" ->
           [state : Word({"live", "partially_filled"}, {"filled"}, {"canceled"}), baseVolume : {f}]
      [] exchange = "mexc" -> [state : Word({"1", "2"}, {"3"}, {"4", "5"}), dealVol : {f}]
      [] exchange = "gate" ->
           [status : Word({"open"}, {"finished"}, {"finished"}), size : {-Req, Req}, left : {Req - f, f - Req}]
      [] exchange = "kucoin" ->
           [status : Word({"open"}, {"done"}, {"done"}), isActive : {order.state = "live"}, filledSize : {f}]
      [] exchange = "hyperliquid" ->
           [status : Word({"open"}, {"filled"}, {"canceled"}), origSz : {Req}, sz : {Req - f}]

(* What a status endpoint says of an order it does not show. *)
Absences(k) ==
    LET kinds == CASE exchange \in {"binance", "aster", "hyperliquid"} -> {"missing"}
                   [] exchange = "bybit" -> {"empty"}
                   [] exchange = "gate" -> {IF k = 1 THEN "missing" ELSE "empty"}
                   [] OTHER -> {"missing", "empty"}
    IN {Failed(kind) : kind \in kinds}

(* Which endpoint shows an order the exchange lets see. *)
Shows(k) ==
    CASE exchange = "bybit" -> IF order.state = "live" THEN {k = 1} ELSE {k = 2, TRUE}
      [] exchange = "gate" -> {CASE k = 1 -> ~order.expired [] k = 2 -> order.state = "done" [] k = 3 -> order.state = "live"}
      [] OTHER -> {TRUE}

StatusAnswers(k) ==
    {Failed("cut"), Failed("refused")} \cup
    IF exchange = "hyperliquid" /\ k = 2 THEN {Record("fills")}
    ELSE UNION {IF order.seen /\ shown THEN {Record(raw) : raw \in Records} ELSE Absences(k) : shown \in Shows(k)}

ByIdOnly == {"bingx", "bybit", "bitget", "mexc", "kucoin"}

(* Hyperliquid answers an order that found nothing to match as an error. *)
OrderAnswers ==
    {Failed("cut")} \cup
    IF order.state \in {"travelling", "lost"} THEN {}
    ELSE IF order.state = "refused" THEN {Failed("refused")}
    ELSE IF exchange \in ByIdOnly THEN {Record("id")}
    ELSE IF exchange # "hyperliquid" THEN {Record(raw) : raw \in Records}
    ELSE IF order.state = "live" THEN {Record([oid |-> "resting"])}
    ELSE {IF order.filled = 0 THEN Failed("refused") ELSE Record([totalSz |-> order.filled])}

--------------------------------------------------------------------------------
(* The adapter. *)

Init ==
    /\ exchange \in Exchanges
    /\ order = [state |-> "unsent", filled |-> 0, seen |-> FALSE, expired |-> FALSE]
    /\ call = None /\ said = None /\ report = None /\ fetches = 0

Call(by, at, k, polls, sawIt, got) ==
    [by |-> by, at |-> at, k |-> k, polls |-> polls, seen |-> sawIt, got |-> got]

Return(r) == call' = None /\ said' = r /\ report' = None

(* Hyperliquid reads the book for a limit price before it sends the order. *)
StartPlace ==
    /\ call = None /\ order.state = "unsent"
    /\ order' = [order EXCEPT !.state = "travelling"]
    /\ call' = Call("place", IF exchange = "hyperliquid" THEN "book" ELSE "order", 0, 0, FALSE, None)
    /\ UNCHANGED <<exchange, report, said, fetches>>

BookRead ==
    /\ At("book")
    /\ call' = [call EXCEPT !.at = "order"]
    /\ UNCHANGED <<exchange, order, report, said, fetches>>

BookFails ==
    /\ At("book")
    /\ \E answer \in {Failed("cut"), Failed("refused")} :
           call' = [call EXCEPT !.at = "return", !.got = HyperliquidPlaceMarketOrder(answer)]
    /\ order' = [order EXCEPT !.state = "lost"]
    /\ UNCHANGED <<exchange, report, said, fetches>>

NeverSent ==
    /\ At("return")
    /\ Return(call.got)
    /\ UNCHANGED <<exchange, order, fetches>>

OrderAnswered ==
    /\ At("order")
    /\ \E answer \in OrderAnswers :
           LET r == PlaceMarketOrder(answer) IN
           IF r = Submitted /\ StatusPolls > 0
           THEN call' = [call EXCEPT !.at = "sleep"] /\ report' = r /\ UNCHANGED said
           ELSE Return(r)
    /\ UNCHANGED <<exchange, order, fetches>>

WakeAndAsk ==
    /\ At("sleep")
    /\ call' = [call EXCEPT !.at = "status", !.k = 1, !.polls = @ + 1, !.got = None]
    /\ UNCHANGED <<exchange, order, report, said, fetches>>

(* The terminal asks again while it does not know, or was told of no order. *)
StartFetch ==
    /\ call = None /\ said # None /\ (said.outcome = "unknown" \/ said = NotFound)
    /\ fetches < MaxFetches
    /\ fetches' = fetches + 1
    /\ call' = Call("fetch", "status", 1, 0, order.seen, None)
    /\ UNCHANGED <<exchange, order, report, said>>

(* Mutant: the questions after the submit believe "not found". *)
PolledBelieving(r) ==
    IF r.outcome # "unknown" \/ call.polls = StatusPolls
    THEN Return(r)
    ELSE report' = r /\ call' = [call EXCEPT !.at = "sleep"] /\ UNCHANGED said

(* The loop after an answer with an id: the order was accepted a moment ago, *)
(* so "not found" is the status endpoint lagging behind.                     *)
Polled(r) ==
    LET kept == IF r = NotFound THEN report ELSE r IN
    IF kept.outcome # "unknown" \/ call.polls = StatusPolls
    THEN Return(kept)
    ELSE report' = kept /\ call' = [call EXCEPT !.at = "sleep"] /\ UNCHANGED said

NextRequest(got) ==
    call' = [call EXCEPT !.k = @ + 1, !.got = got] /\ UNCHANGED <<report, said>>

StatusAnswered ==
    /\ At("status")
    /\ \E answer \in StatusAnswers(call.k) :
           LET r == FetchOrder(call.k, answer, call.got) IN
           IF r = None THEN NextRequest(None)
           ELSE IF exchange = "hyperliquid" /\ call.k = 1 /\ r.filled > 0 THEN NextRequest(r)
           ELSE IF call.by = "place" THEN Polled(r)
           ELSE Return(r)
    /\ UNCHANGED <<exchange, order, fetches>>

Next ==
    \/ Arrive \/ Match \/ End \/ Show \/ Expire
    \/ StartPlace \/ BookRead \/ BookFails \/ NeverSent
    \/ OrderAnswered \/ WakeAndAsk \/ StartFetch \/ StatusAnswered

Spec == Init /\ [][Next]_vars
--------------------------------------------------------------------------------
(* The promise of the contract. *)

Verdict == INSTANCE OrderVerdict WITH
    Qty <- Req,
    truth <- CASE order.state = "unsent" -> {}
               [] order.state = "done" -> {order.filled}
               [] order.state \in {"refused", "lost"} -> {0}
               [] OTHER -> 0 .. Req,
    seen <- order.seen,
    asked <- IF call = None THEN None
             ELSE IF call.by = "place" THEN "place"
             ELSE IF call.seen THEN "seen" ELSE "unseen",
    verdict <- IF said = None THEN [word |-> "nothing", units |-> 0]
               ELSE IF said = NotFound THEN [word |-> "absent", units |-> 0]
               ELSE IF said.outcome = "unknown" THEN [word |-> "unknown", units |-> 0]
               ELSE [word |-> "final", units |-> said.filled]

(* place_market_order and fetch_order of every exchange keep the promise of *)
(* the contract: only the truth or "unknown" is told of an order, whatever  *)
(* is lost and however far the order has got between two requests.          *)
ImplementsVerdict == Verdict!Spec
=============================================================================
