-------------------------------- MODULE BookMath --------------------------------
(***************************************************************************)
(* What two order books say of a pair: core/vwap.py walks one side,        *)
(* core/roi.py compares the two legs and finds how much the books carry.   *)
(* A book side is a sequence of levels, best first.  Averages are kept as  *)
(* costs, so that two of them are compared without dividing; percents are  *)
(* of Unit.                                                                *)
(***************************************************************************)
EXTENDS Integers, Sequences, FiniteSetsExt

CONSTANTS
    Prices, Quantities,     \* of a level
    MaxLevels,              \* of a book side
    StepSizes,              \* common steps of a pair
    Thresholds,             \* least net result plus the fees of a round trip
    Unit,                   \* what stands for a hundred percent
    None

VARIABLES
    asks, bids,     \* asks of the long leg, bids of the short leg
    asked           \* what was asked of them, and between what the answer lies

vars == <<asks, bids, asked>>

Sums(a) ==
    LET sum[i \in 0 .. Len(a)] == IF i = 0 THEN 0 ELSE sum[i - 1] + a[i]
    IN  sum

(* _Totals: running quantity and cost, from nothing to the whole side. *)
Totals(levels) ==
    [qty |-> Sums([i \in DOMAIN levels |-> levels[i].qty]),
     cost |-> Sums([i \in DOMAIN levels |-> levels[i].qty * levels[i].price])]

Depth(levels) == Totals(levels).qty[Len(levels)]

(* vwap.walk: what the quantity costs, None when the book is too thin. *)
Walk(levels, quantity) ==
    LET walked[i \in 0 .. Len(levels)] ==
            IF i = 0 THEN [left |-> quantity, cost |-> 0]
            ELSE LET part == Min({walked[i - 1].left, levels[i].qty})
                 IN  [left |-> walked[i - 1].left - part,
                      cost |-> walked[i - 1].cost + part * levels[i].price]
        end == walked[Len(levels)]
    IN  IF end.left = 0 THEN end.cost ELSE None

(* gross_pct less a threshold, for two costs of the same quantity. *)
Pays(buy, sell, threshold) == (sell - buy) * Unit >= threshold * buy

(* entry_quote *)
EntryQuote(quantity) ==
    LET buy == Walk(asks, quantity)
        sell == Walk(bids, quantity)
    IN  IF buy = None \/ sell = None THEN None ELSE [buy |-> buy, sell |-> sell]
--------------------------------------------------------------------------------
(* Mutant: the whole quantity is priced at the level it ends in. *)
CostAtLevel(levels, quantity) ==
    LET totals == Totals(levels)
        index == Min({i \in 0 .. Len(levels) : totals.qty[i] >= quantity})
    IN  quantity * levels[index].price

(* _Totals.avg_price, times the quantity *)
CostOf(levels, quantity) ==
    LET totals == Totals(levels)
        index == Min({i \in 0 .. Len(levels) : totals.qty[i] >= quantity})
    IN  IF totals.qty[index] = quantity THEN totals.cost[index]
        ELSE totals.cost[index - 1] + (quantity - totals.qty[index - 1]) * levels[index].price
--------------------------------------------------------------------------------
Sides(Sorted(_, _)) ==
    {levels \in UNION {[1 .. n -> [price : Prices, qty : Quantities]] : n \in 0 .. MaxLevels} :
        \A i \in 1 .. Len(levels) - 1 : Sorted(levels[i].price, levels[i + 1].price)}

Init ==
    /\ asks \in Sides(LAMBDA p, q : p < q)
    /\ bids \in Sides(LAMBDA p, q : p > q)
    /\ asked = None

(* capacity_tokens: a binary search over the multiples of the step. *)
AskCapacity ==
    /\ asked = None
    /\ \E step \in StepSizes, threshold \in Thresholds :
         asked' = [step |-> step, threshold |-> threshold,
                   low |-> 0, high |-> Min({Depth(asks), Depth(bids)}) \div step]
    /\ UNCHANGED <<asks, bids>>

Probe ==
    /\ asked # None
    /\ asked.low < asked.high
    /\ LET middle == (asked.low + asked.high + 1) \div 2
           quantity == asked.step * middle
       IN  asked' = IF Pays(CostOf(asks, quantity), CostOf(bids, quantity), asked.threshold)
                    THEN [asked EXCEPT !.low = middle]
                    ELSE [asked EXCEPT !.high = middle - 1]
    /\ UNCHANGED <<asks, bids>>

Next == AskCapacity \/ Probe

Spec == Init /\ [][Next]_vars
--------------------------------------------------------------------------------
(* Both books fill the quantity with the net result at the threshold. *)
Fits(quantity, threshold) ==
    LET quote == EntryQuote(quantity)
    IN  quote # None /\ Pays(quote.buy, quote.sell, threshold)

(* core/roi.py: the capacity of a pair is the largest multiple of the common   *)
(* step that both books fill with the net result still at the threshold; no    *)
(* larger quantity passes, although only some of them were tried.               *)
CapacityIsLargest ==
    asked # None /\ asked.low >= asked.high =>
        /\ asked.low > 0 => Fits(asked.step * asked.low, asked.threshold)
        /\ \A k \in asked.low + 1 .. Depth(asks) \div asked.step : ~Fits(asked.step * k, asked.threshold)
================================================================================
