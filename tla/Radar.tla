--------------------------------- MODULE Radar ---------------------------------
(***************************************************************************)
(* The first pass over every pair of the catalog: the best-price ROI of a  *)
(* slice of the pairs each tick (PriceGapEngine._sync_catalog and _radar,  *)
(* core/radar.py best_price_roi).  Books are chosen by what it keeps.      *)
(*                                                                         *)
(* Fees are the same for both directions and are left out; best prices too *)
(* old to use are None.                                                    *)
(***************************************************************************)
EXTENDS Integers, FiniteSets

CONSTANTS
    Catalogs,       \* sequences of pairs the catalog may hold
    Markets,        \* best prices of both legs, and whether the pair is worth watching
    FullPass,       \* RADAR_FULL_PASS_PAIRS
    Slices,         \* RADAR_SLICES
    MostPerTick,    \* RADAR_MAX_PAIRS_PER_TICK
    MaxChanges,     \* bound: prices that move, catalogs that come
    None

VARIABLES
    catalog,        \* what the instrument service has
    legs,           \* _legs: the pairs as last taken from it
    market,
    tops,           \* _top_by_key: None where a pair has no entry
    cursor,         \* _radar_cursor
    quiet,          \* ticks since the prices of a pair, or the catalog, changed
    changes

vars == <<catalog, legs, market, tops, cursor, quiet, changes>>

PairsOf(sequence) == {sequence[i] : i \in DOMAIN sequence}

Pairs == UNION {PairsOf(c) : c \in Catalogs}

Size(sequence) == Cardinality(DOMAIN sequence)

CeilDiv(n, d) == (n + d - 1) \div d

(* best_price_roi: the direction that pays more, as what is bought and sold. *)
BestPriceRoi(a, b) ==
    IF (b.bid - a.ask) * b.ask >= (a.bid - b.ask) * a.ask
    THEN [long |-> "a", buy |-> a.ask, sell |-> b.bid]
    ELSE [long |-> "b", buy |-> b.ask, sell |-> a.bid]

RoiOf(m) == IF ~m.watched \/ m.a = None \/ m.b = None THEN None ELSE BestPriceRoi(m.a, m.b)

SliceSize(n) ==
    LET slice == CeilDiv(n, Slices)
    IN  IF slice < MostPerTick THEN slice ELSE MostPerTick

(* Mutant: the pass starts over as soon as the next slice would be the last. *)
NextCursorEarly(n, from) ==
    IF n <= FullPass \/ from + 2 * SliceSize(n) > n THEN 0 ELSE from + SliceSize(n)

(* The pairs from..from+size-1 of the list are refreshed; where the next tick goes on. *)
NextCursor(n, from) ==
    IF n <= FullPass \/ from + SliceSize(n) >= n THEN 0 ELSE from + SliceSize(n)

Batch(list, from) ==
    LET n == Size(list)
    IN  {list[i] : i \in {j \in 1 .. n : n <= FullPass \/ (j > from /\ j <= from + SliceSize(n))}}

(* _sync_catalog, then _radar: a catalog with other pairs starts the pass anew. *)
Tick ==
    LET anew == PairsOf(catalog) # PairsOf(legs)
        from == IF anew THEN 0 ELSE cursor
        kept == IF anew THEN [p \in Pairs |-> IF p \in PairsOf(catalog) THEN tops[p] ELSE None] ELSE tops
    IN  /\ legs' = catalog
        /\ IF catalog = <<>> THEN tops' = kept /\ cursor' = from
           ELSE /\ tops' = [p \in Pairs |-> IF p \in Batch(catalog, from) THEN RoiOf(market[p]) ELSE kept[p]]
                /\ cursor' = NextCursor(Size(catalog), from)
        /\ quiet' = [p \in Pairs |-> IF quiet[p] <= Size(catalog) THEN quiet[p] + 1 ELSE quiet[p]]
        /\ UNCHANGED <<catalog, market, changes>>

PricesMove(p, m) ==
    /\ changes < MaxChanges
    /\ m # market[p]
    /\ changes' = changes + 1
    /\ market' = [market EXCEPT ![p] = m]
    /\ quiet' = [quiet EXCEPT ![p] = 0]
    /\ UNCHANGED <<catalog, legs, tops, cursor>>

CatalogComes(c) ==
    /\ changes < MaxChanges
    /\ c # catalog
    /\ changes' = changes + 1
    /\ catalog' = c
    /\ quiet' = [p \in Pairs |-> 0]
    /\ UNCHANGED <<legs, market, tops, cursor>>

Init ==
    /\ catalog \in Catalogs
    /\ legs = <<>>
    /\ \E m \in Markets : market = [p \in Pairs |-> m]
    /\ tops = [p \in Pairs |-> None]
    /\ cursor = 0
    /\ quiet = [p \in Pairs |-> 0]
    /\ changes = 0

Next ==
    \/ Tick
    \/ \E p \in Pairs, m \in Markets : PricesMove(p, m)
    \/ \E c \in Catalogs : CatalogComes(c)

Spec == Init /\ [][Next]_vars
--------------------------------------------------------------------------------
(* Ticks a whole pass takes. *)
Round(n) == IF n <= FullPass THEN 1 ELSE CeilDiv(n, SliceSize(n))

(* The doc of _radar: a tick refreshes a slice, yet each pair is refreshed in   *)
(* time.  A pair whose prices stood still for one whole pass is ranked by those *)
(* prices, wherever in the list it is and however the slices fell.              *)
TopsFollowPrices ==
    \A p \in PairsOf(catalog) : quiet[p] >= Round(Size(catalog)) => tops[p] = RoiOf(market[p])
================================================================================
