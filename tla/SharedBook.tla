------------------------------ MODULE SharedBook ------------------------------
(***************************************************************************)
(* The order book of one contract that several pairs share: the engine     *)
(* takes pairs in and drops them, asks whether the book may be trusted     *)
(* (leg_fresh of core/radar.py) and subscribes again when it went silent   *)
(* (_choose and _measure of strategies/price_gap/engine.py).  Exchanges    *)
(* push a book on change only; best prices come on a channel of their own. *)
(*                                                                         *)
(* Time is counted in ticks of the engine.  Streams has the subscription.  *)
(* Not for Hyperliquid and Variational, whose books are fresh up to limits *)
(* of their own and are not subscribed again (engine.py 407).              *)
(***************************************************************************)
EXTENDS Integers

CONSTANTS
    Pairs,              \* pairs with the contract as a leg
    Prices,
    FreshTicks,         \* fresh_ms
    QuietTicks,         \* quiet_book_max_ms
    ResubscribeAfter,   \* resubscribe_after_ms
    Cooldown,           \* RESUBSCRIBE_COOLDOWN_MS
    MaxChoices,         \* bound: changes of the chosen pairs
    MaxFreezes,         \* bound: times a source stops while its connection stays open
    None

VARIABLES
    price,      \* on the exchange
    since,      \* ticks since a price was the price there
    book,       \* the book kept: price and age, None without one
    top,        \* the best price last told, None before the first
    chosen,     \* _books: the pairs with books, and for how long
    due,        \* a subscription is made whose first snapshot has not come
    frozen,     \* sources that stopped: "book", "top"
    rested,     \* ticks since _resubscribed_at
    choices, freezes

vars == <<price, since, book, top, chosen, due, frozen, rested, choices, freezes>>

Sources == {"book", "top"}

UpTo(limit, n) == IF n > limit THEN limit ELSE n

Watched == DOMAIN chosen # {}

Snapshot == [price |-> price, age |-> 0]

Init ==
    /\ price \in Prices
    /\ since = [p \in Prices |-> IF p = price THEN 0 ELSE FreshTicks + 1]
    /\ book = None
    /\ top = None
    /\ chosen = <<>>
    /\ due = FALSE
    /\ frozen = {}
    /\ rested = Cooldown + 1
    /\ choices = 0
    /\ freezes = 0
--------------------------------------------------------------------------------
(* leg_fresh.  Mutant: a quiet book is trusted without its best prices. *)
LegFreshAlone(kept, best) == kept # None /\ kept.age <= QuietTicks

LegFresh(kept, best) ==
    /\ kept # None
    /\ \/ kept.age <= FreshTicks
       \/ kept.age <= QuietTicks /\ best = kept.price

(* _measure: the contract is lost to a pair.  Mutant: only a book can be too old. *)
LostWhenOld(kept, held) == kept # None /\ kept.age > QuietTicks

Lost(kept, held) ==
    \/ kept = None /\ held > ResubscribeAfter
    \/ kept # None /\ kept.age > QuietTicks

Aged == IF book = None THEN None ELSE [book EXCEPT !.age = UpTo(QuietTicks + 1, @ + 1)]

(* set_top, before every tick. *)
SetTop == IF "top" \in frozen THEN top ELSE price

(* choose_books: who stays keeps the time of its choice. *)
Holds(next) ==
    [p \in next |-> IF p \in DOMAIN chosen THEN UpTo(ResubscribeAfter + 1, chosen[p] + 1) ELSE 0]

(* A pair that goes takes the book along, whoever else has the contract. *)
BookAfter(next) == IF DOMAIN chosen \subseteq next THEN Aged ELSE None

(* tick: _choose, now and then with another result, and _measure of every chosen pair. *)
Tick(next) ==
    LET kept  == BookAfter(next)
        held  == Holds(next)
        again == /\ \E p \in next : Lost(kept, held[p])
                 /\ rested + 1 > Cooldown
        begins == next # {} /\ ~Watched
    IN  /\ next # DOMAIN chosen => choices < MaxChoices
        /\ choices' = IF next # DOMAIN chosen THEN choices + 1 ELSE choices
        /\ chosen' = held
        /\ book' = kept
        /\ rested' = IF again THEN 0 ELSE UpTo(Cooldown + 1, rested + 1)
        /\ due' = (next # {} /\ (due \/ begins \/ again))
        /\ frozen' = IF begins \/ again THEN frozen \ {"book"} ELSE frozen
        /\ top' = SetTop
        /\ since' = [p \in Prices |-> IF p = price THEN 0 ELSE UpTo(FreshTicks + 1, since[p] + 1)]
        /\ UNCHANGED <<price, freezes>>

Streaming == Watched /\ ~due /\ "book" \notin frozen

(* The exchange's book changes, and who is subscribed is told. *)
PriceMoves(p) ==
    /\ p # price
    /\ price' = p
    /\ since' = [since EXCEPT ![p] = 0]
    /\ book' = IF Streaming THEN [price |-> p, age |-> 0] ELSE book
    /\ UNCHANGED <<top, chosen, due, frozen, rested, choices, freezes>>

(* The first snapshot of a subscription; set_book. *)
SetBook ==
    /\ due /\ "book" \notin frozen
    /\ book' = Snapshot
    /\ due' = FALSE
    /\ UNCHANGED <<price, since, top, chosen, frozen, rested, choices, freezes>>

(* A frame that was under way when the contract was given up. *)
LateFrame ==
    /\ ~Watched
    /\ choices < MaxChoices
    /\ book' = Snapshot
    /\ UNCHANGED <<price, since, top, chosen, due, frozen, rested, choices, freezes>>

Freeze(source) ==
    /\ source \notin frozen
    /\ freezes < MaxFreezes
    /\ freezes' = freezes + 1
    /\ frozen' = frozen \cup {source}
    /\ UNCHANGED <<price, since, book, top, chosen, due, rested, choices>>

Next ==
    \/ \E next \in SUBSET Pairs : Tick(next)
    \/ \E p \in Prices : PriceMoves(p)
    \/ SetBook
    \/ LateFrame
    \/ \E source \in Sources : Freeze(source)

Spec == Init /\ [][Next]_vars

(* The engine ticks, and a subscription made is answered. *)
Ticks == \E next \in SUBSET Pairs : Tick(next)

Fairness == WF_vars(Ticks) /\ WF_vars(SetBook)

FairSpec == Spec /\ Fairness
--------------------------------------------------------------------------------
(* The doc of leg_fresh: prices that differ mean that one of the two sources   *)
(* stopped.  So as long as one of them is alive, a leg counted fresh has a     *)
(* price the exchange had within fresh_ms, however old its book is.            *)
FreshIsTrue ==
    LET blind == "top" \in frozen /\ (due \/ "book" \in frozen)
    IN  Watched /\ ~blind /\ LegFresh(book, top) => since[book.price] <= FreshTicks

(* _measure, resubscribe: a contract somebody watches does not stay without a  *)
(* usable book.  Neither a pair that drops the book of the contract it shared, *)
(* nor a silent stream, is the end of it.                                      *)
WatchedHasBook ==
    Watched ~> ~Watched \/ (book # None /\ book.age <= QuietTicks)

(* What drop_book may be taken to promise: it does not reach the book of a     *)
(* contract that another chosen pair still uses.                               *)
SharedBookStays == [][Watched /\ book # None /\ Watched' => book' # None]_vars
================================================================================
