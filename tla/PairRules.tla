------------------------------- MODULE PairRules -------------------------------
(***************************************************************************)
(* core/pairs.py and the verdicts of core/symbols.py: which contracts of   *)
(* two exchanges form a pair, and whether the pair can be trusted.  Prices *)
(* are whole numbers; a contract is quoted per price unit, a pair compares *)
(* prices per token.  Percentages are compared by cross-multiplication.    *)
(***************************************************************************)
EXTENDS Integers, FiniteSets, Sequences

CONSTANTS
    None,
    MaxPriceGapPct,     \* widest gap of two prices of one asset
    MaxIndexGapPct,     \* widest gap of two indices of one asset
    RenamePerMille,     \* widest gap of two indices for a contract to be renamed, in 1/1000
    Affixes             \* for every token, the longer names that begin or end with it

Contract(exchange, symbol, token, unit) ==
    [exchange |-> exchange, symbol |-> symbol, token |-> token, unit |-> unit]

(* Quote.mid and per_token, in units of a thousandth of a token's price; the *)
(* mid of a book is taken as one number.                                     *)
Scale == 1000

PerToken(price, contract) ==
    IF price = None THEN None ELSE IF price <= 0 THEN None ELSE (price * Scale) \div contract.unit

Mid(quote) == IF quote.mid # None THEN quote.mid ELSE quote.mark

(* price_gap_pct(x, y) > pct, with the gap in units of one part of base. *)
GapExceeds(x, y, parts, base) ==
    LET low == IF x <= y THEN x ELSE y
        high == IF x <= y THEN y ELSE x
    IN  (high - low) * base > low * parts

(* _index_per_token: the index, or the mark of a venue that publishes none. *)
IndexPerToken(contract, quote) ==
    IF quote = None THEN None
    ELSE PerToken(IF quote.index # None /\ quote.index > 0 THEN quote.index ELSE quote.mark, contract)

(* same_asset_verdict: what speaks against two contracts being one asset. *)
SameAssetVerdict(indexA, indexB) ==
    IF indexA = None \/ indexB = None THEN "index_missing"
    ELSE IF GapExceeds(indexA, indexB, MaxIndexGapPct, 100) THEN "index_mismatch"
    ELSE None

(* assess_pair: a venue without an index is compared by its mark price, but  *)
(* two marks prove nothing.                                                  *)
OwnIndex(contract, quote) == IF quote = None THEN None ELSE PerToken(quote.index, contract)

IndexToCompare(contract, quote, other) ==
    IF OwnIndex(contract, quote) = None /\ other # None /\ quote # None
    THEN PerToken(quote.mark, contract) ELSE OwnIndex(contract, quote)

SuspiciousReason(a, b, quoteA, quoteB) ==
    LET priceA == IF quoteA = None THEN None ELSE PerToken(Mid(quoteA), a)
        priceB == IF quoteB = None THEN None ELSE PerToken(Mid(quoteB), b)
    IN  IF priceA = None \/ priceB = None THEN "quote_missing"
        ELSE IF GapExceeds(priceA, priceB, MaxPriceGapPct, 100) THEN "price_mismatch"
        ELSE SameAssetVerdict(IndexToCompare(a, quoteA, OwnIndex(b, quoteB)),
                              IndexToCompare(b, quoteB, OwnIndex(a, quoteA)))

(* venues_of: the exchanges that use a name. *)
VenuesOf(contracts, token) == {c.exchange : c \in {d \in contracts : d.token = token}}

(* _name_of_the_market: the best established shorter name that is priced the same. *)
NameOfTheMarket(contract, contracts, index) ==
    LET mine == index[contract]
        others(token) ==
            {c \in contracts : /\ c.token = token /\ c.exchange # contract.exchange
                               /\ index[c] # None
                               /\ ~GapExceeds(mine, index[c], RenamePerMille, 1000)}
        names == {t \in {c.token : c \in contracts} : contract.token \in Affixes[t] /\ others(t) # {}}
    IN  IF mine = None \/ names = {} THEN contract.token
        ELSE CHOOSE t \in names :
                \A u \in names : Cardinality(VenuesOf(contracts, t)) >= Cardinality(VenuesOf(contracts, u))

(* rename_lonely_contracts: only a name no other exchange uses is given up. *)
RenameLonely(contracts, index) ==
    {[c EXCEPT !.token = IF Cardinality(VenuesOf(contracts, c.token)) > 1 THEN @
                         ELSE NameOfTheMarket(c, contracts, index)] : c \in contracts}

(* match_all: every two contracts of one token on two exchanges, the exchange *)
(* that comes first in the fixed order as leg a.                              *)
Before(order, x, y) == \E i, j \in 1 .. Len(order) : i < j /\ order[i] = x /\ order[j] = y

MatchAll(contracts, order) ==
    {legs \in contracts \X contracts :
        legs[1].token = legs[2].token /\ Before(order, legs[1].exchange, legs[2].exchange)}
================================================================================
