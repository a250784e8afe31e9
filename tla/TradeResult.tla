------------------------------ MODULE TradeResult ------------------------------
(***************************************************************************)
(* What the row of a trade says was earned (_close, _settle and close_leg  *)
(* of app/execution/service.py, run_funding of app/portfolio/service.py,   *)
(* settle of core/portfolio.py): several clicks may be needed to close a   *)
(* pair, and funding is fetched meanwhile.                                 *)
(*                                                                         *)
(* A unit of a leg costs FeePerUnit to close, all closings of a leg get    *)
(* one price, every order is answered and no position leaves but by an     *)
(* order of the terminal: each makes a right result easier to reach.       *)
(***************************************************************************)
EXTENDS Integers

CONSTANTS
    Qty,            \* of each leg, in units
    EntryFees,      \* paid when the pair was opened
    FeePerUnit,
    MovesUsd,       \* what the price moves of both legs made
    CloseAttempts,  \* close_attempts
    Buttons,        \* bound: the buttons pressed, "pair" and "leg"
    MaxClicks,      \* bound: how often
    MaxPayments,    \* bound: funding payments
    None

VARIABLES
    position,       \* on the exchanges: what is left of each leg
    paidFees,       \* on the exchanges: all fees of the trade
    funded,         \* on the exchanges: the funding of each leg so far
    row,            \* the Trade, as last saved
    closing,        \* the click under way, None between clicks
    fetched,        \* the run_funding pass under way: the long leg's funding
    clicks, payments

exchangeVars == <<position, paidFees, funded, payments>>
vars == <<exchangeVars, row, closing, fetched, clicks>>

Sides == {"long", "short"}

Both(amounts) == amounts["long"] + amounts["short"]

FeeUsd(filled) == FeePerUnit * filled

(* _fees_of; fills that could not be fetched are estimated, here just as well. *)
FeesOf(closes) == Both([s \in Sides |-> FeeUsd(closes[s])])

(* weighted_price has a value: something of the leg was filled by these orders. *)
HasExitPrice(closes, s) == closes[s] > 0

Flat == position = [s \in Sides |-> 0]

(* settle: price moves of both legs, minus all fees, plus funding. *)
Settle(fees, funding) == MovesUsd - fees + funding

Init ==
    /\ position = [s \in Sides |-> Qty]
    /\ paidFees = EntryFees
    /\ funded = [s \in Sides |-> 0]
    /\ row = [status |-> "open", fees |-> EntryFees, funding |-> 0, net |-> None]
    /\ closing = None
    /\ fetched = None
    /\ clicks = 0
    /\ payments = 0
--------------------------------------------------------------------------------
(* close_pair: `closes`, the orders of this click, starts empty. *)
Click(status, button, legs) ==
    /\ clicks < MaxClicks
    /\ button \in Buttons
    /\ closing = None
    /\ row.status # "closed"
    /\ clicks' = clicks + 1
    /\ row' = [row EXCEPT !.status = status]
    /\ closing' = [button |-> button, legs |-> legs, previous |-> row.status, attempt |-> 1,
                   closes |-> [s \in Sides |-> 0], stage |-> "send", longFunding |-> None]
    /\ UNCHANGED <<exchangeVars, fetched>>

ClosePair == row.status # "closing" /\ Click("closing", "pair", Sides)

(* close_leg: a status is neither asked nor set. *)
CloseLeg(side) == Click(row.status, "leg", {side})

(* Fresh positions, and an order for what is left of each leg: some of it is filled. *)
SendCloses ==
    /\ closing # None /\ closing.stage = "send"
    /\ \E filled \in [Sides -> 0 .. Qty] :
         /\ \A s \in Sides : filled[s] <= IF s \in closing.legs THEN position[s] ELSE 0
         /\ position' = [s \in Sides |-> position[s] - filled[s]]
         /\ paidFees' = paidFees + FeesOf(filled)
         /\ closing' = [closing EXCEPT !.closes = [s \in Sides |-> @[s] + filled[s]], !.stage = "judge"]
    /\ UNCHANGED <<funded, payments, row, fetched, clicks>>

GiveUp(status) ==
    /\ row' = [row EXCEPT !.status = status]
    /\ closing' = None
    /\ UNCHANGED <<exchangeVars, fetched, clicks>>

(* No fresh positions: before the orders of an attempt, or after. *)
PositionsUnknown ==
    /\ closing # None
    /\ \/ closing.stage = "send" /\ GiveUp(closing.previous)
       \/ closing.stage = "judge" /\ GiveUp(IF closing.button = "pair" THEN "leg_lost" ELSE row.status)

TryAgain ==
    /\ closing # None /\ closing.stage = "judge" /\ closing.button = "pair"
    /\ ~Flat
    /\ closing.attempt < CloseAttempts
    /\ closing' = [closing EXCEPT !.attempt = @ + 1, !.stage = "send"]
    /\ UNCHANGED <<exchangeVars, row, fetched, clicks>>

(* leg_close_failed; or one leg is closed and the other is still there. *)
LegStays ==
    /\ closing # None /\ closing.stage = "judge"
    /\ ~Flat
    /\ \/ closing.button = "pair" /\ closing.attempt = CloseAttempts /\ GiveUp("leg_lost")
       \/ closing.button = "leg" /\ GiveUp(row.status)

(* close_leg found both legs gone: the fees of its own order, and no result. *)
LegDone ==
    /\ closing # None /\ closing.stage = "judge" /\ closing.button = "leg"
    /\ Flat
    /\ row' = [row EXCEPT !.status = "closed", !.fees = @ + FeesOf(closing.closes)]
    /\ closing' = None
    /\ UNCHANGED <<exchangeVars, fetched, clicks>>

(* _settle: the funding of the long leg is asked for, then that of the short. *)
SettleLong ==
    /\ closing # None /\ closing.stage = "judge" /\ closing.button = "pair"
    /\ Flat
    /\ closing' = [closing EXCEPT !.stage = "settle", !.longFunding = funded["long"]]
    /\ UNCHANGED <<exchangeVars, row, fetched, clicks>>

(* A result needs an exit price of both legs, from the orders of this click. *)
SettleDone ==
    /\ closing # None /\ closing.stage = "settle"
    /\ \E answered \in BOOLEAN :
         LET funding == IF answered THEN closing.longFunding + funded["short"] ELSE row.funding
             fees    == row.fees + FeesOf(closing.closes)
             priced  == \A s \in Sides : HasExitPrice(closing.closes, s)
         IN  row' = [status |-> "closed", fees |-> fees, funding |-> funding,
                     net |-> IF priced THEN Settle(fees, funding) ELSE row.net]
    /\ closing' = None
    /\ UNCHANGED <<exchangeVars, fetched, clicks>>
--------------------------------------------------------------------------------
(* run_funding: it keeps the Trade over two answers and asks its status once, before. *)
FetchFunding ==
    /\ fetched = None
    /\ row.status # "closed"
    /\ fetched' = funded["long"]
    /\ UNCHANGED <<exchangeVars, row, closing, clicks>>

FundingFetched ==
    /\ fetched # None
    /\ row' = [row EXCEPT !.funding = fetched + funded["short"]]
    /\ fetched' = None
    /\ UNCHANGED <<exchangeVars, closing, clicks>>

FundingFails ==
    /\ fetched # None
    /\ fetched' = None
    /\ UNCHANGED <<exchangeVars, row, closing, clicks>>

FundingPaid(side) ==
    /\ payments < MaxPayments
    /\ position[side] > 0
    /\ payments' = payments + 1
    /\ funded' = [funded EXCEPT ![side] = @ + 1]
    /\ UNCHANGED <<position, paidFees, row, closing, fetched, clicks>>

Next ==
    \/ ClosePair \/ SendCloses \/ PositionsUnknown \/ TryAgain \/ LegStays \/ LegDone \/ SettleLong \/ SettleDone
    \/ FetchFunding \/ FundingFetched \/ FundingFails
    \/ \E side \in Sides : CloseLeg(side) \/ FundingPaid(side)

Spec == Init /\ [][Next]_vars
--------------------------------------------------------------------------------
(* docs/PLAN.md 9.4: three more attempts, then the status "leg lost" and the   *)
(* button that closes a leg; "after closing the actual fees and the funding    *)
(* are fetched, the PnL is fixed in the database".  So a pair that the         *)
(* terminal closed, with however many clicks, has its result, all fees in it.  *)
ResultIsFixed == row.status = "closed" => row.net # None /\ row.fees = paidFees

(* core/portfolio.py, settle: the realized result is the price moves of both   *)
(* legs, minus all fees, plus funding.  So the row of a pair adds up, also     *)
(* when run_funding still held the trade while it was settled.                 *)
RowAddsUp == row.net # None => row.net = Settle(row.fees, row.funding)
================================================================================
