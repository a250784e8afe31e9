------------------------------ MODULE Execution ------------------------------
(***************************************************************************)
(* One token pair from the click that opens it to the record that closes   *)
(* it: the asyncio tasks of app/execution/service.py (the opener, the      *)
(* background resolver it may become, and the closer), the position poller *)
(* of app/portfolio/service.py and the two exchanges the legs live on.     *)
(*                                                                         *)
(* Every action is the code between two awaits.  The event loop runs one   *)
(* task at a time, so such a stretch is atomic; any other task, and the    *)
(* exchanges, may act between two of them.                                 *)
(***************************************************************************)
EXTENDS Legs, FiniteSets

CONSTANTS
    Requested,              \* tokens of each leg, qty of the clicked quote
    Step,                   \* common_step_tokens of the pair
    MinQty,                 \* the larger minimum of the two exchanges
    StatusAttempts,         \* settings.status_query_attempts
    BackgroundRounds,       \* BACKGROUND_RESOLVE_LIMIT_S / ..._INTERVAL_S
    CloseAttempts,          \* settings.close_attempts
    NotFoundConfirmations,  \* NOT_FOUND_CONFIRMATIONS
    MissingPollsForLost,    \* MISSING_POLLS_FOR_LOST
    UserActions,            \* which buttons the user may press
    LoadOutcomes,           \* whether the database is ready when the terminal starts
    MaxLiquidations,        \* bound: legs the exchange may take away
    MaxRestarts             \* bound: restarts of the terminal

ASSUME QtyAssumption ==
    /\ Requested \in Nat \ {0}
    /\ Step \in Nat \ {0}
    /\ MinQty \in Nat

ASSUME AttemptsAssumption ==
    /\ StatusAttempts \in Nat
    /\ BackgroundRounds \in Nat \ {0}
    /\ CloseAttempts \in Nat \ {0}
    /\ NotFoundConfirmations \in Nat \ {0}
    /\ MissingPollsForLost \in Nat \ {0}

ASSUME EnvironmentAssumption ==
    /\ UserActions \subseteq {"close_pair", "close_leg", "close_record"}
    /\ LoadOutcomes \subseteq BOOLEAN
    /\ MaxLiquidations \in Nat
    /\ MaxRestarts \in Nat

Slots == {"open", "fix", "close"} \X Sides
Entry == {"open"} \X Sides
Exit  == {"close"} \X Sides
OpenerSlots == {"open", "fix"} \X Sides

ActiveStatuses == {"opening", "open", "closing", "leg_lost"}
FinalStatuses  == {"closed", "leg_failed"}

VARIABLES
    trade,       \* the Trade object: status, qty, missing_polls
    visible,     \* the pair is in portfolio.trades
    row,         \* status of the trade's last row handed to the write queue
    pos,         \* the position each exchange really holds
    order,       \* each market order as the exchange knows it
    ticket,      \* each OrderTicket as the terminal knows it
    opener,      \* the open_pair task, later _keep_resolving
    closer,      \* the close_pair or close_leg task
    busy,        \* which task holds the token in _busy
    alarmed,     \* a CRITICAL event about the pair was emitted
    liquidated,  \* legs taken away by the exchange so far
    restarts     \* restarts so far

tradeVars == <<trade, visible, row, alarmed>>
envVars   == <<liquidated, restarts>>
vars == <<tradeVars, pos, order, ticket, opener, closer, busy, envVars>>

-----------------------------------------------------------------------------
(* Orders and tickets *)

NoOrder  == [net |-> "none", qty |-> 0, filled |-> 0]
NoTicket == [outcome |-> "none", filled |-> 0, notFound |-> 0, tries |-> 0]

Travelling(qty) == [net |-> "travelling", qty |-> qty, filled |-> 0]
Sent == [NoTicket EXCEPT !.outcome = "sent"]

(* place_market_order hands the orders of slots to the exchanges. *)
Send(slots, qty) ==
    /\ order'  = [x \in Slots |-> IF x \in slots THEN Travelling(qty[x[2]]) ELSE order[x]]
    /\ ticket' = [x \in Slots |-> IF x \in slots THEN Sent ELSE ticket[x]]

OutcomeOf(o) == IF o.filled = o.qty THEN "filled"
                ELSE IF o.filled > 0 THEN "partial" ELSE "rejected"

(* Both coroutines of a gather are done: no answer outstanding and nothing left to query. *)
Settled(slots) ==
    \A x \in slots : /\ ticket[x].outcome # "sent"
                     /\ ticket[x].outcome = "unknown" => ticket[x].tries = 0

Unresolved(slots) == \E x \in slots : ticket[x].outcome = "unknown"

(* The tickets are locals of their task and go with it. *)
Forget(slots) == ticket' = [x \in Slots |-> IF x \in slots THEN NoTicket ELSE ticket[x]]

(* A new round of queries for the tickets whose outcome is still unknown. *)
AskAgain(tries) ==
    ticket' = [x \in Slots |->
                 IF x \in Entry /\ ticket[x].outcome = "unknown"
                 THEN [ticket[x] EXCEPT !.tries = tries] ELSE ticket[x]]

-----------------------------------------------------------------------------
(* The exchanges *)

(* The order reaches the matching engine and fills f tokens: an opening
   order any part of its quantity, a reduce-only order at most the position.
   f = 0 is a rejected order, or one that never arrived. *)
Land(x) ==
    LET side == x[2]
        most == IF x \in Entry THEN order[x].qty ELSE Lesser(order[x].qty, pos[side])
    IN /\ order[x].net = "travelling"
       /\ \E f \in 0 .. most :
            /\ order' = [order EXCEPT ![x].net = "done", ![x].filled = f]
            /\ pos' = [pos EXCEPT ![side] = IF x \in Entry THEN @ + f ELSE @ - f]
       /\ UNCHANGED <<tradeVars, ticket, opener, closer, busy, envVars>>

(* A leg is liquidated, or closed by hand on the exchange. *)
Liquidate(side) ==
    /\ liquidated < MaxLiquidations
    /\ pos[side] > 0
    /\ pos' = [pos EXCEPT ![side] = 0]
    /\ liquidated' = liquidated + 1
    /\ UNCHANGED <<tradeVars, order, ticket, opener, closer, busy, restarts>>

-----------------------------------------------------------------------------
(* _send and _resolve *)

Learn(x, t) ==
    /\ ticket' = [ticket EXCEPT ![x] = t]
    /\ UNCHANGED <<tradeVars, pos, order, opener, closer, busy, envVars>>

Known(x) == [NoTicket EXCEPT !.outcome = OutcomeOf(order[x]), !.filled = order[x].filled]

(* The exchange answers the placement with what became of the order. *)
Acknowledge(x) ==
    /\ ticket[x].outcome = "sent"
    /\ order[x].net = "done"
    /\ Learn(x, Known(x))

(* No usable answer: a timeout, or an answer that does not tell the outcome. *)
TimeOut(x) ==
    /\ ticket[x].outcome = "sent"
    /\ Learn(x, [NoTicket EXCEPT !.outcome = "unknown", !.tries = StatusAttempts])

(* Mutant: status queries without a limit. *)
CanAlwaysQuery(x) ==
    /\ ticket[x].outcome = "unknown"
    /\ \A s \in Sides : ticket[<<x[1], s>>].outcome # "sent"

CanQuery(x) ==
    /\ ticket[x].outcome = "unknown"
    /\ ticket[x].tries > 0
    /\ \A s \in Sides : ticket[<<x[1], s>>].outcome # "sent"

(* fetch_order tells what became of the order. *)
QueryFound(x) ==
    /\ CanQuery(x)
    /\ order[x].net = "done"
    /\ Learn(x, Known(x))

(* Mutant: the first answer not_found is believed. *)
BelievedAtOnce(x) == TRUE

(* not_found is final once it was answered NotFoundConfirmations times in a row. *)
Confirmed(x) == ticket[x].notFound + 1 >= NotFoundConfirmations

(* fetch_order does not know the order.  It may still be travelling, but not
   any more when the last confirmation is given: the bet the code makes. *)
QueryNotFound(x) ==
    /\ CanQuery(x)
    /\ order[x].filled = 0
    /\ order[x].net = "travelling" => ticket[x].notFound + 1 < NotFoundConfirmations
    /\ Learn(x, IF Confirmed(x)
                THEN [NoTicket EXCEPT !.outcome = "rejected"]
                ELSE [ticket[x] EXCEPT !.notFound = @ + 1, !.tries = @ - 1])

(* The query fails, or the order is reported as still working. *)
QueryUnclear(x) ==
    /\ CanQuery(x)
    /\ Learn(x, [ticket[x] EXCEPT !.notFound = 0, !.tries = @ - 1])

-----------------------------------------------------------------------------
(* open_pair, _decide_open and _keep_resolving *)

Returned == [pc |-> "done", plan |-> QueryPlan, rounds |-> 0]

Release(task) == busy' = IF busy = task THEN "none" ELSE busy

OpenPair ==
    /\ opener.pc = "idle"
    /\ busy = "none"
    /\ trade' = [status |-> "opening", qty |-> Requested, missing |-> 0]
    /\ visible' = TRUE
    /\ row' = "opening"
    /\ Send(Entry, [s \in Sides |-> Requested])
    /\ opener' = [opener EXCEPT !.pc = "waiting"]
    /\ busy' = "opener"
    /\ UNCHANGED <<alarmed, pos, closer, envVars>>

EntryPlan ==
    DecideOpen(ticket[<<"open", "long">>], ticket[<<"open", "short">>],
               trade.qty, Step, MinQty)

(* The Mark... and RaiseAlert that end a plan; status is the trade's by then. *)
Conclude(plan, status, saved, raised) ==
    LET marked == IF status = "leg_lost" THEN status
                  ELSE IF plan.mark = "open" THEN "open" ELSE "leg_failed"
    IN /\ trade' = [trade EXCEPT !.status = marked,
                                 !.qty = IF plan.mark = "open" THEN plan.qty ELSE @]
       /\ visible' = (visible /\ marked # "leg_failed")
       /\ row' = IF plan.mark = "failed" /\ marked = "leg_lost" THEN saved ELSE marked
       /\ alarmed' = (raised \/ plan.alert = "critical")
       /\ opener' = [opener EXCEPT !.pc = "collecting", !.plan = plan]
       /\ UNCHANGED <<order, ticket>>

(* The loop of _decide_open: one reduce-only order after the other, then the marks. *)
Follow(plan, status, saved, raised) ==
    IF plan.fixes = <<>>
    THEN Conclude(plan, status, saved, raised)
    ELSE /\ Send({<<"fix", Head(plan.fixes).side>>}, [s \in Sides |-> Head(plan.fixes).qty])
         /\ trade' = [trade EXCEPT !.status = status]
         /\ row' = saved
         /\ alarmed' = raised
         /\ UNCHANGED visible
         /\ opener' = [opener EXCEPT !.pc = "fixing", !.plan = plan]

Decide ==
    /\ opener.pc \in {"waiting", "background"}
    /\ Settled(Entry)
    /\ ~Unresolved(Entry)
    /\ Follow(EntryPlan, trade.status, row, alarmed)
    /\ UNCHANGED <<pos, closer, busy, envVars>>

(* leg_status_unknown: open_pair returns and _keep_resolving goes on without the busy mark. *)
HandOver ==
    /\ opener.pc = "waiting"
    /\ Settled(Entry)
    /\ Unresolved(Entry)
    /\ trade' = [trade EXCEPT !.status = "opening"]
    /\ row' = "opening"
    /\ alarmed' = TRUE
    /\ opener' = [opener EXCEPT !.pc = "background", !.rounds = BackgroundRounds]
    /\ AskAgain(1)
    /\ Release("opener")
    /\ UNCHANGED <<visible, pos, order, closer, envVars>>

(* Mutant: the rounds of the background resolver are not counted. *)
NextRoundUncounted ==
    /\ opener.pc = "background"
    /\ Settled(Entry)
    /\ Unresolved(Entry)
    /\ AskAgain(1)
    /\ UNCHANGED <<tradeVars, pos, order, opener, closer, busy, envVars>>

NextRound ==
    /\ opener.pc = "background"
    /\ Settled(Entry)
    /\ Unresolved(Entry)
    /\ opener.rounds > 1
    /\ opener' = [opener EXCEPT !.rounds = @ - 1]
    /\ AskAgain(1)
    /\ UNCHANGED <<tradeVars, pos, order, closer, busy, envVars>>

(* leg_status_never_resolved *)
GiveUp ==
    /\ opener.pc = "background"
    /\ Settled(Entry)
    /\ Unresolved(Entry)
    /\ opener.rounds = 1
    /\ trade' = [trade EXCEPT !.status = "leg_lost"]
    /\ row' = "leg_lost"
    /\ alarmed' = TRUE
    /\ opener' = Returned
    /\ Forget(OpenerSlots)
    /\ UNCHANGED <<visible, pos, order, closer, busy, envVars>>

(* Mutant: a fix whose outcome stayed unknown counts as done. *)
FixRejected(x) == ticket[x].outcome = "rejected"

FixFailed(x) == ticket[x].outcome # "filled"

(* A CloseLeg or ReduceLeg order is answered; anything but FILLED is hedge_fix_failed. *)
FixAnswered ==
    LET x    == <<"fix", Head(opener.plan.fixes).side>>
        rest == [opener.plan EXCEPT !.fixes = Tail(@)]
    IN /\ opener.pc = "fixing"
       /\ Settled({x})
       /\ IF FixFailed(x) THEN Follow(rest, "leg_lost", "leg_lost", TRUE)
                          ELSE Follow(rest, trade.status, row, alarmed)
       /\ UNCHANGED <<pos, closer, busy, envVars>>

(* After _collect_fills the open pair is saved again and the click returns. *)
FinishOpen ==
    /\ opener.pc = "collecting"
    /\ row' = IF trade.status = "open" THEN "open" ELSE row
    /\ opener' = Returned
    /\ Forget(OpenerSlots)
    /\ Release("opener")
    /\ UNCHANGED <<trade, visible, alarmed, pos, order, closer, envVars>>

-----------------------------------------------------------------------------
(* poll_positions and _apply_reconciliation *)

(* Mutant: a pair is missing only when both legs are. *)
PairMissing == \A s \in Sides : pos[s] = 0

LegMissing == \E s \in Sides : pos[s] = 0

(* What reconciling against the current positions makes of the trade. *)
Reconciled(complete) ==
    LET missing == complete /\ LegMissing
        polls   == IF missing THEN Lesser(trade.missing + 1, MissingPollsForLost) ELSE 0
    IN [trade EXCEPT
          !.missing = polls,
          !.status  = IF polls >= MissingPollsForLost /\ @ = "open" THEN "leg_lost"
                      ELSE IF ~missing /\ @ = "leg_lost" THEN "open"
                      ELSE @]

Polled(complete) == IF visible THEN Reconciled(complete) ELSE trade

(* Mutant: a leg found again is not saved. *)
ReconcileUnsaved(complete) ==
    LET status == Polled(complete).status
    IN /\ trade' = Polled(complete)
       /\ row' = IF status = "leg_lost" THEN status ELSE row
       /\ alarmed' = (alarmed \/ (trade.status = "open" /\ status = "leg_lost"))
       /\ UNCHANGED visible

Reconcile(complete) ==
    LET status == Polled(complete).status
    IN /\ trade' = Polled(complete)
       /\ row' = IF status # trade.status THEN status ELSE row
       /\ alarmed' = (alarmed \/ (trade.status = "open" /\ status = "leg_lost"))
       /\ UNCHANGED visible

Poll(complete) ==
    /\ Reconcile(complete)
    /\ UNCHANGED <<pos, order, ticket, opener, closer, busy, envVars>>

-----------------------------------------------------------------------------
(* close_pair, close_leg and close_record *)

Idle == [pc |-> "idle", sides |-> {}, attempt |-> 0, previous |-> "none"]

WholePair == closer.sides = Sides

Pressed(button) ==
    /\ button \in UserActions
    /\ visible

ClosePair ==
    /\ Pressed("close_pair")
    /\ trade.status \notin {"opening", "closing"}
    /\ busy = "none"
    /\ closer' = [pc |-> "fresh", sides |-> Sides, attempt |-> 1, previous |-> trade.status]
    /\ trade' = [trade EXCEPT !.status = "closing"]
    /\ row' = "closing"
    /\ busy' = "closer"
    /\ UNCHANGED <<visible, alarmed, pos, order, ticket, opener, envVars>>

CloseLeg(side) ==
    /\ Pressed("close_leg")
    /\ busy = "none"
    /\ closer' = [pc |-> "fresh", sides |-> {side}, attempt |-> 1, previous |-> trade.status]
    /\ busy' = "closer"
    /\ UNCHANGED <<tradeVars, pos, order, ticket, opener, envVars>>

CloseRecord ==
    /\ Pressed("close_record")
    /\ trade' = [trade EXCEPT !.status = "closed"]
    /\ visible' = FALSE
    /\ row' = "closed"
    /\ UNCHANGED <<alarmed, pos, order, ticket, opener, closer, busy, envVars>>

(* _fresh_legs got the positions: close what they show, or go on with none
   left.  Bound: the orders of an earlier attempt have landed by then. *)
FreshLegs ==
    LET targets == {<<"close", s>> : s \in {t \in closer.sides : pos[t] > 0}}
    IN /\ closer.pc = "fresh"
       /\ \A x \in Exit : order[x].net # "travelling"
       /\ Reconcile(TRUE)
       /\ order'  = [x \in Slots |-> IF x \in targets THEN Travelling(pos[x[2]]) ELSE order[x]]
       /\ ticket' = [x \in Slots |-> IF x \in targets THEN Sent
                                     ELSE IF x \in Exit THEN NoTicket ELSE ticket[x]]
       /\ closer' = [closer EXCEPT !.pc = IF WholePair /\ targets = {} THEN "settling" ELSE "closing"]
       /\ UNCHANGED <<pos, opener, busy, envVars>>

(* close_positions_unknown before anything was sent: the pair gets its old status back. *)
FreshLegsFail ==
    /\ closer.pc = "fresh"
    /\ IF WholePair
       THEN /\ trade' = [Polled(FALSE) EXCEPT !.status = closer.previous]
            /\ row' = closer.previous
            /\ alarmed' = TRUE
            /\ UNCHANGED visible
       ELSE Reconcile(FALSE)
    /\ closer' = Idle
    /\ Forget(Exit)
    /\ busy' = "none"
    /\ UNCHANGED <<pos, order, opener, envVars>>

ExitOutcome == [s \in Sides |-> IF ticket[<<"close", s>>].outcome = "none" THEN "filled"
                                ELSE ticket[<<"close", s>>].outcome]

(* The orders are answered and the positions polled again: decide_close. *)
CloseAnswered ==
    LET flat    == \A s \in Sides : pos[s] = 0
        verdict == IF WholePair
                   THEN DecideClose(ExitOutcome, pos, closer.attempt, CloseAttempts)
                   ELSE IF flat THEN "closed" ELSE "left"
        again   == verdict \in {"query", "retry"} /\ closer.attempt < CloseAttempts
    IN /\ closer.pc = "closing"
       /\ Settled(Exit)
       /\ IF verdict = "lost"
          THEN /\ trade' = [Polled(TRUE) EXCEPT !.status = "leg_lost"]
               /\ row' = "leg_lost"
               /\ alarmed' = TRUE
               /\ UNCHANGED visible
          ELSE Reconcile(TRUE)
       /\ closer' = IF verdict = "closed" THEN [closer EXCEPT !.pc = "settling"]
                    ELSE IF verdict = "lost" THEN [closer EXCEPT !.pc = "failing"]
                    ELSE IF again THEN [closer EXCEPT !.pc = "fresh", !.attempt = @ + 1]
                    ELSE Idle
       /\ Forget(Exit)
       /\ busy' = IF closer'.pc = "idle" THEN "none" ELSE busy
       /\ UNCHANGED <<pos, order, opener, envVars>>

(* close_positions_unknown after the orders were sent. *)
CloseAnsweredFail ==
    /\ closer.pc = "closing"
    /\ Settled(Exit)
    /\ IF WholePair
       THEN /\ trade' = [Polled(FALSE) EXCEPT !.status = "leg_lost"]
            /\ row' = "leg_lost"
            /\ alarmed' = TRUE
            /\ UNCHANGED visible
       ELSE Reconcile(FALSE)
    /\ closer' = Idle
    /\ Forget(Exit)
    /\ busy' = "none"
    /\ UNCHANGED <<pos, order, opener, envVars>>

(* _settle: fills and funding are fetched, then the pair leaves the active set. *)
Settle ==
    /\ closer.pc = "settling"
    /\ trade' = [trade EXCEPT !.status = "closed"]
    /\ visible' = FALSE
    /\ row' = "closed"
    /\ closer' = Idle
    /\ Forget(Exit)
    /\ busy' = "none"
    /\ UNCHANGED <<alarmed, pos, order, opener, envVars>>

(* Mutant: the busy mark outlives the click. *)
FailStillBusy ==
    /\ closer.pc = "failing"
    /\ closer' = Idle
    /\ Forget(Exit)
    /\ UNCHANGED <<tradeVars, pos, order, opener, busy, envVars>>

(* leg_close_failed is raised once the fills are collected. *)
Fail ==
    /\ closer.pc = "failing"
    /\ closer' = Idle
    /\ Forget(Exit)
    /\ busy' = "none"
    /\ UNCHANGED <<tradeVars, pos, order, opener, envVars>>

-----------------------------------------------------------------------------
(* The terminal stops with every task and comes back with the trades table,
   which it reads only when the database is ready at that moment.  The rows
   handed to the queue have reached the table. *)
Restart ==
    /\ restarts < MaxRestarts
    /\ opener.pc # "idle"
    /\ restarts' = restarts + 1
    /\ trade' = [trade EXCEPT !.status = row, !.missing = 0]
    /\ \E loaded \in LoadOutcomes : visible' = (loaded /\ row \in ActiveStatuses)
    /\ Forget(Slots)
    /\ opener' = Returned
    /\ closer' = Idle
    /\ busy' = "none"
    /\ UNCHANGED <<row, alarmed, pos, order, liquidated>>

Init ==
    /\ trade = [status |-> "none", qty |-> 0, missing |-> 0]
    /\ visible = FALSE
    /\ row = "none"
    /\ pos = [s \in Sides |-> 0]
    /\ order = [x \in Slots |-> NoOrder]
    /\ ticket = [x \in Slots |-> NoTicket]
    /\ opener = [pc |-> "idle", plan |-> QueryPlan, rounds |-> 0]
    /\ closer = Idle
    /\ busy = "none"
    /\ alarmed = FALSE
    /\ liquidated = 0
    /\ restarts = 0

Exchanges == (\E x \in Slots : Land(x)) \/ (\E s \in Sides : Liquidate(s))
Answers(x) == \/ Acknowledge(x) \/ TimeOut(x)
              \/ QueryFound(x) \/ QueryNotFound(x) \/ QueryUnclear(x)
Opening == OpenPair \/ Decide \/ HandOver \/ NextRound \/ GiveUp \/ FixAnswered \/ FinishOpen
Closing == \/ FreshLegs \/ FreshLegsFail \/ CloseAnswered \/ CloseAnsweredFail \/ Settle \/ Fail
User == ClosePair \/ (\E s \in Sides : CloseLeg(s)) \/ CloseRecord

Next == \/ Exchanges \/ (\E x \in Slots : Answers(x))
        \/ Opening \/ Closing \/ User \/ (\E complete \in BOOLEAN : Poll(complete)) \/ Restart

Spec == Init /\ [][Next]_vars

(* Placement calls time out and status queries return, so a task is answered;
   the exchange lets no order travel for ever; run_positions never stops.
   Nothing is assumed of the user or of the exchange taking a leg away. *)
Fairness ==
    /\ WF_vars(\E x \in Slots : Land(x))
    /\ WF_vars(\E x \in Slots : Answers(x))
    /\ WF_vars(Decide \/ HandOver \/ NextRound \/ GiveUp \/ FixAnswered \/ FinishOpen)
    /\ WF_vars(Closing)
    /\ WF_vars(Poll(TRUE))

FairSpec == Spec /\ Fairness

-----------------------------------------------------------------------------
(* Properties *)

Statuses == ActiveStatuses \cup FinalStatuses \cup {"none"}

TradeType  == [status : Statuses, qty : Nat, missing : Nat]
OrderType  == [net : {"none", "travelling", "done"}, qty : Nat, filled : Nat]
TicketType == [outcome : Outcomes \cup {"none", "sent"},
               filled : Nat, notFound : Nat, tries : Nat]
OpenerType == [pc : {"idle", "waiting", "background", "fixing", "collecting", "done"},
               plan : Plans, rounds : Nat]
CloserType == [pc : {"idle", "fresh", "closing", "settling", "failing"},
               sides : SUBSET Sides, attempt : Nat, previous : Statuses]

(* The types of the variables: Trade, OrderTicket and the tasks' locals; no
   counter of attempts, rounds or polls is run below zero. *)
TypeOK ==
    /\ trade \in TradeType
    /\ visible \in BOOLEAN
    /\ row \in Statuses
    /\ pos \in [Sides -> Nat]
    /\ order \in [Slots -> OrderType]
    /\ ticket \in [Slots -> TicketType]
    /\ opener \in OpenerType
    /\ closer \in CloserType
    /\ busy \in {"none", "opener", "closer"}
    /\ alarmed \in BOOLEAN
    /\ liquidated \in Nat
    /\ restarts \in Nat

(* No task of the terminal is working on the pair. *)
Quiet == opener.pc \in {"idle", "done"} /\ closer.pc = "idle"

(* One leg is larger than the other, and not because the exchange took it. *)
Naked == pos["long"] # pos["short"] /\ liquidated = 0

(* Whatever orders fill, get lost or stay unknown: when the tasks are done, a
   leg without its hedge was reported as CRITICAL, or belongs to a pair still
   shown as opening (a restart) or closing (close_incomplete, a restart). *)
NakedLegIsAlarmed ==
    Quiet /\ Naked =>
        \/ alarmed
        \/ visible /\ trade.status \in {"opening", "closing"}

(* A pair shown open about which no CRITICAL was emitted holds exactly its
   recorded quantity on both exchanges (decide_open, MarkTradeOpen). *)
OpenIsHedged ==
    Quiet /\ trade.status = "open" /\ ~alarmed /\ liquidated = 0 =>
        \A s \in Sides : pos[s] = trade.qty

(* A pair whose final row was written without a CRITICAL has left nothing on
   either exchange (MarkTradeFailed, MarkTradeClosed, finish). *)
GoneIsFlat ==
    Quiet /\ row \in FinalStatuses /\ ~alarmed => \A s \in Sides : pos[s] = 0

(* The last row submitted for a pair the terminal shows has the status it
   shows: after a restart the user finds what was on the screen (save, finish,
   _apply_reconciliation: every assignment of status is followed by a submit
   before the next await). *)
RowFollowsMemory == visible => row = trade.status

(* A click that sent its orders comes to an end, at the latest when the
   background resolver gives up (BACKGROUND_RESOLVE_LIMIT_S). *)
OpeningEnds == opener.pc = "waiting" ~> opener.pc = "done"

(* The token never stays blocked: the finally of open_pair, close_pair and
   close_leg is reached. *)
TokenReleased == busy # "none" ~> busy = "none"

(* Once polls stop failing, a pair that lost a leg on an exchange does not
   stay shown as open without a CRITICAL (_apply_reconciliation). *)
PollFails == Poll(FALSE) \/ FreshLegsFail \/ CloseAnsweredFail

LostLegIsNoticed ==
    <>[][~PollFails]_vars =>
        ((visible /\ trade.status = "open" /\ \E s \in Sides : pos[s] = 0)
            ~> (alarmed \/ ~visible \/ trade.status # "open"))

-----------------------------------------------------------------------------
(* What the code says of itself and does not keep; see README, Findings. *)

(* service.py, anti-goal 1: no naked leg without an alarm, every path ends
   hedged, closed, or flagged critical with the pair kept visible. *)
NakedLegStaysVisible == Quiet /\ Naked => visible
=============================================================================
