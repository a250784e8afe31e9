------------------------------ MODULE Portfolio ------------------------------
(***************************************************************************)
(* The terminal's picture of several open pairs of one token               *)
(* (app/portfolio/service.py, core/portfolio.py): polls of the positions   *)
(* that overlap and answer exchange by exchange, the reconciliation, pairs *)
(* assigned by hand, and the calls execution makes.                        *)
(* Execution.tla has one pair with its orders; this module has the         *)
(* bookkeeping of many.                                                    *)
(*                                                                         *)
(* An exchange has one contract of the token.  Quantities are left out: a  *)
(* quantity that differs is an issue on the screen and changes no status.  *)
(***************************************************************************)
EXTENDS Integers, FiniteSets

CONSTANTS
    Exchanges,              \* exchanges that list the token
    Places,                 \* bound: the legs somebody ever takes, <<exchange, side>>
    Pollers,                \* tasks that may poll the positions at once
    MissingPollsForLost,    \* MISSING_POLLS_FOR_LOST
    LoadOutcomes,           \* whether the database is ready when the terminal starts
    MaxTrades,              \* bound: trades ever recorded
    CloseRecordWhileBusy,   \* bound: whether the user drops a record execution still works on
    MaxEvents,              \* bound: positions that come or go, key changes, restarts
    None, Failed            \* no value; an answer that is an error

VARIABLES
    held,       \* the positions that exist, <<exchange, side>>
    keyed,      \* _keyed_exchanges
    polls,      \* the answers each running poll has, None between polls
    accounts,   \* _accounts: the positions last seen, None where there is no account
    foreign,    \* _foreign
    trades,     \* the Trade objects, those already dropped included
    listed,     \* ids in portfolio.trades
    rows,       \* the trades table
    active,     \* _active, as last told to keep_awake
    opener,     \* the trade execution is opening and whether it does so in the background
    closer,     \* the trade execution is closing, its status before (None: one leg)
    events      \* how often the exchanges, the user's keys or the machine acted

handVars == <<held, keyed, events>>
pollVars == <<polls, accounts, foreign>>
bookVars == <<trades, listed, rows, active>>
taskVars == <<opener, closer>>
vars == <<handVars, pollVars, bookVars, taskVars>>

Sides == {"long", "short"}
Ids == 1..MaxTrades
ActiveStatuses == {"opening", "open", "closing", "leg_lost"}

(* What the row of a trade keeps; a restart brings the rest back as zero. *)
Row(trade) == [trade EXCEPT !.missing = 0]

NoPositions == [s \in Sides |-> FALSE]

Legs(trade) == {<<trade.long, "long">>, <<trade.short, "short">>}

Happens ==
    /\ events < MaxEvents
    /\ events' = events + 1

-----------------------------------------------------------------------------
(* reconcile, _apply_reconciliation and _update_active *)

Seen(seen, leg) == seen[leg[1]] # None /\ seen[leg[1]][leg[2]]

(* A leg counts as missing only after a complete poll, on exchanges that have accounts. *)
Missing(trade, seen, complete) ==
    /\ complete
    /\ \A leg \in Legs(trade) : seen[leg[1]] # None
    /\ \E leg \in Legs(trade) : ~Seen(seen, leg)

Judged(trade, seen, complete) ==
    LET missing == Missing(trade, seen, complete)
        count   == IF ~missing THEN 0
                   ELSE IF trade.missing < MissingPollsForLost THEN trade.missing + 1 ELSE trade.missing
    IN [trade EXCEPT
          !.missing = count,
          !.status  = IF @ = "open" /\ count >= MissingPollsForLost THEN "leg_lost"
                      ELSE IF @ = "leg_lost" /\ ~missing THEN "open"
                      ELSE @]

Foreign(objects, ids, seen) ==
    {leg \in Exchanges \X Sides : Seen(seen, leg) /\ \A i \in ids : leg \notin Legs(objects[i])}

(* The trades `ids`, as `objects` has them, against the positions `seen`. *)
Reconcile(objects, ids, table, seen, complete) ==
    LET judged == [i \in Ids |-> IF i \in ids THEN Judged(objects[i], seen, complete) ELSE objects[i]]
        saved  == {i \in ids : judged[i].status # objects[i].status}
    IN /\ trades'  = judged
       /\ rows'    = [i \in Ids |-> IF i \in saved THEN Row(judged[i]) ELSE table[i]]
       /\ foreign' = Foreign(objects, ids, seen)

UpdateActive == active' = (listed' # {})

-----------------------------------------------------------------------------
(* poll_positions, run_balances and run_metrics *)

(* Every exchange with keys is asked; some fail.  An answer is as old as the
   request: it is applied when the slowest has come. *)
AskPositions(p) ==
    /\ polls[p] = None
    /\ \E failing \in SUBSET keyed :
         polls' = [polls EXCEPT ![p] = [e \in keyed |-> IF e \in failing THEN Failed
                                                       ELSE [s \in Sides |-> <<e, s>> \in held]]]
    /\ UNCHANGED <<handVars, accounts, foreign, bookVars, taskVars>>

(* A failed answer leaves what the account had; an exchange not asked has no account. *)
Taken(answers) ==
    [e \in Exchanges |-> IF e \notin DOMAIN answers THEN None
                         ELSE IF answers[e] # Failed THEN answers[e]
                         ELSE IF accounts[e] = None THEN NoPositions
                         ELSE accounts[e]]

FinishPoll(p) ==
    /\ polls[p] # None
    /\ LET complete == \A e \in DOMAIN polls[p] : polls[p][e] # Failed
       IN Reconcile(trades, listed, rows, Taken(polls[p]), complete)
    /\ accounts' = Taken(polls[p])
    /\ polls' = [polls EXCEPT ![p] = None]
    /\ UNCHANGED <<handVars, listed, active, taskVars>>

(* run_balances makes the account of an exchange whose positions nobody has seen. *)
Balance(e) ==
    /\ e \in keyed
    /\ accounts[e] = None
    /\ accounts' = [accounts EXCEPT ![e] = NoPositions]
    /\ UNCHANGED <<handVars, polls, foreign, bookVars, taskVars>>

-----------------------------------------------------------------------------
(* assign_pair and close_record *)

Fresh(i) == trades[i] = None /\ \A j \in Ids : trades[j] = None => i <= j

NewTrade(l, s, status, byHand) ==
    [long |-> l, short |-> s, status |-> status, missing |-> 0, byHand |-> byHand]

(* Mutant: the new pair is not reconciled; the next poll will. *)
AssignPairLazily(i, l, s) ==
    /\ Fresh(i)
    /\ l # s
    /\ <<l, "long">> \in foreign
    /\ <<s, "short">> \in foreign
    /\ trades' = [trades EXCEPT ![i] = NewTrade(l, s, "open", TRUE)]
    /\ rows' = [rows EXCEPT ![i] = Row(trades'[i])]
    /\ listed' = listed \cup {i}
    /\ UpdateActive
    /\ UNCHANGED <<handVars, pollVars, taskVars>>

(* The pair is reconciled at once, with every other, against what was last seen. *)
AssignPair(i, l, s) ==
    LET trade == NewTrade(l, s, "open", TRUE)
    IN /\ Fresh(i)
       /\ l # s
       /\ <<l, "long">> \in foreign
       /\ <<s, "short">> \in foreign
       /\ listed' = listed \cup {i}
       /\ Reconcile([trades EXCEPT ![i] = trade], listed', [rows EXCEPT ![i] = Row(trade)], accounts, TRUE)
       /\ UpdateActive
       /\ UNCHANGED <<handVars, polls, accounts, taskVars>>

Working(i) ==
    \/ opener # None /\ opener.id = i
    \/ closer # None /\ closer.id = i

(* Nothing asks whether a task of execution still holds the Trade. *)
CloseRecord(i) ==
    /\ i \in listed
    /\ Working(i) => CloseRecordWhileBusy
    /\ trades' = [trades EXCEPT ![i].status = "closed"]
    /\ rows' = [rows EXCEPT ![i] = Row(trades'[i])]
    /\ listed' = listed \ {i}
    /\ UpdateActive
    /\ UNCHANGED <<handVars, pollVars, taskVars>>

-----------------------------------------------------------------------------
(* What execution does to the portfolio: add_trade, save and finish *)

(* The token's busy mark; the background does without it. *)
Busy == closer # None \/ (opener # None /\ ~opener.background)

(* one_pair_per_token: nothing of the token is open.  Bound: nor is anything
   resolved in the background, which close_leg would allow. *)
OpenPair(i, l, s) ==
    /\ Fresh(i)
    /\ {<<l, "long">>, <<s, "short">>} \subseteq Places
    /\ l # s
    /\ listed = {}
    /\ ~Busy /\ opener = None
    /\ opener' = [id |-> i, background |-> FALSE]
    /\ trades' = [trades EXCEPT ![i] = NewTrade(l, s, "opening", FALSE)]
    /\ rows' = [rows EXCEPT ![i] = Row(trades'[i])]
    /\ listed' = listed \cup {i}
    /\ UpdateActive
    /\ UNCHANGED <<handVars, pollVars, closer>>

Save(i, status) ==
    /\ trades' = [trades EXCEPT ![i].status = status]
    /\ rows' = [rows EXCEPT ![i] = Row(trades'[i])]
    /\ UNCHANGED <<listed, active>>

(* Mutant: the active mark waits for the next tick. *)
FinishLazily(i, trade) ==
    /\ trades' = [trades EXCEPT ![i] = trade]
    /\ rows' = [rows EXCEPT ![i] = Row(trades'[i])]
    /\ listed' = listed \ {i}
    /\ UNCHANGED active

Finish(i, trade) ==
    /\ trades' = [trades EXCEPT ![i] = trade]
    /\ rows' = [rows EXCEPT ![i] = Row(trades'[i])]
    /\ listed' = listed \ {i}
    /\ UpdateActive

(* An order stays unknown: _keep_resolving goes on with the Trade object. *)
HandOver ==
    /\ opener # None /\ ~opener.background
    /\ Save(opener.id, "opening")
    /\ opener' = [opener EXCEPT !.background = TRUE]
    /\ UNCHANGED <<handVars, pollVars, closer>>

(* _decide_open ends with the pair open, a leg lost or everything taken back,
   whether the pair is still listed or not. *)
OpeningEnds ==
    /\ opener # None
    /\ \/ \E status \in {"open", "leg_lost"} : Save(opener.id, status)
       \/ Finish(opener.id, [trades[opener.id] EXCEPT !.status = "failed"])
    /\ opener' = None
    /\ UNCHANGED <<handVars, pollVars, closer>>

(* close_pair takes the busy mark of the token: one at a time. *)
ClosePair(i) ==
    /\ i \in listed
    /\ ~Busy
    /\ trades[i].status \in {"open", "leg_lost"}
    /\ closer' = [id |-> i, previous |-> trades[i].status]
    /\ Save(i, "closing")
    /\ UNCHANGED <<handVars, pollVars, opener>>

(* _close gives up: before any order the pair gets its old status back, after
   one a leg counts as lost; with an order still unknown it stays closing. *)
CloseFails ==
    /\ closer # None /\ closer.previous # None
    /\ \E status \in {closer.previous, "leg_lost", "closing"} : Save(closer.id, status)
    /\ closer' = None
    /\ UNCHANGED <<handVars, pollVars, opener>>

(* close_leg: the other leg is gone; the status is neither asked nor changed. *)
CloseLeg(i) ==
    /\ i \in listed
    /\ ~Busy
    /\ closer' = [id |-> i, previous |-> None]
    /\ UNCHANGED <<handVars, pollVars, bookVars, opener>>

(* A leg is still there. *)
LegStays ==
    /\ closer # None /\ closer.previous = None
    /\ closer' = None
    /\ UNCHANGED <<handVars, pollVars, bookVars, opener>>

(* _settle, or close_leg, found no leg left: the pair leaves. *)
Settle ==
    /\ closer # None
    /\ Finish(closer.id, [trades[closer.id] EXCEPT !.status = "closed"])
    /\ closer' = None
    /\ UNCHANGED <<handVars, pollVars, opener>>

-----------------------------------------------------------------------------
(* The exchanges, the user and the terminal's restarts *)

PositionMoves(leg) ==
    /\ Happens
    /\ held' = IF leg \in held THEN held \ {leg} ELSE held \cup {leg}
    /\ UNCHANGED <<keyed, pollVars, bookVars, taskVars>>

KeysChange(e) ==
    /\ Happens
    /\ keyed' = IF e \in keyed THEN keyed \ {e} ELSE keyed \cup {e}
    /\ UNCHANGED <<held, pollVars, bookVars, taskVars>>

(* load reads the table only when the database is ready. *)
Restart ==
    /\ Happens
    /\ polls' = [p \in Pollers |-> None]
    /\ accounts' = [e \in Exchanges |-> None]
    /\ foreign' = {}
    /\ \E loaded \in LoadOutcomes :
         listed' = {i \in Ids : loaded /\ rows[i] # None /\ rows[i].status \in ActiveStatuses}
    /\ trades' = rows
    /\ UpdateActive
    /\ opener' = None
    /\ closer' = None
    /\ UNCHANGED <<held, keyed, rows>>

Init ==
    /\ held = {}
    /\ keyed = Exchanges
    /\ events = 0
    /\ polls = [p \in Pollers |-> None]
    /\ accounts = [e \in Exchanges |-> None]
    /\ foreign = {}
    /\ trades = [i \in Ids |-> None]
    /\ listed = {}
    /\ rows = [i \in Ids |-> None]
    /\ active = FALSE
    /\ opener = None
    /\ closer = None

Polling == \E p \in Pollers : AskPositions(p) \/ FinishPoll(p)

Trading ==
    \/ \E i \in Ids : \/ \E l, s \in Exchanges : AssignPair(i, l, s) \/ OpenPair(i, l, s)
                      \/ CloseRecord(i) \/ ClosePair(i) \/ CloseLeg(i)
    \/ HandOver
    \/ OpeningEnds
    \/ CloseFails
    \/ LegStays
    \/ Settle

World ==
    \/ \E leg \in Places : PositionMoves(leg)
    \/ \E e \in Exchanges : KeysChange(e) \/ Balance(e)
    \/ Restart

Next == Polling \/ Trading \/ World

Spec == Init /\ [][Next]_vars

-----------------------------------------------------------------------------
(* Properties *)

TradeType == [long : Exchanges, short : Exchanges, status : ActiveStatuses \cup {"closed", "failed"},
              missing : 0..MissingPollsForLost, byHand : BOOLEAN]

TypeOK ==
    /\ held \subseteq Places
    /\ keyed \subseteq Exchanges
    /\ foreign \subseteq Places
    /\ listed \subseteq Ids
    /\ \A i \in Ids : trades[i] \in TradeType \cup {None} /\ rows[i] \in TradeType \cup {None}
    /\ \A i \in listed : trades[i] # None

(* A position belongs to one pair: no two listed pairs assigned by hand share
   a leg, whatever polls, restarts and closings came between the two clicks
   (assign_pair takes its legs from _foreign, which is only as fresh as the
   last reconciliation). *)
HandLegsOwnedOnce ==
    \A i, j \in listed :
        i # j /\ trades[i].byHand /\ trades[j].byHand => Legs(trades[i]) \cap Legs(trades[j]) = {}

(* The machine is kept awake exactly while a pair is in the terminal's hands:
   every way a pair enters or leaves ends with the mark set (_update_active,
   keep_awake in main.py). *)
ActiveFollowsTrades == active = (listed # {})

(* The doc of portfolio/service.py: "Declaring a leg lost on one bad poll - a
   leg must be missing on two polls in a row".  So only the end of a poll
   declares a loss. *)
OnlyPollsDeclareLoss ==
    [][(\E i \in listed : trades[i].status = "open" /\ trades'[i].status = "leg_lost") => polls' # polls]_vars

(* The doc of close_record: "Mark a pair closed outside the terminal".  A row
   that says closed stays so. *)
ClosedStaysClosed ==
    [][\A i \in Ids : rows[i] # None /\ rows[i].status = "closed" => rows'[i].status = "closed"]_vars

=============================================================================
