------------------------------- MODULE Admission -------------------------------
(***************************************************************************)
(* Whether a click may open a pair: the checks of core/pretrade.py on what *)
(* the terminal remembers, and where its memory comes from, the warm-up of *)
(* leverage and margin mode, the balances, the checks of the keys and the  *)
(* maintenance answers (app/execution/service.py).                         *)
(*                                                                         *)
(* Leverage and margin mode change only with a restart, so a contract that *)
(* is warm stays so.  Every pair is of the same amount, the limits do not  *)
(* change, and one_pair_per_token is on, as it is unless the user turns it *)
(* off.  Execution has what becomes of the orders of one pair; here an     *)
(* opening only ends.                                                      *)
(***************************************************************************)
EXTENDS Integers, FiniteSets

CONSTANTS
    Exchanges,
    Catalogs,       \* sets of pairs the feed may show: token, long and short exchange
    Limits,         \* risk limits: number of pairs, total notional
    NotionalUsd,    \* of a pair
    MarginUsd,      \* what it takes of each leg's margin, the buffer included
    Funds,          \* margin of an account with nothing open
    MaxEvents,      \* bound: key changes, maintenance answers, failed warm-ups, pairs assigned by hand
    None

VARIABLES
    catalog, limits,
    account,        \* the account the keys of an exchange open
    accepted,       \* the check of those keys let them pass
    prepared,       \* contracts with the wanted leverage and mode: <<exchange, account, token>>
    warmed,         \* _warmed: <<exchange, token>>
    warmFailed,     \* _warm_failed, while it is too early to try again
    warming,        \* the contract run_warmup waits for, and the account it asked
    balances,       \* available_usd: None when unknown or too old
    blocked,        \* _blocked_until: exchanges under maintenance
    trades,         \* what the portfolio has of a pair
    busy,           \* _busy: tokens
    events

choices == <<catalog, limits>>
keyVars == <<account, accepted>>
warmVars == <<prepared, warmed, warmFailed, warming>>
tradeVars == <<trades, busy>>
vars == <<choices, keyVars, warmVars, balances, blocked, tradeVars, events>>

Legs(p) == {p.long, p.short}

Contracts == UNION {Legs(p) \X {p.token} : p \in catalog}

Happens ==
    /\ events < MaxEvents
    /\ events' = events + 1

OnAccount(p, e, n) == trades[p] # None /\ e \in Legs(p) /\ trades[p].account[e] = n

(* What the account of an exchange still has to give. *)
FreeUsd(e, n) ==
    Funds - MarginUsd * Cardinality({p \in catalog : OnAccount(p, e, n) /\ trades[p].status = "open"})

(* Started with the contracts `warm` and, for them, the balances known. *)
Started(warm, available) ==
    /\ catalog \in Catalogs
    /\ limits \in Limits
    /\ account = [e \in Exchanges |-> 1]
    /\ accepted = [e \in Exchanges |-> TRUE]
    /\ warmed = warm
    /\ prepared = {<<c[1], 1, c[2]>> : c \in warm}
    /\ warmFailed = {}
    /\ warming = None
    /\ balances = [e \in Exchanges |-> available]
    /\ blocked = {}
    /\ trades = [p \in catalog |-> None]
    /\ busy = {}
    /\ events = 0

Init == Started({}, None)

(* A while later: a state like any other, to begin a shorter search in. *)
InitWarm == \E list \in Catalogs : catalog = list /\ Started(UNION {Legs(p) \X {p.token} : p \in list}, Funds)
--------------------------------------------------------------------------------
(* run_warmup: one contract at a time; a failed one rests before the next try. *)
StartWarm(contract) ==
    /\ warming = None
    /\ contract \notin warmed \cup warmFailed
    /\ accepted[contract[1]]
    /\ warming' = [contract |-> contract, account |-> account[contract[1]]]
    /\ UNCHANGED <<choices, keyVars, prepared, warmed, warmFailed, balances, blocked, tradeVars, events>>

WarmAnswered ==
    /\ warming # None
    /\ prepared' = prepared \cup {<<warming.contract[1], warming.account, warming.contract[2]>>}
    /\ warmed' = warmed \cup {warming.contract}
    /\ warming' = None
    /\ UNCHANGED <<choices, keyVars, warmFailed, balances, blocked, tradeVars, events>>

WarmFails ==
    /\ Happens
    /\ warming # None
    /\ warmFailed' = warmFailed \cup {warming.contract}
    /\ warming' = None
    /\ UNCHANGED <<choices, keyVars, prepared, warmed, balances, blocked, tradeVars>>

RetryDue(contract) ==
    /\ contract \in warmFailed
    /\ warmFailed' = warmFailed \ {contract}
    /\ UNCHANGED <<choices, keyVars, prepared, warmed, warming, balances, blocked, tradeVars, events>>
--------------------------------------------------------------------------------
(* What the checks read, beside the quote. *)
BalanceComes(e) ==
    /\ balances' = [balances EXCEPT ![e] = FreeUsd(e, account[e])]
    /\ UNCHANGED <<choices, keyVars, warmVars, blocked, tradeVars, events>>

BalanceAges(e) ==
    /\ balances[e] # None
    /\ balances' = [balances EXCEPT ![e] = None]
    /\ UNCHANGED <<choices, keyVars, warmVars, blocked, tradeVars, events>>

(* save_keys drops the check of the old keys; execution is not told. *)
KeysReplaced(e) ==
    /\ Happens
    /\ account' = [account EXCEPT ![e] = @ + 1]
    /\ accepted' = [accepted EXCEPT ![e] = FALSE]
    /\ UNCHANGED <<choices, warmVars, balances, blocked, tradeVars>>

KeysChecked(e) ==
    /\ ~accepted[e]
    /\ accepted' = [accepted EXCEPT ![e] = TRUE]
    /\ UNCHANGED <<choices, account, warmVars, balances, blocked, tradeVars, events>>

MaintenanceEnds(e) ==
    /\ e \in blocked
    /\ blocked' = blocked \ {e}
    /\ UNCHANGED <<choices, keyVars, warmVars, balances, tradeVars, events>>
--------------------------------------------------------------------------------
(* Mutant: a pair counts once it is open. *)
OpenByStatus == {p \in catalog : trades[p] # None /\ trades[p].status = "open"}

(* open_count, open_tokens and open_notional_usd: an opening pair counts. *)
Open == {p \in catalog : trades[p] # None}

OpenTokens == {p.token : p \in Open}

OpenNotional == NotionalUsd * Cardinality(Open)

(* open_blocks_for: what memory says of a pair with a fresh quote that pays. *)
OpenFacts(p) ==
    [busy         |-> p.token \in busy,
     keysAccepted |-> \A e \in Legs(p) : accepted[e],
     blocked      |-> Legs(p) \cap blocked # {},
     openPairs    |-> Cardinality(Open),
     openNotional |-> OpenNotional,
     tokenOpen    |-> p.token \in OpenTokens,
     available    |-> {balances[e] : e \in Legs(p)},
     warmedUp     |-> Legs(p) \X {p.token} \subseteq warmed]

(* open_blocks: every reason at once. *)
OpenBlocks(facts) ==
    {reason \in {"pair_busy", "keys_not_accepted", "exchange_blocked", "max_open_pairs", "max_total_usd",
                 "token_already_open", "balance_unknown", "insufficient_margin", "not_warmed_up"} :
        CASE reason = "pair_busy" -> facts.busy
          [] reason = "keys_not_accepted" -> ~facts.keysAccepted
          [] reason = "exchange_blocked" -> facts.blocked
          [] reason = "max_open_pairs" -> facts.openPairs >= limits.pairs
          [] reason = "max_total_usd" -> facts.openNotional + NotionalUsd > limits.usd
          [] reason = "token_already_open" -> facts.tokenOpen
          [] reason = "balance_unknown" -> None \in facts.available
          [] reason = "insufficient_margin" -> \E usd \in facts.available : usd # None /\ usd < MarginUsd
          [] reason = "not_warmed_up" -> ~facts.warmedUp}

Trade(p, status, byHand) ==
    [status |-> status, byHand |-> byHand, account |-> [e \in Legs(p) |-> account[e]]]

(* open_pair up to its first await: the pair is in the portfolio before anything is sent. *)
OpenPair(p) ==
    /\ OpenBlocks(OpenFacts(p)) = {}
    /\ busy' = busy \cup {p.token}
    /\ trades' = [trades EXCEPT ![p] = Trade(p, "opening", FALSE)]
    /\ UNCHANGED <<choices, keyVars, warmVars, balances, blocked, events>>

(* Positions that belong to no pair become one; no limit is asked. *)
AssignPair(p) ==
    /\ Happens
    /\ \A q \in Open : q.token = p.token => q.long # p.long /\ q.short # p.short
    /\ trades' = [trades EXCEPT ![p] = Trade(p, "open", TRUE)]
    /\ UNCHANGED <<choices, keyVars, warmVars, balances, blocked, busy>>

(* _send: an exchange answers that it is under maintenance. *)
OrderRefused(p, e) ==
    /\ Happens
    /\ trades[p] # None /\ trades[p].status = "opening"
    /\ e \in Legs(p) \ blocked
    /\ blocked' = blocked \cup {e}
    /\ UNCHANGED <<choices, keyVars, warmVars, balances, tradeVars>>

(* open_pair returns, decided or handed over to the background. *)
OpenReturns(token) ==
    /\ token \in busy
    /\ busy' = busy \ {token}
    /\ UNCHANGED <<choices, keyVars, warmVars, balances, blocked, trades, events>>

(* Both legs are there, or the pair is taken back: for want of margin, or otherwise. *)
OpeningEnds(p) ==
    /\ trades[p] # None /\ trades[p].status = "opening"
    /\ \/ /\ \A e \in Legs(p) : FreeUsd(e, trades[p].account[e]) >= MarginUsd
          /\ trades' = [trades EXCEPT ![p].status = "open"]
       \/ trades' = [trades EXCEPT ![p] = None]
    /\ UNCHANGED <<choices, keyVars, warmVars, balances, blocked, busy, events>>

Closed(p) ==
    /\ trades[p] # None /\ trades[p].status = "open"
    /\ p.token \notin busy
    /\ trades' = [trades EXCEPT ![p] = None]
    /\ UNCHANGED <<choices, keyVars, warmVars, balances, blocked, busy, events>>

Warmup ==
    \/ \E contract \in Contracts : StartWarm(contract) \/ RetryDue(contract)
    \/ WarmAnswered
    \/ WarmFails

Facts == \E e \in Exchanges :
    BalanceComes(e) \/ BalanceAges(e) \/ KeysReplaced(e) \/ KeysChecked(e) \/ MaintenanceEnds(e)

Trading ==
    \/ \E p \in catalog : OpenPair(p) \/ AssignPair(p) \/ OpeningEnds(p) \/ Closed(p) \/ (\E e \in Legs(p) : OrderRefused(p, e))
    \/ \E token \in busy : OpenReturns(token)

Next == Warmup \/ Facts \/ Trading

Spec == Init /\ [][Next]_vars
--------------------------------------------------------------------------------
(* core/pretrade.py, risk limits: whatever clicks overlap, with openings still *)
(* undecided, failed or closing, the pairs that were opened by a click pass    *)
(* neither limit and no token is opened twice.                                 *)
WithinRisk ==
    LET opened == {p \in catalog : trades[p] # None /\ ~trades[p].byHand}
    IN  /\ Cardinality(opened) <= limits.pairs
        /\ Cardinality(opened) * NotionalUsd <= limits.usd
        /\ \A p, q \in opened : p.token = q.token => p = q

(* docs/PLAN.md 529: warm-up sets the leverage of the settings, and a click    *)
(* passes once it did.  So whatever opens, opens on accounts that have it.     *)
OpensPrepared ==
    [][\A p \in catalog : trades[p] = None /\ trades'[p] # None /\ ~trades'[p].byHand =>
           \A e \in Legs(p) : <<e, account[e], p.token>> \in prepared]_vars

(* docs/PLAN.md 541: each exchange has enough free margin.  Stated for all the *)
(* openings under way together; nothing reserves what a click was promised.    *)
AdmittedFits ==
    \A e \in Exchanges, n \in 1 .. MaxEvents + 1 :
        LET admitted == {p \in catalog : OnAccount(p, e, n) /\ trades[p].status = "opening"}
        IN  admitted # {} => Cardinality(admitted) * MarginUsd <= FreeUsd(e, n)
================================================================================
