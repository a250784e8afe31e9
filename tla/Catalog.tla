-------------------------------- MODULE Catalog --------------------------------
(***************************************************************************)
(* instruments/service.py with the catalog tables of storage/catalog.py:   *)
(* refreshes one at a time under a lock, each over several awaits, while   *)
(* the user marks pairs verified or blacklisted and the database comes and *)
(* goes.  A decision is kept in the table, in the record of the pair in    *)
(* memory, and - for the properties - as the user last made it.  One       *)
(* set_flags at a time: two whose answers pass each other are left out.    *)
(***************************************************************************)
EXTENDS PairRules

CONSTANTS
    Order,              \* enabled exchanges in their fixed order
    Listings,           \* the contracts an exchange may list
    Quotes,             \* the quotes an answer may carry
    MaxRefreshes, MaxDecisions, MaxRestarts     \* bounds

VARIABLES
    lastGood,           \* last good answer of an exchange: contracts and quotes, or None
    pairs,              \* _pairs: key -> record
    version,            \* how often the records were replaced
    refresh,            \* the refresh under way and what it holds
    flagging,           \* a set_flags that waits for the database
    dbReady,
    activeRows,         \* contracts active in the instruments table
    pairRows,           \* pairs table: key -> flags
    decided,            \* the user's decisions in force: key -> flags
    sheltered,          \* every decision reached the table, none met a refresh
    moved,              \* the refresh under way learned something new
    budget              \* [refreshes, decisions, restarts] still allowed

vars == <<lastGood, pairs, version, refresh, flagging, dbReady, activeRows, pairRows,
          decided, sheltered, moved, budget>>

Enabled == {Order[i] : i \in DOMAIN Order}

NoFlags == [verified |-> FALSE, blacklisted |-> FALSE]

Resting == [at |-> "idle", names |-> {}, assessed |-> {}, stored |-> {}]

(* pair_key: the two contracts, whatever name they are matched under. *)
Key(pair) == {[exchange |-> c.exchange, symbol |-> c.symbol] : c \in {pair[1], pair[2]}}

KeyOf(assessment) == assessment.key

Fresh(keys) == [k \in keys |-> NoFlags]

Init ==
    /\ lastGood = [x \in Enabled |-> None]
    /\ pairs = << >> /\ version = 0
    /\ refresh = Resting /\ flagging = None
    /\ dbReady \in BOOLEAN
    /\ activeRows = {} /\ pairRows = << >>
    /\ decided = << >> /\ sheltered = TRUE /\ moved = FALSE
    /\ budget = [refreshes |-> MaxRefreshes, decisions |-> MaxDecisions, restarts |-> MaxRestarts]

Missing == {x \in Enabled : lastGood[x] = None}
--------------------------------------------------------------------------------
(* run and refresh: everything, or only the exchanges that never loaded; the  *)
(* lock lets one refresh run at a time.                                       *)
StartRefresh(names) ==
    /\ refresh.at = "idle" /\ budget.refreshes > 0
    /\ names = Enabled \/ (names = Missing /\ Missing # {})
    /\ refresh' = [Resting EXCEPT !.at = "loading", !.names = names]
    /\ sheltered' = (sheltered /\ flagging = None)
    /\ budget' = [budget EXCEPT !.refreshes = @ - 1]
    /\ UNCHANGED <<lastGood, pairs, version, flagging, dbReady, activeRows, pairRows, decided, moved>>

(* Answers an exchange can give: contracts it lists, each with a quote or none. *)
AnswersOf(x) == UNION {[listed -> Quotes] : listed \in SUBSET {c \in Listings : c.exchange = x}}

Contracts(good) == UNION {DOMAIN good[x] : x \in {y \in Enabled : good[y] # None}}

QuoteOf(good, c) == good[c.exchange][c]

(* assess_catalog: the pairs of all last good answers, with what speaks against *)
(* each.  The index of a token on an exchange is here that of the contract: the *)
(* code keeps the last of several contracts of one token, Listings has one.     *)
Assess(good) ==
    LET contracts == Contracts(good)
        index == [c \in contracts |-> IndexPerToken(c, QuoteOf(good, c))]
        original(c) == CHOOSE d \in contracts : d.exchange = c.exchange /\ d.symbol = c.symbol
        quote(c) == QuoteOf(good, original(c))
    IN  {[key |-> Key(p), reason |-> SuspiciousReason(p[1], p[2], quote(p[1]), quote(p[2]))] :
            p \in MatchAll(RenameLonely(contracts, index), Order)}

(* Mutant: only the exchanges that answered now are assessed. *)
KeepOnlyAnswered(good, answered) == [x \in Enabled |-> IF x \in answered THEN good[x] ELSE None]

(* The last good answer of an exchange stands in until it answers again. *)
StandIn(good, answered) == good

(* The answers are in; an exchange may have failed. Nothing is assessed when  *)
(* nothing new arrived, or when fewer than two exchanges ever answered.       *)
LoadsArrive ==
    /\ refresh.at = "loading"
    /\ \E answered \in SUBSET refresh.names :
       \E answers \in [answered -> UNION {AnswersOf(x) : x \in Enabled}] :
          LET good == [x \in Enabled |-> IF x \in answered THEN answers[x] ELSE lastGood[x]]
              nothingNew == refresh.names # Enabled /\ answered = {}
              few == Cardinality({x \in Enabled : good[x] # None}) < 2
          IN  /\ \A x \in answered : answers[x] \in AnswersOf(x)
              /\ lastGood' = good
              /\ moved' = (good # lastGood)
              /\ refresh' = IF nothingNew \/ few THEN Resting
                            ELSE [refresh EXCEPT !.at = "assessed", !.assessed = Assess(StandIn(good, answered))]
    /\ UNCHANGED <<pairs, version, flagging, dbReady, activeRows, pairRows, decided, sheltered, budget>>

(* PAIR_CONFLICT: the upsert leaves the flags of a known pair alone. *)
UpsertResets(keys) == [k \in DOMAIN pairRows \cup keys |-> IF k \in keys THEN NoFlags ELSE pairRows[k]]

Upsert(keys) == [k \in DOMAIN pairRows \cup keys |-> IF k \in DOMAIN pairRows THEN pairRows[k] ELSE NoFlags]

(* DEACTIVATE_MISSING, for the exchanges that have a contract at all. *)
Deactivated(good) ==
    LET listing == {x \in Enabled : good[x] # None /\ DOMAIN good[x] # {}}
    IN  {c \in activeRows : c.exchange \in listing} \ Contracts(good)

(* save_catalog, one transaction: all of it, or nothing and no flags come back. *)
SaveCatalog ==
    /\ refresh.at = "assessed"
    /\ \/ /\ dbReady
          /\ LET keys == {KeyOf(a) : a \in refresh.assessed}
             IN  /\ pairRows' = Upsert(keys)
                 /\ refresh' = [refresh EXCEPT !.at = "saved", !.stored = {[key |-> k, flags |-> Upsert(keys)[k]] : k \in keys}]
          /\ activeRows' = (activeRows \cup Contracts(lastGood)) \ Deactivated(lastGood)
       \/ /\ refresh' = [refresh EXCEPT !.at = "saved"]
          /\ UNCHANGED <<pairRows, activeRows>>
    /\ UNCHANGED <<lastGood, pairs, version, flagging, dbReady, decided, sheltered, moved, budget>>

(* The new records take the flags that came back, else those of the old record. *)
SwapRecords ==
    LET flagsOf(k) == LET s == {r \in refresh.stored : r.key = k} IN
            IF s # {} THEN (CHOOSE r \in s : TRUE).flags
            ELSE IF k \in DOMAIN pairs THEN pairs[k].flags ELSE NoFlags
        hasId(k) == (\E r \in refresh.stored : r.key = k) \/ (k \in DOMAIN pairs /\ pairs[k].hasId)
    IN  /\ refresh.at = "saved"
        /\ pairs' = [k \in {KeyOf(a) : a \in refresh.assessed} |->
                        [reason |-> (CHOOSE a \in refresh.assessed : a.key = k).reason,
                         hasId |-> hasId(k), flags |-> flagsOf(k)]]
        /\ version' = version + 1
        /\ refresh' = Resting
        /\ UNCHANGED <<lastGood, flagging, dbReady, activeRows, pairRows, decided, sheltered, moved, budget>>
--------------------------------------------------------------------------------
(* set_flags, called with one flag and its value. *)
With(flags, flag, value) == [flags EXCEPT ![flag] = value]

Remember(k, flags) == [j \in DOMAIN decided \cup {k} |-> IF j = k THEN flags ELSE decided[j]]

(* With the database: the row is written now, the record after the answer. *)
WriteFlags(k, flag, value) ==
    /\ flagging = None /\ budget.decisions > 0
    /\ k \in DOMAIN pairs /\ pairs[k].hasId /\ dbReady
    /\ pairRows' = [pairRows EXCEPT ![k] = With(@, flag, value)]
    /\ flagging' = [key |-> k, version |-> version, flags |-> pairRows'[k]]
    /\ sheltered' = (sheltered /\ refresh.at = "idle")
    /\ budget' = [budget EXCEPT !.decisions = @ - 1]
    /\ UNCHANGED <<lastGood, pairs, version, refresh, dbReady, activeRows, decided, moved>>

(* The record that was looked up before the await is changed, current or not. *)
FlagsWritten ==
    /\ flagging # None
    /\ pairs' = IF flagging.version = version THEN [pairs EXCEPT ![flagging.key].flags = flagging.flags] ELSE pairs
    /\ decided' = Remember(flagging.key, flagging.flags)
    /\ flagging' = None
    /\ UNCHANGED <<lastGood, version, refresh, dbReady, activeRows, pairRows, sheltered, moved, budget>>

(* Without the database the decision is made in memory alone. *)
SetInMemory(k, flag, value) ==
    /\ flagging = None /\ budget.decisions > 0
    /\ k \in DOMAIN pairs /\ ~(pairs[k].hasId /\ dbReady)
    /\ pairs' = [pairs EXCEPT ![k].flags = With(@, flag, value)]
    /\ decided' = Remember(k, pairs'[k].flags)
    /\ sheltered' = FALSE
    /\ budget' = [budget EXCEPT !.decisions = @ - 1]
    /\ UNCHANGED <<lastGood, version, refresh, flagging, dbReady, activeRows, pairRows, moved>>

DatabaseChanges ==
    /\ flagging = None
    /\ dbReady' = ~dbReady
    /\ UNCHANGED <<lastGood, pairs, version, refresh, flagging, activeRows, pairRows, decided, sheltered, moved, budget>>

(* A restart forgets the memory; a decision made without the database is gone *)
(* with it, which set_flags says.                                             *)
Restart ==
    /\ budget.restarts > 0 /\ flagging = None
    /\ budget' = [budget EXCEPT !.restarts = @ - 1]
    /\ lastGood' = [x \in Enabled |-> None]
    /\ pairs' = << >> /\ version' = 0 /\ refresh' = Resting
    /\ decided' = IF sheltered THEN decided ELSE << >>
    /\ moved' = FALSE
    /\ UNCHANGED <<flagging, dbReady, activeRows, pairRows, sheltered>>

Next ==
    \/ \E names \in {Enabled, Missing} : StartRefresh(names)
    \/ LoadsArrive \/ SaveCatalog \/ SwapRecords
    \/ \E k \in DOMAIN pairs, flag \in DOMAIN NoFlags, value \in BOOLEAN :
          WriteFlags(k, flag, value) \/ SetInMemory(k, flag, value)
    \/ FlagsWritten \/ DatabaseChanges \/ Restart

Spec == Init /\ [][Next]_vars
--------------------------------------------------------------------------------
(* "Losing manual decisions on refresh" (storage/catalog.py:5): decisions     *)
(* that reached the table while no refresh was on its way are in force        *)
(* through failing exchanges, delistings, outages of the database and         *)
(* restarts - in the table always, and in memory whenever it came from there. *)
StoredDecisionsStand ==
    sheltered => \A k \in DOMAIN decided :
        /\ k \in DOMAIN pairRows /\ (flagging = None => pairRows[k] = decided[k])
        /\ k \in DOMAIN pairs /\ flagging = None /\ pairs[k].hasId => pairs[k].flags = decided[k]

(* "Pairs vanishing because one exchange failed to answer" (instruments/      *)
(* service.py:5): the set of pairs changes only after an answer that said     *)
(* something new.                                                             *)
PairsOutliveFailures ==
    [][version' > version /\ ~moved /\ version > 0 => DOMAIN pairs \subseteq DOMAIN pairs']_vars

(* "Without the database the decision lives until the next restart only"      *)
(* (service.py:258). The code forgets it earlier: the first refresh after the *)
(* database came back overwrites it with the row.                             *)
DecisionsLiveUntilRestart ==
    \A k \in DOMAIN decided \cap DOMAIN pairs : flagging = None => pairs[k].flags = decided[k]
================================================================================
