------------------------------ MODULE FundingRates ------------------------------
(***************************************************************************)
(* Funding of a pair: the rates of ten exchanges, each read in its own     *)
(* form by market/funding.py and kept by FundingService, projected over a  *)
(* holding horizon by core/funding.py, and shown by the engine from a      *)
(* cache that it drops when a rate or the settlements ahead change.        *)
(* Time is in ticks; Hour is the number of ticks of an hour.               *)
(***************************************************************************)
EXTENDS Integers, FiniteSets, FiniteSetsExt

CONSTANTS
    LongVenues, ShortVenues,    \* exchanges of the legs
    Fractions,                  \* rates of a settlement
    Hour,                       \* ticks of an hour
    Intervals,                  \* hours between settlements
    DefaultInterval,            \* hours, when the exchange does not say
    Horizon,                    \* hours of funding_horizon_h
    MaxHourly,                  \* MAX_ABS_HOURLY_PCT
    StaleAfter,                 \* STALE_AFTER_S
    SchedulePoll,               \* SCHEDULE_POLL_S
    MaxTime, MaxChanges,        \* bounds
    None

Sides == {"long", "short"}

HoursPerYear == 8760

VARIABLES
    now,
    venue,      \* the exchange of a leg: its name, interval and first settlement
    fraction,   \* the rate it takes at its settlements now
    changes,    \* changes of the rates so far (bound)
    schedule,   \* _schedules: intervals and settlement times, fetched rarely
    held,       \* _rates of the leg's contract
    updated,    \* _updated_s
    polled,     \* the rate the exchange had at the last poll (for the properties)
    cache       \* _funding_views[direction]

vars == <<now, venue, fraction, changes, schedule, held, updated, polled, cache>>

Abs(x) == IF x < 0 THEN -x ELSE x

(* Settlements of an exchange: every interval, counted from its first. *)
Every(side) == venue[side].interval * Hour

SettlesAt(side, t) == t > 0 /\ (t - venue[side].first) % Every(side) = 0

ComingSettlement(side, t) == CHOOSE u \in t + 1 .. t + Every(side) : SettlesAt(side, u)
--------------------------------------------------------------------------------
(* What the exchanges publish, each in its own unit. *)
Published(side) ==
    LET v == venue[side]
    IN  CASE v.name \in {"binance", "aster"} ->
               [rate |-> fraction[side], next |-> ComingSettlement(side, now),
                listed |-> IF v.interval = DefaultInterval THEN {} ELSE {v.interval}]
          [] v.name = "gate" ->
               [rate |-> fraction[side], seconds |-> v.interval * 3600, next |-> ComingSettlement(side, now)]
          [] v.name \in {"mexc", "bingx", "bybit", "bitget"} ->
               [rate |-> fraction[side], hours |-> v.interval, next |-> ComingSettlement(side, now)]
          [] v.name = "kucoin" ->
               [rate |-> fraction[side], granularity |-> v.interval * 3600000, next |-> ComingSettlement(side, now)]
          [] v.name = "hyperliquid" -> [rate |-> fraction[side]]
          [] OTHER ->     \* variational
               [rate |-> (fraction[side] * HoursPerYear) \div v.interval, seconds |-> v.interval * 3600]

(* _rate: missing and absurd values give no rate. *)
Rate(rate, hours, next) ==
    IF hours = None \/ hours <= 0 \/ Abs(rate) > MaxHourly * hours THEN None
    ELSE [rate |-> rate, interval |-> hours, next |-> next]

(* fundingInfo lists only the contracts with an interval of their own. *)
ParseBinanceLike(answer, info) ==
    Rate(answer.rate, IF info.listed = {} THEN DefaultInterval ELSE Max(info.listed), answer.next)

ParseGate(answer, contracts) == Rate(answer.rate, contracts.seconds \div 3600, contracts.next)

ParseHours(answer) == Rate(answer.rate, answer.hours, answer.next)

ParseKucoin(answer) == Rate(answer.rate, answer.granularity \div 3600000, answer.next)

(* Settlements fall on every whole hour. *)
ParseHyperliquid(answer) == Rate(answer.rate, 1, (now \div Hour + 1) * Hour)

(* The rate of a year; no settlement times. *)
ParseVariational(answer) ==
    LET hours == answer.seconds \div 3600
    IN  Rate((answer.rate * hours) \div HoursPerYear, hours, None)

HasSchedule(side) == venue[side].name \in {"binance", "aster", "gate"}

(* _schedule: the cached list, unless it is too old. *)
ScheduleOf(side) ==
    IF schedule[side] = None \/ now - schedule[side].at > SchedulePoll
    THEN [at |-> now, list |-> Published(side)]
    ELSE schedule[side]

Fetch(side) ==
    LET answer == Published(side)
        list == ScheduleOf(side).list
        name == venue[side].name
    IN  CASE name \in {"binance", "aster"} -> ParseBinanceLike(answer, list)
          [] name = "gate" -> ParseGate(answer, list)
          [] name \in {"mexc", "bingx", "bybit", "bitget"} -> ParseHours(answer)
          [] name = "kucoin" -> ParseKucoin(answer)
          [] name = "hyperliquid" -> ParseHyperliquid(answer)
          [] OTHER -> ParseVariational(answer)

(* One turn of FundingService._loop. *)
Poll(side) ==
    /\ updated[side] # now
    /\ schedule' = [schedule EXCEPT ![side] = IF HasSchedule(side) THEN ScheduleOf(side) ELSE None]
    /\ held' = [held EXCEPT ![side] = Fetch(side)]
    /\ updated' = [updated EXCEPT ![side] = now]
    /\ polled' = [polled EXCEPT ![side] = fraction[side]]
    /\ UNCHANGED <<now, venue, fraction, changes, cache>>

(* The answer for the schedule arrived, the one for the rates did not. *)
PollFails(side) ==
    /\ HasSchedule(side) /\ schedule' = [schedule EXCEPT ![side] = ScheduleOf(side)]
    /\ UNCHANGED <<now, venue, fraction, changes, held, updated, polled, cache>>

(* FundingService.rate *)
CurrentRate(side) ==
    IF updated[side] = None \/ now - updated[side] > StaleAfter THEN None ELSE held[side]
--------------------------------------------------------------------------------
(* next_settlement_ms: a stale next time is rolled forward by whole intervals. *)
NextSettlement(r, t) ==
    IF r.next = None \/ r.next > t THEN r.next
    ELSE r.next + ((t - r.next) \div (r.interval * Hour) + 1) * r.interval * Hour

(* Mutant: the first settlement ahead is not counted. *)
SettlementsAfterFirst(r, t, ticks) ==
    LET following == NextSettlement(r, t)
    IN  IF following = None THEN ticks \div (r.interval * Hour)
        ELSE IF following > t + ticks THEN 0
        ELSE (t + ticks - following) \div (r.interval * Hour)

(* settlements_within (t, t + ticks]; without a schedule it accrues in      *)
(* proportion to time, here in whole intervals.                             *)
SettlementsWithin(r, t, ticks) ==
    LET following == NextSettlement(r, t)
    IN  IF following = None THEN ticks \div (r.interval * Hour)
        ELSE IF following > t + ticks THEN 0
        ELSE 1 + (t + ticks - following) \div (r.interval * Hour)

(* Mutant: only the settlement that passes is looked at, not the one that comes in. *)
ChangesWhenPassed(r, t, ticks) == {NextSettlement(r, t)} \ {None}

(* _changes_ms: the first settlement passes, or the next one comes into the horizon. *)
ChangesAt(r, t, ticks) ==
    IF r.next = None THEN {}
    ELSE {Min({NextSettlement(r, t), NextSettlement(r, t + ticks) - ticks})}

(* pair_funding *)
PairFunding(long, short, t) ==
    IF long = None \/ short = None THEN None
    ELSE LET ticks == Horizon * Hour
             upcoming == {NextSettlement(r, t) : r \in {long, short}} \ {None}
             next == IF upcoming = {} THEN None ELSE Min(upcoming)
             changing == ChangesAt(long, t, ticks) \cup ChangesAt(short, t, ticks)
         IN [horizon |-> short.rate * SettlementsWithin(short, t, ticks)
                         - long.rate * SettlementsWithin(long, t, ticks),
             next |-> next,
             nextPct |-> IF next = None THEN None
                         ELSE (IF NextSettlement(short, t) = next THEN short.rate ELSE 0)
                              - (IF NextSettlement(long, t) = next THEN long.rate ELSE 0),
             changes |-> IF changing = {} THEN None ELSE Min(changing)]

Usable(c) ==
    /\ c # None
    /\ c.until = None \/ now < c.until
    /\ c.long = CurrentRate("long") /\ c.short = CurrentRate("short")

(* engine._pair_funding *)
Show ==
    /\ ~Usable(cache)
    /\ LET funding == PairFunding(CurrentRate("long"), CurrentRate("short"), now)
       IN  cache' = [until |-> IF funding = None THEN None ELSE funding.changes,
                     long |-> CurrentRate("long"), short |-> CurrentRate("short"), funding |-> funding]
    /\ UNCHANGED <<now, venue, fraction, changes, schedule, held, updated, polled>>
--------------------------------------------------------------------------------
(* Hyperliquid settles every hour on the hour. *)
Venues(names) ==
    {v \in [name : names, interval : Intervals, first : 0 .. Max(Intervals) * Hour - 1] :
        /\ v.first < v.interval * Hour
        /\ v.name = "hyperliquid" => v.interval = 1 /\ v.first = 0}

Init ==
    /\ now = 0
    /\ venue \in {[long |-> l, short |-> s] : l \in Venues(LongVenues), s \in Venues(ShortVenues)}
    /\ \E f \in Fractions : fraction = [s \in Sides |-> f]
    /\ changes = 0
    /\ schedule = [s \in Sides |-> None]
    /\ held = [s \in Sides |-> None]
    /\ updated = [s \in Sides |-> None]
    /\ polled = [s \in Sides |-> None]
    /\ cache = None

Tick ==
    /\ now < MaxTime
    /\ now' = now + 1
    /\ UNCHANGED <<venue, fraction, changes, schedule, held, updated, polled, cache>>

(* The exchange sets another rate. *)
RateChanges(side) ==
    /\ changes < MaxChanges
    /\ fraction' \in {[fraction EXCEPT ![side] = f] : f \in Fractions \ {fraction[side]}}
    /\ changes' = changes + 1
    /\ UNCHANGED <<now, venue, schedule, held, updated, polled, cache>>

Next ==
    \/ Tick \/ Show
    \/ \E side \in Sides : Poll(side) \/ PollFails(side) \/ RateChanges(side)

Spec == Init /\ [][Next]_vars
--------------------------------------------------------------------------------
(* What the legs will pay until the horizon, settlement by settlement, at the   *)
(* rates the exchanges had when they were last asked.                           *)
Paid(side) ==
    polled[side] * IF venue[side].name = "variational" THEN Horizon \div venue[side].interval
                   ELSE Cardinality({t \in now + 1 .. now + Horizon * Hour : SettlesAt(side, t)})

(* core/funding: the projected funding of a pair is the sum of the settlements  *)
(* inside the horizon, each leg with its own interval, whatever unit its        *)
(* exchange publishes in and however old the settlement times are.              *)
ProjectionAddsUp ==
    LET long == CurrentRate("long")
        short == CurrentRate("short")
    IN  long # None /\ short # None =>
            PairFunding(long, short, now).horizon = Paid("short") - Paid("long")

(* The funding shown for a pair comes from a cache; it is what a computation   *)
(* with the current rates at this moment gives, whatever settlements have      *)
(* passed or come into the horizon since it was filled.                         *)
CachedIsCurrent ==
    LET fresh == PairFunding(CurrentRate("long"), CurrentRate("short"), now)
    IN  Usable(cache) =>
            /\ (fresh = None) = (cache.funding = None)
            /\ fresh # None =>
                /\ cache.funding.horizon = fresh.horizon
                /\ cache.funding.next = fresh.next
                /\ cache.funding.nextPct = fresh.nextPct
================================================================================
