----------------------------- MODULE OutageAlarms -----------------------------
(***************************************************************************)
(* How a broken connection reaches the phone: the link monitor of          *)
(* exchanges/service.py, the connection state of storage/writer.py, and    *)
(* the part of alerts/notifier.py that holds a break back until it has     *)
(* lasted and tells a recovery only of a break it told.  A subject is an   *)
(* exchange, or the database; one time step is one round of run_outages.   *)
(***************************************************************************)
EXTENDS Naturals, FiniteSets

CONSTANTS
    Exchanges,              \* exchanges probed by the monitor
    Db,                     \* the database, a subject of its own
    FailuresBeforeDown,     \* failed probes in a row before a link is down
    Hold,                   \* rounds a break has to last before it is told
    QuietStart, QuietEnd,   \* quiet hours, as times of the day
    Day,                    \* length of a day
    MaxTime,                \* bound of the clock
    None

Subjects == Exchanges \cup {Db}

VARIABLES
    now,        \* the clock
    flushed,    \* flush_outages has run at this time
    reachable,  \* subjects the network lets the program reach
    link,       \* link state of a subject: "unknown", "up" or "down"
    failures,   \* failed probes in a row
    warming,    \* exchanges whose first probe is being repeated
    pending,    \* _pending: since when a break is held back, or None
    broken,     \* _broken: subjects whose break was told
    said,       \* the last message about a subject: "nothing", "down" or "up"
    downSince   \* when the link last went down (kept for the properties)

vars == <<now, flushed, reachable, link, failures, warming, pending, broken, said, downSince>>

(* QuietHours.covers; equal ends mean that there are no quiet hours. *)
Covers(t) ==
    LET minute == t % Day
    IN  CASE QuietStart = QuietEnd -> FALSE
          [] QuietStart < QuietEnd -> QuietStart <= minute /\ minute < QuietEnd
          [] OTHER -> minute >= QuietStart \/ minute < QuietEnd

Init ==
    /\ now = 0 /\ flushed = FALSE
    /\ reachable \in SUBSET Subjects
    /\ link = [s \in Subjects |-> "unknown"]
    /\ failures = [x \in Exchanges |-> 0]
    /\ warming = {}
    /\ pending = [s \in Subjects |-> None]
    /\ broken = {}
    /\ said = [s \in Subjects |-> "nothing"]
    /\ downSince = [s \in Subjects |-> 0]
--------------------------------------------------------------------------------
(* on_event of link_down or db_unavailable: held back from its first moment. *)
OnBreak(s) ==
    /\ pending' = [pending EXCEPT ![s] = IF @ = None THEN now ELSE @]
    /\ UNCHANGED <<broken, said>>

(* on_event of link_up or db_connected. A break still held back is dropped    *)
(* unsaid, and a recovery from no told break is no news; in quiet hours the   *)
(* event is not looked at.                                                    *)
OnRecovery(s) ==
    IF Covers(now) THEN UNCHANGED <<pending, broken, said>>
    ELSE IF pending[s] # None
    THEN pending' = [pending EXCEPT ![s] = None] /\ UNCHANGED <<broken, said>>
    ELSE /\ broken' = broken \ {s}
         /\ said' = IF s \in broken THEN [said EXCEPT ![s] = "up"] ELSE said
         /\ UNCHANGED pending

GoesDown(s) ==
    /\ link' = [link EXCEPT ![s] = "down"]
    /\ downSince' = [downSince EXCEPT ![s] = now]
    /\ OnBreak(s)

ComesUp(s) ==
    /\ link' = [link EXCEPT ![s] = "up"]
    /\ IF link[s] # "up" THEN OnRecovery(s) ELSE UNCHANGED <<pending, broken, said>>
    /\ UNCHANGED downSince

(* A probe that fails: the link needs several of them in a row to go down. *)
ProbeFails(x) ==
    /\ x \notin reachable
    /\ warming' = warming \ {x}
    /\ failures' = [failures EXCEPT ![x] = IF @ < FailuresBeforeDown THEN @ + 1 ELSE @]
    /\ IF failures'[x] >= FailuresBeforeDown /\ link[x] # "down" THEN GoesDown(x)
       ELSE UNCHANGED <<link, pending, broken, said, downSince>>
    /\ UNCHANGED <<now, flushed, reachable>>

(* The first answer ever is measured again, on the warmed connection. *)
ProbeWarmsUp(x) ==
    /\ x \in reachable /\ link[x] = "unknown" /\ x \notin warming
    /\ warming' = warming \cup {x}
    /\ UNCHANGED <<now, flushed, reachable, link, failures, pending, broken, said, downSince>>

ProbeAnswers(x) ==
    /\ x \in reachable
    /\ link[x] # "unknown" \/ x \in warming
    /\ warming' = warming \ {x}
    /\ failures' = [failures EXCEPT ![x] = 0]
    /\ ComesUp(x)
    /\ UNCHANGED <<now, flushed, reachable>>

(* The write queue notices a lost or a returned database: _set_up. *)
DatabaseLost ==
    /\ Db \notin reachable /\ link[Db] # "down"
    /\ GoesDown(Db)
    /\ UNCHANGED <<now, flushed, reachable, failures, warming>>

DatabaseBack ==
    /\ Db \in reachable /\ link[Db] # "up"
    /\ ComesUp(Db)
    /\ UNCHANGED <<now, flushed, reachable, failures, warming>>

(* Mutant: the breaks of the night wait for the morning. *)
LastedByDay == {s \in Subjects : pending[s] # None /\ now - pending[s] >= Hold /\ ~Covers(now)}

(* flush_outages: every break that outlived the hold is told, once. *)
Lasted == {s \in Subjects : pending[s] # None /\ now - pending[s] >= Hold}

FlushOutages ==
    /\ ~flushed
    /\ flushed' = TRUE
    /\ pending' = [s \in Subjects |-> IF s \in Lasted THEN None ELSE pending[s]]
    /\ broken' = broken \cup Lasted
    /\ said' = [s \in Subjects |-> IF s \in Lasted THEN "down" ELSE said[s]]
    /\ UNCHANGED <<now, reachable, link, failures, warming, downSince>>

(* The clock moves on once the outage loop has run. *)
Tick ==
    /\ flushed /\ now < MaxTime
    /\ now' = now + 1 /\ flushed' = FALSE
    /\ UNCHANGED <<reachable, link, failures, warming, pending, broken, said, downSince>>

NetworkChanges(s) ==
    /\ reachable' = IF s \in reachable THEN reachable \ {s} ELSE reachable \cup {s}
    /\ UNCHANGED <<now, flushed, link, failures, warming, pending, broken, said, downSince>>

Next ==
    \/ \E x \in Exchanges : ProbeFails(x) \/ ProbeWarmsUp(x) \/ ProbeAnswers(x)
    \/ DatabaseLost \/ DatabaseBack
    \/ FlushOutages \/ Tick
    \/ \E s \in Subjects : NetworkChanges(s)

Spec == Init /\ [][Next]_vars
--------------------------------------------------------------------------------
(* "A break that outlives the hold is a different thing" (notifier.py:47-53): *)
(* once the outage loop has run, no break older than the hold is unsaid, by   *)
(* day or by night.                                                           *)
LastingBreakIsTold ==
    \A s \in Subjects :
        link[s] = "down" /\ flushed /\ now - downSince[s] >= Hold => said[s] = "down"

(* "A break that never outlived the hold was never told": what is told as a   *)
(* break is broken when it is told. The code does not keep this: a recovery   *)
(* in quiet hours leaves the break held back, and the hold runs out on it.    *)
ToldBreakIsLasting ==
    [][\A s \in Subjects : said'[s] = "down" /\ said[s] # "down" => link[s] = "down"]_vars
================================================================================
