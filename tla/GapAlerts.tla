------------------------------- MODULE GapAlerts -------------------------------
(***************************************************************************)
(* From a row of the feed to a message on the phone and its last word:     *)
(* core/alerts.py decides once a second which coins are news and follows   *)
(* the announced gaps, alerts/notifier.py narrows that by the screen's     *)
(* filters, quiet hours and an hourly rate, and alerts/telegram.py sends   *)
(* from a queue, remembering which message announced which gap.  The feed, *)
(* the clock and Telegram's answers are free.                              *)
(***************************************************************************)
EXTENDS Integers, Sequences, FiniteSets, SequencesExt

CONSTANTS
    Keys,               \* gaps the feed may show
    Coin,               \* the coin of a gap
    Values,             \* total_pct a row may show
    Cooldown,           \* cooldown_ms
    GoneAfter,          \* gone_after_ms
    Hour, MaxPerHour,   \* the hourly ceiling
    MinTotal,           \* the filter of the screen on total_pct
    QuietTimes,         \* times in quiet hours
    QueueLimit,         \* QUEUE_LIMIT
    MaxTime,            \* bound of the clock
    None

VARIABLES
    now,
    rows,       \* the feed: gap -> [total, clean, lasted]
    caughtUp,   \* the backlog of the start was noted
    announced,  \* _announced: coin -> time, or None
    live,       \* _live: gap -> [since, peak, missing], or None
    sentAt,     \* _sent_at: times of the messages of the last hour
    texts,      \* _texts: gap -> the announcement last composed for it
    queue,      \* the sender's queue
    sending,    \* the item the sender is busy with, or None
    messageIds, \* message_ids: gap -> the announcement that was delivered
    chat,       \* announcements delivered: id -> announcement whose text it shows closed, or None
    nextId,     \* announcements composed so far
    news        \* coins announced to anyone, with the time (kept for the properties)

vars == <<now, rows, caughtUp, announced, live, sentAt, texts, queue, sending, messageIds, chat, nextId, news>>

Coins == {Coin[k] : k \in Keys}

Row == [total : Values, clean : BOOLEAN, lasted : BOOLEAN]

Nothing(S) == [x \in S |-> None]

Init ==
    /\ now = 0 /\ caughtUp = FALSE
    /\ rows = Nothing(Keys)
    /\ announced = Nothing(Coins)
    /\ live = Nothing(Keys)
    /\ sentAt = << >> /\ queue = << >> /\ sending = None
    /\ texts = Nothing(Keys) /\ messageIds = Nothing(Keys)
    /\ chat = << >> /\ nextId = 1
    /\ news = Nothing(Coins)
--------------------------------------------------------------------------------
(* decide. A row counts when no market reason blocks it and it has held for   *)
(* min_lifetime_ms; a coin counts once in a cooldown, and of two gaps of one  *)
(* coin in one round the first row is told.                                   *)
Fresh(t) == [c \in Coins |-> IF announced[c] # None /\ t - announced[c] < 2 * Cooldown THEN announced[c] ELSE None]

IsNews(k, t) ==
    LET last == Fresh(t)[Coin[k]]
    IN  /\ rows[k] # None /\ rows[k].clean /\ rows[k].lasted
        /\ last # None => t - last >= Cooldown

(* Mutant: what was told is remembered by the pair of venues. *)
FirstOfKey(told, t) == told = {k \in Keys : IsNews(k, t)}

FirstOfCoin(told, t) ==
    /\ told \subseteq {k \in Keys : IsNews(k, t)}
    /\ \A k \in Keys : IsNews(k, t) => Cardinality({j \in told : Coin[j] = Coin[k]}) = 1

Decide(told, t) == [c \in Coins |-> IF \E k \in told : Coin[k] = c THEN t ELSE Fresh(t)[c]]

(* track: an announced gap is followed until it was away for gone_after_ms. *)
Higher(x, y) == IF x >= y THEN x ELSE y

Track(k, t) ==
    IF live[k] = None THEN None
    ELSE IF rows[k] # None THEN [live[k] EXCEPT !.peak = Higher(@, rows[k].total), !.missing = None]
    ELSE [live[k] EXCEPT !.missing = IF @ = None THEN t ELSE @]

IsOver(k, t) == LET e == Track(k, t) IN e # None /\ e.missing # None /\ t - e.missing >= GoneAfter

(* The first look only notes what is already on the screen. *)
CatchUp ==
    /\ ~caughtUp
    /\ caughtUp' = TRUE
    /\ \E told \in SUBSET Keys : FirstOfCoin(told, now) /\ announced' = Decide(told, now)
    /\ UNCHANGED <<now, rows, live, sentAt, texts, queue, sending, messageIds, chat, nextId, news>>
--------------------------------------------------------------------------------
(* on_alerts: filters, quiet hours and the rate, one alert after another. *)
Passes(k) == rows[k].total >= MinTotal

Recent(times, t) == SelectSeq(times, LAMBDA u : t - u <= Hour)

WithinRate(times, t) == MaxPerHour = 0 \/ Len(Recent(times, t)) < MaxPerHour

Put(q, item) == IF Len(q) < QueueLimit THEN Append(q, item) ELSE q

Post(k, id) == [kind |-> "post", key |-> k, id |-> id]

Amend(to, text) == [kind |-> "amend", to |-> to, text |-> text]

(* State of the notifier while it goes through the alerts. *)
Notifier == [sentAt |-> sentAt, texts |-> texts, queue |-> queue, nextId |-> nextId]

OnAlert(n, k) ==
    IF ~Passes(k) \/ now \in QuietTimes THEN n
    ELSE IF ~WithinRate(n.sentAt, now) THEN [n EXCEPT !.sentAt = Recent(@, now)]
    ELSE [sentAt |-> Append(Recent(n.sentAt, now), now),
          texts |-> [n.texts EXCEPT ![k] = n.nextId],
          queue |-> Put(n.queue, Post(k, n.nextId)),
          nextId |-> n.nextId + 1]

(* on_finished: the message that announced the gap is amended, if it is known. *)
OnFinished(n, k) ==
    [n EXCEPT !.texts[k] = None,
              !.queue = IF messageIds[k] = None \/ n.texts[k] = None THEN @
                        ELSE Put(@, Amend(messageIds[k], n.texts[k]))]

(* One round of check(). *)
Check ==
    /\ caughtUp
    /\ \E told \in SUBSET Keys :
        /\ FirstOfCoin(told, now)
        /\ LET over == {k \in Keys : IsOver(k, now)}
               alerted == FoldLeft(OnAlert, Notifier, SetToSeq(told))
               closed == FoldLeft(OnFinished, alerted, SetToSeq(over))
           IN  /\ announced' = Decide(told, now)
               /\ live' = [k \in Keys |->
                              IF k \in told THEN [since |-> now, peak |-> rows[k].total, missing |-> None]
                              ELSE IF k \in over THEN None ELSE Track(k, now)]
               /\ sentAt' = closed.sentAt /\ texts' = closed.texts
               /\ queue' = closed.queue /\ nextId' = closed.nextId
               /\ messageIds' = [k \in Keys |-> IF k \in over THEN None ELSE messageIds[k]]
               /\ news' = [c \in Coins |-> IF \E k \in told : Coin[k] = c THEN now ELSE news[c]]
    /\ now < MaxTime /\ now' = now + 1
    /\ UNCHANGED <<rows, caughtUp, sending, chat>>
--------------------------------------------------------------------------------
(* The sender takes one item at a time, waits its pace and calls Telegram.    *)
TakeItem ==
    /\ sending = None /\ queue # << >>
    /\ sending' = Head(queue)
    /\ queue' = Tail(queue)
    /\ UNCHANGED <<now, rows, caughtUp, announced, live, sentAt, texts, messageIds, chat, nextId, news>>

Deliver ==
    /\ sending # None
    /\ sending' = None
    /\ IF sending.kind = "post"
       THEN /\ messageIds' = [messageIds EXCEPT ![sending.key] = sending.id]
            /\ chat' = [i \in DOMAIN chat \cup {sending.id} |-> IF i = sending.id THEN None ELSE chat[i]]
       ELSE /\ chat' = [chat EXCEPT ![sending.to] = sending.text]
            /\ UNCHANGED messageIds
    /\ UNCHANGED <<now, rows, caughtUp, announced, live, sentAt, texts, queue, nextId, news>>

(* A message refused or given up on after MAX_ATTEMPTS is counted and gone.   *)
DeliveryFails ==
    /\ sending # None
    /\ sending' = None
    /\ UNCHANGED <<now, rows, caughtUp, announced, live, sentAt, texts, queue, messageIds, chat, nextId, news>>

(* The feed moves between two rounds. *)
FeedMoves(k) ==
    /\ rows' \in {[rows EXCEPT ![k] = r] : r \in Row \cup {None}}
    /\ UNCHANGED <<now, caughtUp, announced, live, sentAt, texts, queue, sending, messageIds, chat, nextId, news>>

Next ==
    \/ CatchUp \/ Check \/ TakeItem \/ Deliver \/ DeliveryFails
    \/ \E k \in Keys : FeedMoves(k)

Spec == Init /\ [][Next]_vars
--------------------------------------------------------------------------------
(* One round announces one gap of a coin, a cooldown after the last one. *)
TellsOnce ==
    \A c \in Coins :
        LET told == {k \in Keys : Coin[k] = c /\ live'[k] # None /\ live'[k].since = now /\ now' # now}
        IN  /\ Cardinality(told) <= 1
            /\ told # {} /\ news[c] # None => now - news[c] >= Cooldown

(* "The same coin is not announced again within this window" (core/alerts.py: *)
(* 35): whichever of its gaps come and go, two announcements of a coin are a  *)
(* cooldown apart, and one round announces one gap of it.                     *)
CoinIsNewsOnce == [][TellsOnce]_vars

(* "The message that announced a gap is the one amended when the gap ends"    *)
(* (notifier.py:7): a closing note is never put on another announcement.      *)
NotesAreInPlace == \A i \in DOMAIN chat : chat[i] # None => chat[i] = i
================================================================================
