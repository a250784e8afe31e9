------------------------------ MODULE MCRecovery ------------------------------
(***************************************************************************)
(* What goes away and comes back while the terminal runs: the database the *)
(* write queue waits for, the connection of a market stream, the book of a *)
(* contract and the gaps people are told of.  The four do not share state, *)
(* so a behaviour follows one of them while the others rest in one of      *)
(* their initial states.                                                   *)
(***************************************************************************)
EXTENDS SharedBook, Sequences, FiniteSets

CONSTANTS
    Bad, MaxBatch, MaxRows, MaxOutages,     \* WriteQueue
    Contracts, PerConnection, Batch, Wishes, MaxWishes, MaxResubscribes, MaxDrops,  \* Streams
    Keys, CoinOf, Values, CoinCooldown, GoneAfter, Hour, MaxPerHour, MinTotal, QuietTimes, QueueLimit,
    MaxTime                                 \* GapAlerts

VARIABLES
    focus,                                                                  \* the part followed
    sent, pending, files, spooled, ready, task, stage, stored, newest, refused, reachable, outages,
    ends,                                                                   \* WriteQueue
    pooled, placement, opened, desired, subscribed, up, work, batchSent, server,
    wished, resubscribed, drops,                                            \* Streams
    now, rows, caughtUp, announced, live, sentAt, texts, queue, sending, messageIds, chat, nextId,
    news                                                                    \* GapAlerts

queueVars == <<sent, pending, files, spooled, ready, task, stage, stored, newest, refused, reachable, outages, ends>>
streamVars == <<pooled, placement, opened, desired, subscribed, up, work, batchSent, server, wished, resubscribed, drops>>
alertVars == <<now, rows, caughtUp, announced, live, sentAt, texts, queue, sending, messageIds, chat, nextId, news>>
allVars == <<focus, vars, queueVars, streamVars, alertVars>>

(* Every order in which the engine may rank contracts. *)
Rankings ==
    {w \in UNION {[1 .. n -> Contracts] : n \in 0 .. Cardinality(Contracts)} :
        \A i, j \in DOMAIN w : w[i] = w[j] => i = j}

Depth == INSTANCE Streams WITH sent <- batchSent, Symbols <- Contracts

(* Two gaps of one coin and a third of another. *)
SharedCoin == [k \in Keys |-> IF k = "k3" THEN "t" ELSE "s"]

Gaps == INSTANCE GapAlerts WITH Coin <- CoinOf, Cooldown <- CoinCooldown

Queue == INSTANCE WriteQueue WITH Ends <- {}, MaxEnds <- 0

Parts == {"queue", "streams", "gaps", "book"}

(* The initial state a part rests in. *)
RestOf(part) ==
    CASE part = "queue"   -> reachable = TRUE
      [] part = "streams" -> pooled = TRUE
      [] part = "gaps"    -> TRUE
      [] part = "book"    -> price = 10

Begin(part) == IF focus = part THEN TRUE ELSE RestOf(part)

InitAll ==
    /\ focus \in Parts
    /\ Init /\ Queue!Init /\ Depth!Init /\ Gaps!Init
    /\ \A part \in Parts : Begin(part)

BookStep ==
    /\ focus = "book" /\ Next
    /\ UNCHANGED <<focus, queueVars, streamVars, alertVars>>

QueueStep ==
    /\ focus = "queue" /\ Queue!Next
    /\ UNCHANGED <<focus, vars, streamVars, alertVars>>

StreamStep ==
    /\ focus = "streams" /\ Depth!Next
    /\ UNCHANGED <<focus, vars, queueVars, alertVars>>

GapStep ==
    /\ focus = "gaps" /\ Gaps!Next
    /\ UNCHANGED <<focus, vars, queueVars, streamVars>>

NextAll == BookStep \/ QueueStep \/ StreamStep \/ GapStep

SpecAll == InitAll /\ [][NextAll]_allVars

(* The fairness of WriteQueue, Streams and SharedBook, for the part that is followed. *)
BookRuns(Step) == focus = "book" /\ Step /\ UNCHANGED <<focus, queueVars, streamVars, alertVars>>
QueueRuns(Step) == focus = "queue" /\ Step /\ UNCHANGED <<focus, vars, streamVars, alertVars>>
StreamRuns(Step) == focus = "streams" /\ Step /\ UNCHANGED <<focus, vars, queueVars, alertVars>>

FairnessAll ==
    /\ WF_allVars(BookRuns(Ticks)) /\ WF_allVars(BookRuns(SetBook))
    /\ WF_allVars(QueueRuns(Queue!StartConnect)) /\ WF_allVars(QueueRuns(Queue!TaskStep))
    /\ WF_allVars(QueueRuns(Queue!Start))
    /\ \A s \in Depth!Sockets : WF_allVars(StreamRuns(Depth!Connect(s))) /\ WF_allVars(StreamRuns(Depth!Sync(s)))

FairSpecAll == SpecAll /\ FairnessAll
-----------------------------------------------------------------------------
(* The properties of the parts, stated in their modules; those of the shared *)
(* book come with SharedBook.                                                *)
WithinLimit == Depth!WithinLimit

DepthSettles == Depth!DepthSettles

CoinIsNewsOnce == Gaps!CoinIsNewsOnce

NewestWins == Queue!NewestWins

ImplementsLog == Queue!ImplementsLog

RowsArrive == Queue!RowsArrive
=============================================================================
