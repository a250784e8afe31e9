-------------------------------- MODULE Streams --------------------------------
(***************************************************************************)
(* Order book subscriptions: the contracts the engine asks for, spread      *)
(* over websocket connections by DepthPool (or by the copy of it in the     *)
(* BingX, Gate and MEXC feeds), and ManagedSocket, which reconnects and     *)
(* brings the subscriptions of its connection to the desired set with      *)
(* paced messages.  Binance and Aster put every book on one connection.    *)
(***************************************************************************)
EXTENDS Naturals, Sequences, FiniteSets, SequencesExt

CONSTANTS
    Symbols,            \* contracts of one exchange
    PerConnection,      \* books a connection may carry
    Batch,              \* contracts of one subscribe message
    Wishes,             \* what the engine may ask for: sequences of contracts
    MaxWishes,          \* bound of set_depth calls
    MaxResubscribes,    \* bound of resubscribe_depth calls
    MaxDrops            \* bound of lost connections

VARIABLES
    pooled,         \* books are spread over connections (not Binance and Aster)
    placement,      \* _placement: the connection of a contract
    opened,         \* sockets made so far
    desired,        \* ManagedSocket.desired
    subscribed,     \* ManagedSocket._subscribed
    up,             \* the connection is open
    work,           \* batches _sync still has to send
    sent,           \* the first of them is sent and its pause not yet over
    server,         \* what the exchange streams on the open connection
    wished, resubscribed, drops     \* the bounds

vars == <<pooled, placement, opened, desired, subscribed, up, work, sent, server, wished, resubscribed, drops>>

Sockets == 1 .. Cardinality(Symbols)

Started == 1 .. opened

Init ==
    /\ pooled \in BOOLEAN
    /\ placement = <<>>
    /\ opened = IF pooled THEN 0 ELSE 1
    /\ desired = [s \in Sockets |-> {}]
    /\ subscribed = [s \in Sockets |-> {}]
    /\ server = [s \in Sockets |-> {}]
    /\ up = [s \in Sockets |-> FALSE]
    /\ work = [s \in Sockets |-> <<>>]
    /\ sent = [s \in Sockets |-> FALSE]
    /\ wished = 0 /\ resubscribed = 0 /\ drops = 0
--------------------------------------------------------------------------------
Load(placed, s) == Cardinality({x \in DOMAIN placed : placed[x] = s})

(* The first connection with room; the one after the last is made for it. *)
FirstWithRoom(placed) == Min({s \in Sockets : Load(placed, s) < PerConnection})

Place(placed, x) ==
    IF x \in DOMAIN placed THEN placed
    ELSE [y \in DOMAIN placed \cup {x} |-> IF y = x THEN FirstWithRoom(placed) ELSE placed[y]]

(* The contracts of the wish take their places one after the other. *)
Placed(kept, wish) ==
    LET placed[k \in 0 .. Len(wish)] == IF k = 0 THEN kept ELSE Place(placed[k - 1], wish[k])
    IN  placed[Len(wish)]

(* set_depth of the pool: what is no longer wanted gives up its place first. *)
PoolSetDepth(wish) ==
    LET kept == Restrict(placement, DOMAIN placement \cap ToSet(wish))
        placed == Placed(kept, wish)
    IN  /\ placement' = placed
        /\ opened' = Max({opened} \cup {placed[x] : x \in DOMAIN placed})
        /\ desired' = [s \in Sockets |-> {x \in DOMAIN placed : placed[x] = s}]

(* set_depth of BinanceStreams: one connection, and the first of the list. *)
SingleSetDepth(wish) ==
    /\ desired' = [desired EXCEPT ![1] = ToSet(SubSeq(wish, 1, Min({Len(wish), PerConnection})))]
    /\ UNCHANGED <<placement, opened>>

SetDepth ==
    /\ wished < MaxWishes
    /\ \E wish \in Wishes : IF pooled THEN PoolSetDepth(wish) ELSE SingleSetDepth(wish)
    /\ wished' = wished + 1
    /\ UNCHANGED <<pooled, subscribed, up, work, sent, server, resubscribed, drops>>

SocketOf(x) == IF pooled THEN placement[x] ELSE 1

(* The engine resubscribes a contract whose book went silent. *)
ResubscribeDepth ==
    /\ resubscribed < MaxResubscribes
    /\ \E x \in UNION {desired[s] : s \in Started} :
         subscribed' = [subscribed EXCEPT ![SocketOf(x)] = @ \ {x}]
    /\ resubscribed' = resubscribed + 1
    /\ UNCHANGED <<pooled, placement, opened, desired, up, work, sent, server, wished, drops>>
--------------------------------------------------------------------------------
(* Mutant: the subscriptions of the lost connection are taken for those of the new one. *)
RememberedFrom(s) == subscribed[s]

(* What a new connection is taken to carry. *)
Remembered(s) == {}

Connect(s) ==
    /\ s \in Started /\ ~up[s]
    /\ up' = [up EXCEPT ![s] = TRUE]
    /\ subscribed' = [subscribed EXCEPT ![s] = Remembered(s)]
    /\ UNCHANGED <<pooled, placement, opened, desired, work, sent, server, wished, resubscribed, drops>>

(* The connection closes: its _sync task is cancelled wherever it was. *)
Disconnect(s) ==
    /\ up[s] /\ drops < MaxDrops
    /\ drops' = drops + 1
    /\ up' = [up EXCEPT ![s] = FALSE]
    /\ subscribed' = [subscribed EXCEPT ![s] = Remembered(s)]
    /\ server' = [server EXCEPT ![s] = {}]
    /\ work' = [work EXCEPT ![s] = <<>>]
    /\ sent' = [sent EXCEPT ![s] = FALSE]
    /\ UNCHANGED <<pooled, placement, opened, desired, wished, resubscribed>>

Batches(items, subscribe) ==
    LET q == SetToSeq(items)
    IN  [i \in 1 .. (Len(q) + Batch - 1) \div Batch |->
            [items |-> {q[k] : k \in (i - 1) * Batch + 1 .. Min({i * Batch, Len(q)})}, subscribe |-> subscribe]]

(* Mutant: the new subscriptions are sent before the old ones are given up. *)
PlannedAddFirst(remove, add) == Batches(add, TRUE) \o Batches(remove, FALSE)

Planned(remove, add) == Batches(remove, FALSE) \o Batches(add, TRUE)

(* One turn of _sync: what differs now is what it will send. *)
SyncPlans(s) ==
    /\ up[s] /\ work[s] = <<>> /\ subscribed[s] # desired[s]
    /\ work' = [work EXCEPT ![s] = Planned(subscribed[s] \ desired[s], desired[s] \ subscribed[s])]
    /\ UNCHANGED <<pooled, placement, opened, desired, subscribed, up, sent, server, wished, resubscribed, drops>>

SyncSends(s) ==
    /\ work[s] # <<>> /\ ~sent[s]
    /\ sent' = [sent EXCEPT ![s] = TRUE]
    /\ server' = [server EXCEPT ![s] = IF Head(work[s]).subscribe THEN @ \cup Head(work[s]).items ELSE @ \ Head(work[s]).items]
    /\ UNCHANGED <<pooled, placement, opened, desired, subscribed, up, work, wished, resubscribed, drops>>

(* The pause after a batch is over: it counts as done. *)
SyncNotes(s) ==
    /\ work[s] # <<>> /\ sent[s]
    /\ subscribed' = [subscribed EXCEPT ![s] = IF Head(work[s]).subscribe THEN @ \cup Head(work[s]).items ELSE @ \ Head(work[s]).items]
    /\ work' = [work EXCEPT ![s] = Tail(@)]
    /\ sent' = [sent EXCEPT ![s] = FALSE]
    /\ UNCHANGED <<pooled, placement, opened, desired, up, server, wished, resubscribed, drops>>

Sync(s) == SyncPlans(s) \/ SyncSends(s) \/ SyncNotes(s)

Next ==
    \/ SetDepth \/ ResubscribeDepth
    \/ \E s \in Sockets : Connect(s) \/ Disconnect(s) \/ SyncPlans(s) \/ SyncSends(s) \/ SyncNotes(s)

Spec == Init /\ [][Next]_vars

(* The loop of a socket reconnects after a bounded pause; _sync is a task. *)
Fairness == \A s \in Sockets : WF_vars(Connect(s)) /\ WF_vars(Sync(s))

FairSpec == Spec /\ Fairness
--------------------------------------------------------------------------------
(* What the socket believes its connection carries, the batch on its way included. *)
Known(s) == subscribed[s] \cup IF sent[s] THEN Head(work[s]).items ELSE {}

(* Whatever is asked for while messages are being paced, a connection never   *)
(* carries more of the books its socket knows of than the exchange allows.    *)
WithinLimit == \A s \in Sockets : Cardinality(server[s] \cap Known(s)) <= PerConnection

(* Once the engine stops changing its mind and connections stop breaking,     *)
(* every contract it asked for last is streamed: no reconnect, repeated or    *)
(* overtaken request leaves one behind.                                        *)
DepthSettles == <>[](\A s \in Sockets : desired[s] \subseteq server[s])

(* ManagedSocket "keeps its subscriptions equal to a desired set, whatever    *)
(* drops in between": what the exchange streams is desired, or the socket     *)
(* still knows that it has to end it.                                          *)
NoForgottenSubscription == \A s \in Sockets : server[s] \subseteq Known(s) \cup desired[s]
================================================================================
