---------------------------- MODULE RecoveryProofs ----------------------------
(***************************************************************************)
(* What the terminal can rely on while things go away and come back: a     *)
(* book that counts as fresh is true, for every number of pairs and        *)
(* prices, every limit and however often pairs change and sources freeze;  *)
(* the rows of the write queue are dealt with in order, for every batch    *)
(* size and any refused rows, rows and outages; a coin is announced once   *)
(* per cooldown, for any gaps, coins and feed; and a connection carries no *)
(* more books than it may, for any contracts, wishes and broken links.     *)
(***************************************************************************)
EXTENDS MCRecovery, FiniteSetTheorems, WellFoundedInduction, TLAPS

-----------------------------------------------------------------------------
(* The book of a contract *)

(* What the program and the exchange may hold. *)
Kept ==
    /\ price \in Prices
    /\ since \in [Prices -> 0 .. FreshTicks + 1]
    /\ book = None \/ book \in [price : Prices, age : 0 .. QuietTicks + 1]
    /\ due \in BOOLEAN

(* A book is no older than it looks, live best prices are those of this tick,
   and a streaming book has the price of the exchange. *)
Truthful ==
    /\ since[price] = 0
    /\ book # None => since[book.price] <= book.age
    /\ "top" \notin frozen /\ top # None => top \in Prices /\ since[top] = 0
    /\ Streaming /\ book # None => book.price = price

IInv == Kept /\ Truthful

Limits ==
    /\ FreshTicks \in Nat
    /\ QuietTicks \in Nat
    /\ FreshTicks <= QuietTicks
    /\ None \notin Prices
    /\ None \notin [price : Prices, age : 0 .. QuietTicks + 1]

(* A book a tick later is none, or the same at one more tick of age. *)
LEMMA OlderBook ==
    ASSUME Limits, IInv, NEW next
    PROVE  \/ BookAfter(next) = None
           \/ /\ book # None
              /\ BookAfter(next) \in [price : Prices, age : 0 .. QuietTicks + 1]
              /\ BookAfter(next).price = book.price
              /\ BookAfter(next).age = UpTo(QuietTicks + 1, book.age + 1)
<1>1. CASE book = None BY <1>1 DEF BookAfter, Aged
<1>2. CASE book # None
  <2>1. book \in [price : Prices, age : 0 .. QuietTicks + 1] BY <1>2 DEF IInv, Kept
  <2>2. UpTo(QuietTicks + 1, book.age + 1) \in 0 .. QuietTicks + 1 BY <2>1 DEF UpTo, Limits
  <2>3. Aged = [book EXCEPT !.age = UpTo(QuietTicks + 1, book.age + 1)] BY <1>2 DEF Aged
  <2> QED BY <1>2, <2>1, <2>2, <2>3 DEF BookAfter
<1> QED BY <1>1, <1>2

(* Ticks keep it: a price grows no older than a book that has it. *)
LEMMA TickKeeps ==
    ASSUME Limits, IInv, NEW next \in SUBSET Pairs, Tick(next)
    PROVE  IInv'
<1>1. book' = BookAfter(next) /\ price' = price /\ DOMAIN chosen' = next
  BY DEF Tick, Holds
<1>2. since' = [p \in Prices |-> IF p = price THEN 0 ELSE UpTo(FreshTicks + 1, since[p] + 1)]
  BY DEF Tick
<1>3. Kept'
  <2>1. \A p \in Prices : since[p] \in 0 .. FreshTicks + 1 BY DEF IInv, Kept
  <2>2. \A p \in Prices : UpTo(FreshTicks + 1, since[p] + 1) \in 0 .. FreshTicks + 1
    BY <2>1 DEF UpTo, Limits
  <2>3. since' \in [Prices -> 0 .. FreshTicks + 1] BY <1>2, <2>2 DEF Limits
  <2>4. due' \in BOOLEAN BY DEF Tick
  <2> QED BY <1>1, <2>3, <2>4, OlderBook DEF IInv, Kept
<1>4. since'[price'] = 0 BY <1>1, <1>2 DEF IInv, Kept
<1>5. book' # None => since'[book'.price] <= book'.age
  <2> SUFFICES ASSUME book' # None PROVE since'[book'.price] <= book'.age OBVIOUS
  <2>1. /\ book # None
        /\ book'.price = book.price
        /\ book'.age = UpTo(QuietTicks + 1, book.age + 1)
    BY <1>1, OlderBook
  <2>2. book.price \in Prices /\ book.age \in 0 .. QuietTicks + 1 BY <2>1 DEF IInv, Kept
  <2>3. since[book.price] \in 0 .. FreshTicks + 1 BY <2>2 DEF IInv, Kept
  <2>4. since[book.price] <= book.age BY <2>1 DEF IInv, Truthful
  <2>5. since'[book.price] <= UpTo(FreshTicks + 1, since[book.price] + 1)
    BY <1>2, <2>2, <2>3 DEF UpTo, Limits
  <2>6. since'[book.price] \in 0 .. FreshTicks + 1 BY <1>3, <2>2 DEF Kept
  <2> HIDE DEF Limits
  <2>7. UpTo(FreshTicks + 1, since[book.price] + 1) <= UpTo(QuietTicks + 1, book.age + 1)
    BY <2>2, <2>3, <2>4 DEF UpTo, Limits
  <2>8. UpTo(FreshTicks + 1, since[book.price] + 1) \in Nat /\ UpTo(QuietTicks + 1, book.age + 1) \in Nat
    BY <2>2, <2>3 DEF UpTo, Limits
  <2> QED BY <2>1, <2>5, <2>6, <2>7, <2>8
<1>6. "top" \notin frozen' /\ top' # None => top' \in Prices /\ since'[top'] = 0
  BY <1>1, <1>4 DEF Tick, SetTop, IInv, Kept
<1>7. (Streaming)' /\ book' # None => book'.price = price'
  <2> SUFFICES ASSUME (Streaming)', book' # None PROVE book'.price = price' OBVIOUS
  <2>1. Streaming BY <1>1 DEF Streaming, Watched, Tick
  <2>2. book # None /\ book'.price = book.price BY <1>1, OlderBook
  <2> QED BY <1>1, <2>1, <2>2 DEF IInv, Truthful
<1> QED BY <1>3, <1>4, <1>5, <1>6, <1>7 DEF IInv, Truthful

(* Whatever else happens, a book that comes has the price of the exchange. *)
LEMMA RestKeeps ==
    ASSUME Limits, IInv,
           (\E p \in Prices : PriceMoves(p)) \/ SetBook \/ LateFrame
             \/ (\E source \in Sources : Freeze(source)) \/ UNCHANGED vars
    PROVE  IInv'
<1> USE DEF Limits
<1>1. CASE \E p \in Prices : PriceMoves(p)
  <2>1. PICK p \in Prices : PriceMoves(p) BY <1>1
  <2>2. /\ price' = p /\ since' = [since EXCEPT ![p] = 0]
        /\ book' = IF Streaming THEN [price |-> p, age |-> 0] ELSE book
        /\ top' = top /\ due' = due /\ frozen' = frozen /\ chosen' = chosen
    BY <2>1 DEF PriceMoves
  <2>3. Kept' BY <2>2 DEF IInv, Kept
  <2>4. \A q \in Prices : since'[q] \in Nat /\ since[q] \in Nat /\ since'[q] <= since[q]
    BY <2>2 DEF IInv, Kept
  <2>5. book' # None => since'[book'.price] <= book'.age
    <3>1. CASE Streaming BY <2>2, <3>1 DEF IInv, Kept
    <3>2. CASE ~Streaming BY <2>2, <2>4, <3>2 DEF IInv, Kept, Truthful
    <3> QED BY <3>1, <3>2
  <2>6. "top" \notin frozen' /\ top' # None => top' \in Prices /\ since'[top'] = 0
    BY <2>2, <2>4 DEF IInv, Truthful
  <2>7. (Streaming)' = Streaming BY <2>2 DEF Streaming, Watched
  <2>8. since'[price'] = 0 BY <2>2 DEF IInv, Kept
  <2>9. (Streaming)' /\ book' # None => book'.price = price' BY <2>2, <2>7
  <2> QED BY <2>3, <2>5, <2>6, <2>8, <2>9 DEF IInv, Truthful
<1>2. CASE SetBook
  <2>1. /\ book' = [price |-> price, age |-> 0] /\ due' = FALSE
        /\ price' = price /\ since' = since /\ top' = top /\ frozen' = frozen
    BY <1>2 DEF SetBook, Snapshot
  <2>2. price \in Prices /\ since[price] = 0 /\ 0 \in 0 .. QuietTicks + 1
    BY DEF IInv, Kept, Truthful
  <2>3. book'.price = price /\ book'.age = 0 /\ book' \in [price : Prices, age : 0 .. QuietTicks + 1]
    BY <2>1, <2>2
  <2>4. Kept' BY <2>1, <2>3 DEF IInv, Kept
  <2>5. Truthful' BY <2>1, <2>2, <2>3 DEF IInv, Truthful
  <2> QED BY <2>4, <2>5 DEF IInv
<1>3. CASE LateFrame
  BY <1>3 DEF LateFrame, Snapshot, IInv, Kept, Truthful, Streaming, Watched
<1>4. CASE \E source \in Sources : Freeze(source)
  BY <1>4 DEF Freeze, IInv, Kept, Truthful, Streaming, Watched
<1>5. CASE UNCHANGED vars
  BY <1>5 DEF vars, IInv, Kept, Truthful, Streaming, Watched
<1> QED BY <1>1, <1>2, <1>3, <1>4, <1>5

(* radar.py, leg_fresh: as long as the books or the best prices of a contract
   are alive, a leg that counts as fresh has a price the exchange had within
   fresh_ms.  So an old book may be traded on for quiet_book_max_ms. *)
THEOREM FreshLegsAreTrue ==
    ASSUME Limits
    PROVE  Spec => []FreshIsTrue
<1>1. Init => IInv
  <2> SUFFICES ASSUME Init PROVE IInv OBVIOUS
  <2>1. \A p \in Prices : (IF p = price THEN 0 ELSE FreshTicks + 1) \in 0 .. FreshTicks + 1
    BY DEF Limits
  <2>2. since = [p \in Prices |-> IF p = price THEN 0 ELSE FreshTicks + 1] BY DEF Init
  <2>3. since \in [Prices -> 0 .. FreshTicks + 1] BY <2>1, <2>2
  <2>4. Kept BY <2>3 DEF Init, Kept
  <2>5. since[price] = 0 BY <2>2 DEF Init
  <2>6. Truthful BY <2>5 DEF Init, Truthful
  <2> QED BY <2>4, <2>6 DEF IInv
<1>2. IInv /\ [Next]_vars => IInv'
  BY TickKeeps, RestKeeps DEF Next
<1>3. IInv => FreshIsTrue
  <2> SUFFICES ASSUME IInv, Watched, LegFresh(book, top), ~("top" \in frozen /\ (due \/ "book" \in frozen))
               PROVE  since[book.price] <= FreshTicks
    BY DEF FreshIsTrue
  <2>1. book \in [price : Prices, age : 0 .. QuietTicks + 1] BY DEF LegFresh, IInv, Kept
  <2>2. since[book.price] \in 0 .. FreshTicks + 1 /\ book.age \in Nat BY <2>1 DEF IInv, Kept, Limits
  <2>3. CASE book.age <= FreshTicks
    <3>1. since[book.price] <= book.age BY DEF LegFresh, IInv, Truthful
    <3> QED BY <2>2, <2>3, <3>1 DEF Limits
  <2>4. CASE top = book.price /\ "top" \notin frozen
    BY <2>1, <2>4 DEF IInv, Truthful, Limits
  <2>5. CASE ~due /\ "book" \notin frozen
    BY <2>5 DEF IInv, Truthful, Streaming, LegFresh, Limits
  <2> QED BY <2>3, <2>4, <2>5 DEF LegFresh
<1> QED BY <1>1, <1>2, <1>3, PTL DEF Spec

-----------------------------------------------------------------------------
(* The write queue *)

Proved == INSTANCE QueueProofs WITH Ends <- {}, MaxEnds <- 0

(* The queue followed here is the queue proved about there. *)
LEMMA SameQueue ==
    /\ Queue!Init <=> Proved!Init
    /\ Queue!Next <=> Proved!Next
    /\ UNCHANGED Queue!vars <=> UNCHANGED Proved!vars
  BY Zenon
     DEF Queue!ToSet, Proved!ToSet, Queue!Last, Proved!Last,
         Queue!Cardinality, Proved!Cardinality, Queue!Lesser, Proved!Lesser, Queue!From,
         Proved!From, Queue!File, Proved!File, Queue!LinesOf, Proved!LinesOf,
         Queue!Lines, Proved!Lines, Queue!Idle, Proved!Idle, Queue!Waiting,
         Proved!Waiting, Queue!Inserting, Proved!Inserting, Queue!Attempt,
         Proved!Attempt, Queue!Refusable, Proved!Refusable,
         Queue!SpoolAppend, Proved!SpoolAppend, Queue!Finish, Proved!Finish,
         Queue!Abort, Proved!Abort, Queue!Advance, Proved!Advance,
         Queue!Submit, Proved!Submit, Queue!Flushable, Proved!Flushable,
         Queue!TooEarly, Proved!TooEarly, Queue!StartConnect,
         Proved!StartConnect, Queue!ConnectFails, Proved!ConnectFails,
         Queue!Work, Proved!Work, Queue!Connected, Proved!Connected,
         Queue!Flush, Proved!Flush, Queue!PingAnswered, Proved!PingAnswered,
         Queue!PingFails, Proved!PingFails, Queue!Written, Proved!Written,
         Queue!NextRow, Proved!NextRow, Queue!Apply, Proved!Apply,
         Queue!Inserted, Proved!Inserted, Queue!BatchRefused,
         Proved!BatchRefused, Queue!RowRefused, Proved!RowRefused,
         Queue!Remaining, Proved!Remaining, Queue!PutBack, Proved!PutBack,
         Queue!ReplaceFile, Proved!ReplaceFile, Queue!CountedOff,
         Proved!CountedOff, Queue!Unheard, Proved!Unheard, Queue!InsertLost,
         Proved!InsertLost, Queue!Outage, Proved!Outage, Queue!Recover,
         Proved!Recover, Queue!Shutdown, Proved!Shutdown, Queue!Torn,
         Proved!Torn, Queue!Spooling, Proved!Spooling, Queue!Crash,
         Proved!Crash, Queue!Start, Proved!Start, Queue!Init, Proved!Init,
         Queue!TaskStep, Proved!TaskStep, Queue!Next, Proved!Next,
         Queue!vars, Proved!vars, Queue!queueVars, Proved!queueVars,
         Queue!dbVars, Proved!dbVars, Queue!envVars, Proved!envVars

LEMMA QueueFollowed ==
    ASSUME [NextAll]_allVars
    PROVE  [Proved!Next]_(Proved!vars)
  <1>1. Queue!Next \/ UNCHANGED queueVars
    BY DEF NextAll, BookStep, QueueStep, StreamStep, GapStep, allVars
  <1>2. UNCHANGED queueVars => UNCHANGED Queue!vars
    BY DEF queueVars, Queue!vars, Queue!queueVars, Queue!dbVars, Queue!envVars
  <1> QED  BY <1>1, <1>2, SameQueue

LEMMA QueueHolds ==
    ASSUME MaxBatch \in Nat
    PROVE  /\ InitAll => Proved!IInv /\ Queue!Log!Init
           /\ Proved!IInv /\ [NextAll]_allVars => Proved!IInv' /\ [Queue!Log!Next]_(Queue!Log!vars)
  <1>1. ASSUME InitAll PROVE Proved!IInv /\ Queue!Log!Init
    <2>1. Proved!Init
      BY <1>1, SameQueue DEF InitAll
    <2>2. Proved!IInv /\ Proved!Log!Init
      BY <2>1, Proved!InitOrders
    <2> QED  BY <2>2 DEF Queue!Log!Init, Proved!Log!Init
  <1>2. ASSUME Proved!IInv, [NextAll]_allVars
        PROVE  Proved!IInv' /\ [Queue!Log!Next]_(Queue!Log!vars)
    <2>1. Proved!IInv' /\ [Proved!Log!Next]_(Proved!Log!vars)
      BY <1>2, QueueFollowed, Proved!NextOrders
    <2> QED  BY <2>1, Zenon
             DEF Queue!Log!Next, Proved!Log!Next, Queue!Log!vars, Proved!Log!vars, Queue!Log!Submit,
                 Proved!Log!Submit, Queue!Log!Record, Proved!Log!Record, Queue!Log!Handled, Proved!Log!Handled
  <1> QED  BY <1>1, <1>2

(* While the terminal lives, rows are dealt with in the order of submit(), none
   is skipped and only refused rows are set aside. *)
THEOREM RowsKeepOrder ==
    ASSUME MaxBatch \in Nat
    PROVE  SpecAll => ImplementsLog
  BY QueueHolds, PTL DEF SpecAll, ImplementsLog, Queue!ImplementsLog, Queue!Log!Spec

(* Once nothing waits the database shows the newest row it was given. *)
THEOREM NewestRowWins ==
    ASSUME MaxBatch \in Nat
    PROVE  SpecAll => []NewestWins
  <1>1. Proved!IInv => NewestWins
    <2>1. Proved!IInv => Proved!NewestWins
      BY Proved!OrderedShowsNewest
    <2> QED  BY <2>1, Zenon
             DEF NewestWins, Queue!NewestWins, Proved!NewestWins, Queue!Rest, Proved!Rest, Queue!Idle, Proved!Idle,
                 Queue!Backlog, Proved!Backlog, Queue!OnDisk, Proved!OnDisk, Queue!InHand, Proved!InHand,
                 Queue!Remaining, Proved!Remaining, Queue!From, Proved!From, Queue!ToSet, Proved!ToSet
  <1> QED  BY <1>1, QueueHolds, PTL DEF SpecAll

-----------------------------------------------------------------------------
(* The coins told of *)

NewsApart ==
    /\ CoinCooldown \in Nat
    /\ None \notin Int
    /\ \A told, peak, missing : None # [since |-> told, peak |-> peak, missing |-> missing]

(* An announced gap is followed since a round that is over. *)
Followed(e, t) ==
    \E told \in Int : told < t /\ \E peak, missing : e = [since |-> told, peak |-> peak, missing |-> missing]

(* What is remembered of a coin is its last announcement, until that is two
   cooldowns old; the look at the start comes before any. *)
NewsInv ==
    /\ now \in Nat
    /\ \A k \in Keys : live[k] = None \/ Followed(live[k], now)
    /\ \A c \in Gaps!Coins : announced[c] = None \/ announced[c] \in Int
    /\ \A c \in Gaps!Coins :
           news[c] # None =>
               /\ caughtUp /\ news[c] \in Int
               /\ announced[c] = news[c] \/ (announced[c] = None /\ now - news[c] >= CoinCooldown)

(* What track() leaves of an announced gap is as old as before. *)
LEMMA TrackKeeps ==
    ASSUME NEW k, NEW t \in Int, Followed(live[k], t)
    PROVE  Followed(Gaps!Track(k, now), t)
  <1>1. PICK told \in Int : told < t /\ \E peak, missing : live[k] = [since |-> told, peak |-> peak, missing |-> missing]
    BY DEF Followed
  <1>0. PICK peak, missing : live[k] = [since |-> told, peak |-> peak, missing |-> missing]
    BY <1>1
  <1>6. live[k] \in [since : {told}, peak : {peak}, missing : {missing}]
    BY <1>0
  <1>2. ASSUME NEW y, NEW z, NEW b, b = [live[k] EXCEPT !.peak = y, !.missing = z]
        PROVE  b = [since |-> told, peak |-> y, missing |-> z]
    BY <1>2, <1>6
  <1>3. ASSUME NEW z, NEW b, b = [live[k] EXCEPT !.missing = z]
        PROVE  b = [since |-> told, peak |-> peak, missing |-> z]
    BY <1>3, <1>6
  <1>4. \/ Gaps!Track(k, now) = live[k]
        \/ \E y, z : Gaps!Track(k, now) = [live[k] EXCEPT !.peak = y, !.missing = z]
        \/ \E z : Gaps!Track(k, now) = [live[k] EXCEPT !.missing = z]
    BY Zenon DEF Gaps!Track
  <1>5. \E y, z : Gaps!Track(k, now) = [since |-> told, peak |-> y, missing |-> z]
    <2>1. ASSUME NEW y, NEW z, Gaps!Track(k, now) = [live[k] EXCEPT !.peak = y, !.missing = z]
          PROVE  Gaps!Track(k, now) = [since |-> told, peak |-> y, missing |-> z]
      BY <1>2, <2>1
    <2>2. ASSUME NEW z, Gaps!Track(k, now) = [live[k] EXCEPT !.missing = z]
          PROVE  Gaps!Track(k, now) = [since |-> told, peak |-> peak, missing |-> z]
      BY <1>3, <2>2
    <2> QED  BY <1>0, <1>4, <2>1, <2>2, ZenonT(40)
  <1> QED  BY <1>1, <1>5 DEF Followed

(* What the property calls told is what the round told. *)
LEMMA ToldIs ==
    ASSUME NewsApart, NewsInv, NEW told \in SUBSET Keys,
           live' = [k \in Keys |-> IF k \in told THEN [since |-> now, peak |-> rows[k].total, missing |-> None]
                                   ELSE IF k \in {j \in Keys : Gaps!IsOver(j, now)} THEN None ELSE Gaps!Track(k, now)]
    PROVE  /\ \A k \in Keys : live'[k] = None \/ Followed(live'[k], now + 1)
           /\ \A k \in Keys : live'[k] # None /\ live'[k].since = now <=> k \in told
  <1>1. now \in Nat
    BY DEF NewsInv
  <1>2. ASSUME NEW k \in told PROVE live'[k] # None /\ live'[k].since = now /\ Followed(live'[k], now + 1)
    <2>1. live'[k] = [since |-> now, peak |-> rows[k].total, missing |-> None]
      BY <1>2
    <2>2. live'[k] # None
      BY <2>1 DEF NewsApart
    <2>3. live'[k].since = now
      BY <2>1
    <2>4. now \in Int /\ now < now + 1
      BY <1>1
    <2> QED  BY <2>1, <2>2, <2>3, <2>4 DEF Followed
  <1>3. ASSUME NEW k \in Keys, k \notin told, live'[k] # None PROVE Followed(live'[k], now + 1) /\ live'[k].since # now
    <2>1. live'[k] = Gaps!Track(k, now)
      BY <1>3
    <2>2. live[k] # None
      BY <1>3, <2>1 DEF Gaps!Track
    <2>3. Followed(live'[k], now)
      BY <1>1, <2>1, <2>2, TrackKeeps DEF NewsInv
    <2>4. PICK s \in Int : s < now /\ \E peak, missing : live'[k] = [since |-> s, peak |-> peak, missing |-> missing]
      BY <2>3 DEF Followed
    <2>5. live'[k].since = s /\ s < now + 1 /\ s # now
      BY <1>1, <2>4
    <2> QED  BY <2>4, <2>5 DEF Followed
  <1> QED  BY <1>2, <1>3

LEMMA CheckTells ==
    ASSUME NewsApart, NewsInv, Gaps!Check
    PROVE  NewsInv' /\ Gaps!TellsOnce
  <1>1. PICK told \in SUBSET Keys :
          /\ Gaps!FirstOfCoin(told, now)
          /\ announced' = Gaps!Decide(told, now)
          /\ live' = [k \in Keys |-> IF k \in told THEN [since |-> now, peak |-> rows[k].total, missing |-> None]
                                     ELSE IF k \in {j \in Keys : Gaps!IsOver(j, now)} THEN None ELSE Gaps!Track(k, now)]
          /\ news' = [c \in Gaps!Coins |-> IF \E k \in told : CoinOf[k] = c THEN now ELSE news[c]]
    BY Zenon DEF Gaps!Check
  <1>2. caughtUp /\ caughtUp' = caughtUp /\ now' = now + 1 /\ now \in Nat
    BY DEF Gaps!Check, NewsInv
  <1>3. /\ \A k \in Keys : live'[k] = None \/ Followed(live'[k], now + 1)
        /\ \A k \in Keys : live'[k] # None /\ live'[k].since = now <=> k \in told
    BY <1>1, ToldIs
  <1>4. ASSUME NEW c \in Gaps!Coins
        PROVE  announced'[c] = IF \E k \in told : CoinOf[k] = c THEN now
                               ELSE IF announced[c] # None /\ now - announced[c] < 2 * CoinCooldown THEN announced[c] ELSE None
    BY <1>1 DEF Gaps!Decide, Gaps!Fresh
  <1>5. CoinCooldown \in Nat /\ CoinCooldown <= 2 * CoinCooldown
    BY DEF NewsApart
  <1>6. ASSUME NEW c \in Gaps!Coins, \E k \in told : CoinOf[k] = c, news[c] # None
        PROVE  now - news[c] >= CoinCooldown
    <2>1. PICK k \in told : CoinOf[k] = c
      BY <1>6
    <2>2. Gaps!IsNews(k, now)
      BY <1>1, <2>1 DEF Gaps!FirstOfCoin
    <2>3. Gaps!Fresh(now)[c] # None => now - Gaps!Fresh(now)[c] >= CoinCooldown
      BY <2>1, <2>2 DEF Gaps!IsNews
    <2>4. Gaps!Fresh(now)[c] = IF announced[c] # None /\ now - announced[c] < 2 * CoinCooldown THEN announced[c] ELSE None
      BY DEF Gaps!Fresh
    <2>5. news[c] \in Int /\ (announced[c] = news[c] \/ (announced[c] = None /\ now - news[c] >= CoinCooldown))
      BY <1>6 DEF NewsInv
    <2>6. CASE announced[c] = news[c]
      <3>1. announced[c] # None
        BY <1>6, <2>6
      <3>2. CASE now - announced[c] < 2 * CoinCooldown
        BY <1>6, <2>3, <2>4, <2>6, <3>1, <3>2
      <3>3. CASE ~(now - announced[c] < 2 * CoinCooldown)
        BY <1>2, <1>5, <2>5, <2>6, <3>3
      <3> QED  BY <3>2, <3>3
    <2> QED  BY <2>5, <2>6
  <1>7. ASSUME NEW c \in Gaps!Coins
        PROVE  /\ announced'[c] = None \/ announced'[c] \in Int
               /\ news'[c] # None =>
                     /\ news'[c] \in Int
                     /\ announced'[c] = news'[c] \/ (announced'[c] = None /\ now' - news'[c] >= CoinCooldown)
    <2>1. CASE \E k \in told : CoinOf[k] = c
      <3>1. announced'[c] = now /\ news'[c] = now
        BY <1>1, <1>4, <2>1
      <3> QED  BY <1>2, <3>1
    <2>2. CASE ~\E k \in told : CoinOf[k] = c
      <3>1. news'[c] = news[c]
        BY <1>1, <2>2
      <3>2. announced'[c] = IF announced[c] # None /\ now - announced[c] < 2 * CoinCooldown THEN announced[c] ELSE None
        BY <1>4, <2>2
      <3>3. announced[c] = None \/ announced[c] \in Int
        BY DEF NewsInv
      <3>4. news[c] # None =>
               /\ news[c] \in Int
               /\ announced[c] = news[c] \/ (announced[c] = None /\ now - news[c] >= CoinCooldown)
        BY DEF NewsInv
      <3> QED  BY <1>2, <1>5, <3>1, <3>2, <3>3, <3>4
    <2> QED  BY <2>1, <2>2
  <1>8. NewsInv'
    BY <1>2, <1>3, <1>7 DEF NewsInv, Gaps!Coins
  <1>9. ASSUME NEW c \in Gaps!Coins
        PROVE  LET of == {k \in Keys : CoinOf[k] = c /\ live'[k] # None /\ live'[k].since = now /\ now' # now}
               IN  /\ Gaps!Cardinality(of) <= 1
                   /\ of # {} /\ news[c] # None => now - news[c] >= CoinCooldown
    <2> DEFINE of == {k \in Keys : CoinOf[k] = c /\ live'[k] # None /\ live'[k].since = now /\ now' # now}
    <2>1. of = {j \in told : CoinOf[j] = c}
      BY <1>2, <1>3
    <2>2. Gaps!Cardinality({}) = 0
      BY FS_EmptySet, Zenon DEF Gaps!Cardinality, Cardinality
    <2>3. ASSUME NEW k \in of PROVE Gaps!Cardinality(of) = 1
      <3>1. Gaps!IsNews(k, now) /\ CoinOf[k] = c /\ k \in Keys
        BY <1>1, <2>1, <2>3 DEF Gaps!FirstOfCoin
      <3>2. Gaps!Cardinality({j \in told : CoinOf[j] = CoinOf[k]}) = 1
        BY <1>1, <3>1 DEF Gaps!FirstOfCoin
      <3> QED  BY <2>1, <3>1, <3>2
    <2>4. of # {} /\ news[c] # None => now - news[c] >= CoinCooldown
      BY <1>6, <2>1
    <2>5. Gaps!Cardinality(of) = 0 \/ Gaps!Cardinality(of) = 1
      BY <2>2, <2>3
    <2> HIDE DEF of
    <2>6. Gaps!Cardinality(of) <= 1
      BY <2>5
    <2> QED  BY <2>4, <2>6 DEF of
  <1> QED  BY <1>8, <1>9 DEF Gaps!TellsOnce

LEMMA NothingTold ==
    ASSUME now' = now
    PROVE  Gaps!TellsOnce
  <1>1. ASSUME NEW c \in Gaps!Coins
        PROVE  LET of == {k \in Keys : CoinOf[k] = c /\ live'[k] # None /\ live'[k].since = now /\ now' # now}
               IN  /\ Gaps!Cardinality(of) <= 1
                   /\ of # {} /\ news[c] # None => now - news[c] >= CoinCooldown
    <2> DEFINE of == {k \in Keys : CoinOf[k] = c /\ live'[k] # None /\ live'[k].since = now /\ now' # now}
    <2>1. of = {}
      OBVIOUS
    <2> HIDE DEF of
    <2>2. Gaps!Cardinality(of) = 0
      BY <2>1, FS_EmptySet, Zenon DEF Gaps!Cardinality, Cardinality
    <2>3. Gaps!Cardinality(of) <= 1
      BY <2>2
    <2> QED  BY <2>1, <2>3 DEF of
  <1> QED  BY <1>1 DEF Gaps!TellsOnce

(* Two announcements of a coin are a cooldown apart, and one round announces
   one gap of it, for any gaps, coins, cooldown and feed. *)
THEOREM CoinsAreNewsOnce ==
    ASSUME NewsApart PROVE SpecAll => CoinIsNewsOnce
  <1>1. ASSUME InitAll PROVE NewsInv
    <2>1. Gaps!Init
      BY <1>1 DEF InitAll
    <2> QED  BY <2>1 DEF Gaps!Init, Gaps!Nothing, NewsInv
  <1>2. ASSUME NewsInv, [NextAll]_allVars PROVE NewsInv' /\ [Gaps!TellsOnce]_(Gaps!vars)
    <2>1. CASE Gaps!Check
      BY <1>2, <2>1, CheckTells
    <2>2. ASSUME UNCHANGED <<now, live, announced, news, caughtUp>> PROVE NewsInv' /\ Gaps!TellsOnce
      <3>1. NewsInv'
        BY <1>2, <2>2 DEF NewsInv, Gaps!Coins, Followed
      <3> QED  BY <2>2, <3>1, NothingTold
    <2>3. CASE Gaps!CatchUp
      <3>1. UNCHANGED <<now, live, news>> /\ ~caughtUp /\ caughtUp'
        BY <2>3 DEF Gaps!CatchUp
      <3>2. PICK told \in SUBSET Keys : announced' = Gaps!Decide(told, now)
        BY <2>3 DEF Gaps!CatchUp
      <3>3. \A c \in Gaps!Coins : announced'[c] \in {now, announced[c], None}
        BY <3>2 DEF Gaps!Decide, Gaps!Fresh
      <3>5. ASSUME NEW c \in Gaps!Coins PROVE (announced'[c] = None \/ announced'[c] \in Int) /\ news[c] = None
        BY <1>2, <3>1, <3>3 DEF NewsInv
      <3>6. \A k \in Keys : live'[k] = None \/ Followed(live'[k], now')
        BY <1>2, <3>1 DEF NewsInv
      <3>4. NewsInv'
        BY <1>2, <3>1, <3>5, <3>6 DEF NewsInv, Gaps!Coins
      <3> QED  BY <3>1, <3>4, NothingTold
    <2>4. ASSUME Gaps!TakeItem \/ Gaps!Deliver \/ Gaps!DeliveryFails \/ \E k \in Keys : Gaps!FeedMoves(k)
          PROVE  UNCHANGED <<now, live, announced, news, caughtUp>>
      BY <2>4 DEF Gaps!TakeItem, Gaps!Deliver, Gaps!DeliveryFails, Gaps!FeedMoves
    <2>5. CASE UNCHANGED alertVars
      <3>1. UNCHANGED Gaps!vars /\ UNCHANGED <<now, live, announced, news, caughtUp>>
        BY <2>5 DEF alertVars, Gaps!vars
      <3> QED  BY <2>2, <3>1
    <2> QED
      BY <1>2, <2>1, <2>2, <2>3, <2>4, <2>5
         DEF NextAll, BookStep, QueueStep, StreamStep, GapStep, allVars, Gaps!Next
  <1> QED  BY <1>1, <1>2, PTL DEF SpecAll, CoinIsNewsOnce, Gaps!CoinIsNewsOnce
-----------------------------------------------------------------------------
(* The books on a connection *)

(* Finitely many contracts, connections that carry one at least. *)
StreamsApart ==
    /\ IsFiniteSet(Contracts)
    /\ PerConnection \in Nat \ {0} /\ Batch \in Nat \ {0}
    /\ Wishes \subseteq Seq(Contracts)

(* Among naturals one is the least. *)
LEMMA LeastOf ==
    ASSUME NEW S, S \subseteq Nat, S # {}
    PROVE  \E x \in S : \A y \in S : x <= y
  <1>1. PICK x \in S : \A y \in S : ~ (<<y, x>> \in OpToRel(<,Nat))
    BY NatLessThanWellFounded, WFMin, Zenon
  <1>2. \A y \in Nat : y < x => <<y, x>> \in OpToRel(<,Nat)
    BY Zenon DEF OpToRel
  <1>3. \A y \in S : ~(y < x)
    BY <1>1, <1>2, Zenon
  <1> QED BY <1>3

LEMMA SameCount == \A S : Depth!Cardinality(S) = Cardinality(S)
  BY Zenon DEF Depth!Cardinality, Cardinality

LEMMA SocketsAre ==
    ASSUME StreamsApart
    PROVE  /\ Cardinality(Contracts) \in Nat /\ Depth!Sockets = 1 .. Cardinality(Contracts)
           /\ IsFiniteSet(Depth!Sockets) /\ Cardinality(Depth!Sockets) = Cardinality(Contracts)
  <1>1. Cardinality(Contracts) \in Nat
    BY FS_CardinalityType DEF StreamsApart
  <1>2. IsFiniteSet(1 .. Cardinality(Contracts)) /\ Cardinality(1 .. Cardinality(Contracts)) = Cardinality(Contracts)
    BY <1>1, FS_Interval
  <1>3. Depth!Sockets = 1 .. Cardinality(Contracts)
    BY SameCount, Zenon DEF Depth!Sockets
  <1> QED  BY <1>1, <1>2, <1>3

(* Every contract has its connection, and none of them has too many. *)
Spread(p) ==
    /\ DOMAIN p \subseteq Contracts
    /\ \A x \in DOMAIN p : p[x] \in Depth!Sockets
    /\ \A s \in Depth!Sockets : Depth!Load(p, s) <= PerConnection

LEMMA LoadIs ==
    ASSUME StreamsApart, NEW p, DOMAIN p \subseteq Contracts, NEW s
    PROVE  /\ IsFiniteSet({x \in DOMAIN p : p[x] = s})
           /\ Depth!Load(p, s) = Cardinality({x \in DOMAIN p : p[x] = s}) /\ Depth!Load(p, s) \in Nat
  <1>1. {x \in DOMAIN p : p[x] = s} \in SUBSET Contracts
    OBVIOUS
  <1>2. IsFiniteSet({x \in DOMAIN p : p[x] = s})
    BY <1>1, FS_Subset DEF StreamsApart
  <1>3. Depth!Load(p, s) = Cardinality({x \in DOMAIN p : p[x] = s})
    BY SameCount, Zenon DEF Depth!Load
  <1> QED  BY <1>2, <1>3, FS_CardinalityType

(* A contract that has no place yet leaves one free for it: were all
   connections full, each would carry a contract of its own. *)
LEMMA RoomIsLeft ==
    ASSUME StreamsApart, NEW p, Spread(p), NEW x \in Contracts, x \notin DOMAIN p
    PROVE  Depth!FirstWithRoom(p) \in Depth!Sockets /\ Depth!Load(p, Depth!FirstWithRoom(p)) < PerConnection
  <1> DEFINE Roomy == {s \in Depth!Sockets : Depth!Load(p, s) < PerConnection}
  <1>1. Roomy # {}
    <2> SUFFICES ASSUME Roomy = {} PROVE FALSE
      OBVIOUS
    <2>1. \A s \in Depth!Sockets : \E y \in DOMAIN p : p[y] = s
      <3> SUFFICES ASSUME NEW s \in Depth!Sockets, ~ \E y \in DOMAIN p : p[y] = s PROVE FALSE
        OBVIOUS
      <3>1. {y \in DOMAIN p : p[y] = s} = {}
        OBVIOUS
      <3>2. Depth!Load(p, s) = 0
        BY <3>1, LoadIs, FS_EmptySet DEF Spread
      <3> QED  BY <3>2 DEF StreamsApart
    <2> DEFINE one == [s \in Depth!Sockets |-> CHOOSE y \in DOMAIN p : p[y] = s]
    <2>2. \A s \in Depth!Sockets : one[s] \in DOMAIN p /\ p[one[s]] = s
      BY <2>1
    <2>3. one \in Injection(Depth!Sockets, Contracts \ {x})
      <3>1. \A s \in Depth!Sockets : one[s] \in Contracts \ {x}
        BY <2>2 DEF Spread
      <3>2. one \in [Depth!Sockets -> Contracts \ {x}]
        BY <3>1
      <3>3. \A s, t \in Depth!Sockets : one[s] = one[t] => s = t
        BY <2>2
      <3> HIDE DEF one
      <3>4. IsInjective(one)
        BY <3>2, <3>3 DEF IsInjective
      <3> QED  BY <3>2, <3>4 DEF Injection
    <2> HIDE DEF one
    <2>4. IsFiniteSet(Contracts \ {x}) /\ Cardinality(Contracts \ {x}) = Cardinality(Contracts) - 1
      BY FS_RemoveElement DEF StreamsApart
    <2>5. Cardinality(Depth!Sockets) <= Cardinality(Contracts \ {x})
      BY <2>3, <2>4, FS_Injection
    <2> QED  BY <2>4, <2>5, SocketsAre
  <1>2. Roomy \subseteq Nat
    BY SocketsAre
  <1>3. PICK s \in Roomy : \A t \in Roomy : s <= t
    BY <1>1, <1>2, LeastOf
  <1>4. Depth!FirstWithRoom(p) \in Roomy
    BY <1>3, Zenon DEF Depth!FirstWithRoom, Depth!Min
  <1> QED  BY <1>4

LEMMA PlaceSpreads ==
    ASSUME StreamsApart, NEW p, Spread(p), NEW x \in Contracts
    PROVE  Spread(Depth!Place(p, x))
  <1>1. CASE x \in DOMAIN p
    BY <1>1 DEF Depth!Place
  <1>2. CASE x \notin DOMAIN p
    <2> DEFINE room == Depth!FirstWithRoom(p)
               q == [y \in DOMAIN p \cup {x} |-> IF y = x THEN room ELSE p[y]]
    <2>1. room \in Depth!Sockets /\ Depth!Load(p, room) < PerConnection
      BY <1>2, RoomIsLeft
    <2>2. Depth!Place(p, x) = q
      BY <1>2 DEF Depth!Place
    <2> HIDE DEF room
    <2>3. DOMAIN q = DOMAIN p \cup {x} /\ DOMAIN q \subseteq Contracts
      BY DEF Spread
    <2>4. \A y \in DOMAIN q : q[y] \in Depth!Sockets
      BY <2>1 DEF Spread
    <2>5. ASSUME NEW s \in Depth!Sockets PROVE Depth!Load(q, s) <= PerConnection
      <3>1. CASE s = room
        <4>1. {y \in DOMAIN q : q[y] = s} = {y \in DOMAIN p : p[y] = s} \cup {x}
          BY <3>1, <1>2
        <4>2. /\ Depth!Load(p, s) \in Nat /\ Depth!Load(p, s) = Cardinality({y \in DOMAIN p : p[y] = s})
              /\ Depth!Load(q, s) = Cardinality({y \in DOMAIN q : q[y] = s})
              /\ IsFiniteSet({y \in DOMAIN p : p[y] = s})
          BY <2>3, LoadIs, ZenonT(40) DEF Spread
        <4> DEFINE before == {y \in DOMAIN p : p[y] = s}
        <4>3. Cardinality(before \cup {x}) = IF x \in before THEN Cardinality(before) ELSE Cardinality(before) + 1
          BY <4>2, FS_AddElement
        <4>4. Depth!Load(q, s) = IF x \in before THEN Depth!Load(p, s) ELSE Depth!Load(p, s) + 1
          BY <4>1, <4>2, <4>3
        <4> HIDE DEF before
        <4> HIDE DEF q
        <4> QED  BY <4>2, <4>4, <2>1, <3>1 DEF StreamsApart
      <3>2. CASE s # room
        <4>1. {y \in DOMAIN q : q[y] = s} = {y \in DOMAIN p : p[y] = s}
          BY <3>2, <1>2
        <4>2. Depth!Load(q, s) = Depth!Load(p, s)
          BY <4>1, <2>3, LoadIs DEF Spread
        <4> QED  BY <4>2 DEF Spread
      <3> QED  BY <3>1, <3>2
    <2> HIDE DEF q
    <2> QED  BY <2>2, <2>3, <2>4, <2>5 DEF Spread
  <1> QED  BY <1>1, <1>2

(* The placements while a wish of n contracts is gone through. *)
Goes(g, kept, wish, n) ==
    g = [k \in 0 .. n |-> IF k = 0 THEN kept ELSE Depth!Place(g[k - 1], wish[k])]

LEMMA WishIsGoneThrough ==
    ASSUME NEW kept, NEW wish, NEW n \in Nat
    PROVE  \E g : Goes(g, kept, wish, n)
  <1> DEFINE S == {m \in Nat : ~ \E g : Goes(g, kept, wish, m)}
  <1> SUFFICES ASSUME n \in S PROVE FALSE
    OBVIOUS
  <1>1. PICK m \in S : \A y \in S : m <= y
    BY LeastOf, S \subseteq Nat, S # {}
  <1>2. m # 0
    <2>1. Goes([k \in 0 .. 0 |-> kept], kept, wish, 0)
      BY DEF Goes
    <2> QED  BY <2>1, <1>1
  <1>3. PICK g : Goes(g, kept, wish, m - 1)
    <2>1. m - 1 \in Nat /\ ~(m <= m - 1)
      BY <1>2
    <2> QED  BY <2>1, <1>1
  <1> DEFINE h == [k \in 0 .. m |-> IF k = m THEN Depth!Place(g[m - 1], wish[m]) ELSE g[k]]
  <1>4. Goes(h, kept, wish, m)
    <2>1. ASSUME NEW k \in 0 .. m
          PROVE  h[k] = IF k = 0 THEN kept ELSE Depth!Place(h[k - 1], wish[k])
      <3>1. CASE k = m
        <4>1. h[k - 1] = g[m - 1]
          BY <3>1, <1>2
        <4> QED  BY <4>1, <3>1, <1>2
      <3>2. CASE k # m
        <4>1. k \in 0 .. m - 1
          BY <3>2
        <4>2. g[k] = IF k = 0 THEN kept ELSE Depth!Place(g[k - 1], wish[k])
          BY <4>1, <1>3 DEF Goes
        <4>3. h[k] = g[k] /\ (k # 0 => h[k - 1] = g[k - 1])
          BY <4>1
        <4> HIDE DEF h
        <4> QED  BY <4>2, <4>3
      <3> QED  BY <3>1, <3>2
    <2>2. h = [k \in 0 .. m |-> h[k]]
      OBVIOUS
    <2> HIDE DEF h
    <2>3. [k \in 0 .. m |-> h[k]] = [k \in 0 .. m |-> IF k = 0 THEN kept ELSE Depth!Place(h[k - 1], wish[k])]
      BY <2>1, Zenon
    <2> QED  BY <2>2, <2>3 DEF Goes
  <1> QED  BY <1>1, <1>4

LEMMA PlacedSpreads ==
    ASSUME StreamsApart, NEW kept, Spread(kept), NEW wish \in Seq(Contracts)
    PROVE  Spread(Depth!Placed(kept, wish))
  <1> DEFINE g == CHOOSE g : g = [k \in 0 .. Len(wish) |-> IF k = 0 THEN kept ELSE Depth!Place(g[k - 1], wish[k])]
  <1>1. Len(wish) \in Nat /\ \A k \in 1 .. Len(wish) : wish[k] \in Contracts
    OBVIOUS
  <1>2. \E f : f = [k \in 0 .. Len(wish) |-> IF k = 0 THEN kept ELSE Depth!Place(f[k - 1], wish[k])]
    <2>1. PICK f : Goes(f, kept, wish, Len(wish))
      BY <1>1, WishIsGoneThrough
    <2> QED  BY <2>1 DEF Goes
  <1>3. g = [k \in 0 .. Len(wish) |-> IF k = 0 THEN kept ELSE Depth!Place(g[k - 1], wish[k])]
    BY <1>2, Zenon
  <1>4. Depth!Placed(kept, wish) = g[Len(wish)]
    BY DEF Depth!Placed
  <1> HIDE DEF g
  <1>5. g[0] = kept /\ \A k \in 1 .. Len(wish) : g[k] = Depth!Place(g[k - 1], wish[k])
    BY <1>1, <1>3
  <1>6. \A k \in 0 .. Len(wish) : Spread(g[k])
    <2> DEFINE S == {k \in 0 .. Len(wish) : ~Spread(g[k])}
    <2> SUFFICES ASSUME S # {} PROVE FALSE
      OBVIOUS
    <2>1. PICK k \in S : \A y \in S : k <= y
      <3>1. S \subseteq Nat
        BY <1>1
      <3> HIDE DEF S
      <3> QED  BY <3>1, LeastOf
    <2>2. k # 0
      BY <1>5, <2>1
    <2>3. k \in 1 .. Len(wish) /\ k - 1 \in 0 .. Len(wish) /\ k - 1 \notin S
      BY <1>1, <2>1, <2>2
    <2>4. Spread(g[k - 1])
      BY <2>3
    <2> QED  BY <1>1, <1>5, <2>1, <2>3, <2>4, PlaceSpreads
  <1> QED  BY <1>1, <1>4, <1>6

(* What _sync has still to send: first what is given up, then what is added. *)

Messages == [items : SUBSET Contracts, subscribe : BOOLEAN]

(* The contracts of the messages of one kind. *)
Named(q, kind) == UNION {q[i].items : i \in {j \in DOMAIN q : q[j].subscribe = kind}}

RemovesFirst(q) == \A i, j \in DOMAIN q : i <= j /\ q[i].subscribe => q[j].subscribe

LEMMA ListOfSet ==
    ASSUME NEW S, IsFiniteSet(S)
    PROVE  /\ Depth!SetToSeq(S) \in [1 .. Cardinality(S) -> S]
           /\ \A x \in S : \E k \in 1 .. Cardinality(S) : Depth!SetToSeq(S)[k] = x
           /\ Len(Depth!SetToSeq(S)) = Cardinality(S) /\ Cardinality(S) \in Nat
  <1> DEFINE q == Depth!SetToSeq(S)
             n == Cardinality(S)
  <1>1. n \in Nat /\ ExistsBijection(1 .. n, S)
    BY FS_CardinalityType
  <1>2. \E f \in [1 .. n -> S] : Depth!IsInjective(f)
    <2>1. PICK f \in [1 .. n -> S] : IsInjective(f)
      BY <1>1 DEF ExistsBijection, Bijection, Injection
    <2> QED  BY <2>1, Zenon DEF IsInjective, Depth!IsInjective
  <1>3. q \in [1 .. n -> S] /\ Depth!IsInjective(q)
    BY <1>2, SameCount, Zenon DEF Depth!SetToSeq
  <1> HIDE DEF q, n
  <1>4. q \in Injection(1 .. n, S)
    BY <1>3, Zenon DEF Injection, IsInjective, Depth!IsInjective
  <1>5. Cardinality(1 .. n) = n
    BY <1>1, FS_Interval
  <1>6. q \in Surjection(1 .. n, S)
    BY <1>4, <1>5, FS_Injection DEF n
  <1>7. Len(q) = n
    BY <1>1, <1>3
  <1> QED  BY <1>1, <1>3, <1>6, <1>7 DEF Surjection, q, n

LEMMA LesserIs ==
    ASSUME NEW a \in Nat, NEW b \in Nat
    PROVE  Depth!Min({a, b}) \in {a, b} /\ Depth!Min({a, b}) <= a /\ Depth!Min({a, b}) <= b
  <1>1. \E x \in {a, b} : \A y \in {a, b} : x <= y
    OBVIOUS
  <1>2. /\ Depth!Min({a, b}) \in {a, b}
        /\ \A y \in {a, b} : Depth!Min({a, b}) <= y
    BY <1>1, Zenon DEF Depth!Min
  <1> QED  BY <1>2

(* The place of the k-th contract among batches of size b. *)
LEMMA BatchOf ==
    ASSUME NEW b \in Nat \ {0}, NEW n \in Nat, NEW k \in 1 .. n
    PROVE  \E i \in 1 .. (n + b - 1) \div b : (i - 1) * b + 1 <= k /\ k <= i * b
  <1> DEFINE d == (k - 1) \div b
             m == (n + b - 1) \div b
  <1>1. d \in Nat /\ d * b <= k - 1 /\ k - 1 < d * b + b
    BY Z3
  <1>2. m \in Nat /\ n + b - 1 < m * b + b
    BY Z3
  <1> HIDE DEF d, m
  <1>3. (d + 1) * b = d * b + b /\ (d + 1 - 1) * b = d * b
    BY <1>1
  <1>4. d + 1 <= m
    <2> SUFFICES ASSUME ~(d + 1 <= m) PROVE FALSE
      OBVIOUS
    <2>1. m <= d
      BY <1>1, <1>2
    <2>2. m * b <= d * b
      BY <1>1, <1>2, <2>1, Z3
    <2>3. m * b \in Nat /\ d * b \in Nat
      BY <1>1, <1>2
    <2> HIDE DEF d, m
    <2> QED  BY <1>1, <1>2, <2>2, <2>3
  <1>5. d + 1 \in 1 .. m
    BY <1>1, <1>2, <1>4
  <1>6. d * b \in Nat
    BY <1>1
  <1> DEFINE in(i) == (i - 1) * b + 1 <= k /\ k <= i * b
  <1>7. in(d + 1)
    BY <1>1, <1>3, <1>6
  <1> HIDE DEF in
  <1>8. \E i \in 1 .. m : in(i)
    BY <1>5, <1>7
  <1> QED  BY <1>8, Zenon DEF in, m

LEMMA BatchesNameAll ==
    ASSUME StreamsApart, NEW S \in SUBSET Contracts, NEW kind \in BOOLEAN
    PROVE  /\ Depth!Batches(S, kind) \in Seq(Messages)
           /\ \A i \in DOMAIN Depth!Batches(S, kind) : Depth!Batches(S, kind)[i].subscribe = kind
           /\ Named(Depth!Batches(S, kind), kind) = S
           /\ Named(Depth!Batches(S, kind), ~kind) = {}
  <1> DEFINE q == Depth!SetToSeq(S)
             n == Cardinality(S)
             m == (n + Batch - 1) \div Batch
             upTo(i) == Depth!Min({i * Batch, n})
             part(i) == {q[k] : k \in (i - 1) * Batch + 1 .. upTo(i)}
             r == Depth!Batches(S, kind)
  <1>1. IsFiniteSet(S)
    BY FS_Subset DEF StreamsApart
  <1>2. /\ q \in [1 .. n -> S] /\ Len(q) = n /\ n \in Nat
        /\ \A x \in S : \E k \in 1 .. n : q[k] = x
    BY <1>1, ListOfSet
  <1>3. r = [i \in 1 .. m |-> [items |-> part(i), subscribe |-> kind]]
    BY <1>2 DEF Depth!Batches
  <1>4. m \in Nat
    BY <1>2, Z3 DEF StreamsApart
  <1>5. ASSUME NEW i \in 1 .. m
        PROVE  /\ \A k \in (i - 1) * Batch + 1 .. upTo(i) : k \in 1 .. n
               /\ \A k \in 1 .. n : (i - 1) * Batch + 1 <= k /\ k <= i * Batch => k \in (i - 1) * Batch + 1 .. upTo(i)
    <2>1. i * Batch \in Nat /\ (i - 1) * Batch \in Nat
      <3>1. i \in Nat /\ i - 1 \in Nat
        BY <1>4
      <3> QED  BY <3>1 DEF StreamsApart
    <2>2. upTo(i) \in {i * Batch, n} /\ upTo(i) <= n
      BY <1>2, <2>1, LesserIs
    <2> HIDE DEF upTo, n
    <2> QED  BY <1>2, <2>1, <2>2
  <1> HIDE DEF q, n, upTo, r
  <1>6. ASSUME NEW i \in 1 .. m PROVE part(i) \subseteq S
    BY <1>2, <1>5
  <1>7. ASSUME NEW x \in S PROVE \E i \in 1 .. m : x \in part(i)
    <2>1. PICK k \in 1 .. n : q[k] = x
      BY <1>2
    <2>2. PICK i \in 1 .. m : (i - 1) * Batch + 1 <= k /\ k <= i * Batch
      BY <1>2, BatchOf DEF StreamsApart
    <2>3. k \in (i - 1) * Batch + 1 .. upTo(i)
      BY <1>5, <2>2
    <2> QED  BY <2>1, <2>3
  <1> HIDE DEF m, part
  <1>8. \A i \in 1 .. m : [items |-> part(i), subscribe |-> kind] \in Messages
    BY <1>6 DEF Messages
  <1>9. r \in [1 .. m -> Messages]
    BY <1>3, <1>8
  <1>10. r \in Seq(Messages) /\ DOMAIN r = 1 .. m
    BY <1>4, <1>9
  <1>11. \A i \in 1 .. m : r[i].items = part(i) /\ r[i].subscribe = kind
    BY <1>3
  <1>12. Named(r, kind) = S
    BY <1>6, <1>7, <1>10, <1>11 DEF Named
  <1>13. Named(r, ~kind) = {}
    <2>1. \A i \in DOMAIN r : ~(r[i].subscribe = ~kind)
      BY <1>10, <1>11
    <2>2. {j \in DOMAIN r : r[j].subscribe = ~kind} = {}
      BY <2>1
    <2> QED  BY <2>2 DEF Named
  <1> QED  BY <1>10, <1>11, <1>12, <1>13 DEF r

LEMMA PlanIs ==
    ASSUME StreamsApart, NEW remove \in SUBSET Contracts, NEW add \in SUBSET Contracts
    PROVE  /\ Depth!Planned(remove, add) \in Seq(Messages)
           /\ RemovesFirst(Depth!Planned(remove, add))
           /\ Named(Depth!Planned(remove, add), FALSE) = remove
           /\ Named(Depth!Planned(remove, add), TRUE) = add
  <1> DEFINE r == Depth!Batches(remove, FALSE)
             a == Depth!Batches(add, TRUE)
             p == Depth!Planned(remove, add)
  <1>1. /\ r \in Seq(Messages) /\ \A i \in DOMAIN r : r[i].subscribe = FALSE
        /\ Named(r, FALSE) = remove /\ Named(r, TRUE) = {}
    BY BatchesNameAll
  <1>2. /\ a \in Seq(Messages) /\ \A i \in DOMAIN a : a[i].subscribe = TRUE
        /\ Named(a, TRUE) = add /\ Named(a, FALSE) = {}
    BY BatchesNameAll
  <1>3. p = r \o a
    BY DEF Depth!Planned
  <1> HIDE DEF r, a, p
  <1>4. /\ Len(r) \in Nat /\ Len(a) \in Nat /\ DOMAIN r = 1 .. Len(r) /\ DOMAIN a = 1 .. Len(a)
        /\ p \in Seq(Messages) /\ DOMAIN p = 1 .. Len(r) + Len(a)
        /\ \A i \in 1 .. Len(r) : p[i] = r[i]
        /\ \A i \in 1 .. Len(a) : p[Len(r) + i] = a[i]
    BY <1>1, <1>2, <1>3
  <1>5. \A i \in DOMAIN p : i \in DOMAIN r \/ (i - Len(r) \in DOMAIN a /\ p[i] = a[i - Len(r)])
    <2>1. \A i \in 1 .. Len(r) + Len(a) : i \in 1 .. Len(r) \/ (i - Len(r) \in 1 .. Len(a) /\ i = Len(r) + (i - Len(r)))
      BY <1>4
    <2> QED  BY <1>4, <2>1
  <1>6. \A i \in DOMAIN p : p[i].subscribe <=> ~(i <= Len(r))
    BY <1>1, <1>2, <1>4, <1>5
  <1>7. RemovesFirst(p)
    BY <1>4, <1>6 DEF RemovesFirst
  <1>8. Named(p, FALSE) = remove
    <2>1. \A i \in DOMAIN p : p[i].subscribe = FALSE <=> i \in DOMAIN r
      BY <1>1, <1>2, <1>4, <1>5, <1>6
    <2>2. DOMAIN r \subseteq DOMAIN p
      BY <1>4
    <2>3. \A i \in DOMAIN r : p[i] = r[i] /\ r[i].subscribe = FALSE
      BY <1>1, <1>4
    <2>4. Named(p, FALSE) = Named(r, FALSE)
      BY <2>1, <2>2, <2>3 DEF Named
    <2> QED  BY <1>1, <2>4
  <1>9. Named(p, TRUE) = add
    <2>1. ASSUME NEW x \in Named(p, TRUE) PROVE x \in Named(a, TRUE)
      <3>1. PICK i \in DOMAIN p : p[i].subscribe = TRUE /\ x \in p[i].items
        BY DEF Named
      <3>2. i - Len(r) \in DOMAIN a /\ p[i] = a[i - Len(r)]
        BY <1>1, <1>4, <1>5, <3>1
      <3> QED  BY <3>1, <3>2 DEF Named
    <2>2. ASSUME NEW x \in Named(a, TRUE) PROVE x \in Named(p, TRUE)
      <3>1. PICK i \in DOMAIN a : a[i].subscribe = TRUE /\ x \in a[i].items
        BY DEF Named
      <3>2. Len(r) + i \in DOMAIN p /\ p[Len(r) + i] = a[i]
        BY <1>4
      <3> QED  BY <3>1, <3>2 DEF Named
    <2> QED  BY <1>2, <2>1, <2>2
  <1> QED  BY <1>4, <1>7, <1>8, <1>9 DEF p

LEMMA RestOfWork ==
    ASSUME NEW q \in Seq(Messages), q # <<>>, RemovesFirst(q)
    PROVE  /\ Tail(q) \in Seq(Messages) /\ RemovesFirst(Tail(q))
           /\ Head(q) \in Messages
           /\ Named(q, Head(q).subscribe) = Named(Tail(q), Head(q).subscribe) \cup Head(q).items
           /\ Named(q, ~Head(q).subscribe) = Named(Tail(q), ~Head(q).subscribe)
           /\ Head(q).subscribe => Named(q, FALSE) = {}
  <1> DEFINE t == Tail(q)
             h == Head(q)
  <1>1. /\ Len(q) \in Nat \ {0} /\ DOMAIN q = 1 .. Len(q) /\ h = q[1] /\ h \in Messages
        /\ t \in Seq(Messages) /\ DOMAIN t = 1 .. Len(q) - 1
        /\ \A i \in 1 .. Len(q) - 1 : t[i] = q[i + 1]
    OBVIOUS
  <1> HIDE DEF t, h
  <1>2. RemovesFirst(t)
    <2> SUFFICES ASSUME NEW i \in DOMAIN t, NEW j \in DOMAIN t, i <= j, t[i].subscribe PROVE t[j].subscribe
      BY DEF RemovesFirst
    <2>1. i + 1 \in DOMAIN q /\ j + 1 \in DOMAIN q /\ i + 1 <= j + 1 /\ t[i] = q[i + 1] /\ t[j] = q[j + 1]
      BY <1>1
    <2> QED  BY <2>1 DEF RemovesFirst
  <1>3. ASSUME NEW kind
        PROVE  Named(q, kind) = Named(t, kind) \cup IF h.subscribe = kind THEN h.items ELSE {}
    <2>1. ASSUME NEW x \in Named(q, kind)
          PROVE  x \in Named(t, kind) \/ (h.subscribe = kind /\ x \in h.items)
      <3>1. PICK i \in DOMAIN q : q[i].subscribe = kind /\ x \in q[i].items
        BY DEF Named
      <3>2. i = 1 \/ (i - 1 \in DOMAIN t /\ t[i - 1] = q[i])
        <4>1. i = 1 \/ i - 1 \in 1 .. Len(q) - 1
          BY <1>1
        <4> QED  BY <1>1, <4>1
      <3> QED  BY <1>1, <3>1, <3>2 DEF Named
    <2>2. ASSUME NEW x \in Named(t, kind) PROVE x \in Named(q, kind)
      <3>1. PICK i \in DOMAIN t : t[i].subscribe = kind /\ x \in t[i].items
        BY DEF Named
      <3>2. i + 1 \in DOMAIN q /\ q[i + 1] = t[i]
        BY <1>1
      <3> QED  BY <3>1, <3>2 DEF Named
    <2>3. h.subscribe = kind => h.items \subseteq Named(q, kind)
      BY <1>1 DEF Named
    <2> QED  BY <2>1, <2>2, <2>3
  <1>4. h.subscribe \in BOOLEAN
    BY <1>1 DEF Messages
  <1>5. h.subscribe => Named(q, FALSE) = {}
    <2> SUFFICES ASSUME h.subscribe, NEW x \in Named(q, FALSE) PROVE FALSE
      OBVIOUS
    <2>1. PICK i \in DOMAIN q : q[i].subscribe = FALSE
      BY DEF Named
    <2>2. 1 \in DOMAIN q /\ 1 <= i
      BY <1>1
    <2> QED  BY <1>1, <2>1, <2>2 DEF RemovesFirst
  <1>6. Named(q, h.subscribe) = Named(t, h.subscribe) \cup h.items
    BY <1>3
  <1>7. Named(q, ~h.subscribe) = Named(t, ~h.subscribe)
    <2>1. ~(h.subscribe = ~h.subscribe)
      BY <1>4
    <2> QED  BY <1>3, <2>1
  <1> QED  BY <1>1, <1>2, <1>5, <1>6, <1>7 DEF t, h

(* A message on its way is the first there is to send. *)
BooksShape ==
    /\ pooled \in BOOLEAN
    /\ Spread(placement)
    /\ subscribed \in [Depth!Sockets -> SUBSET Contracts]
    /\ work \in [Depth!Sockets -> Seq(Messages)]
    /\ batchSent \in [Depth!Sockets -> BOOLEAN]
    /\ server = [s \in Depth!Sockets |-> server[s]]
    /\ desired = [s \in Depth!Sockets |-> desired[s]]
    /\ \A s \in Depth!Sockets : batchSent[s] => work[s] # <<>>

Few(S) == S \in SUBSET Contracts /\ Cardinality(S) <= PerConnection

(* A socket that has subscribed to `has` and has `q` to send stays among few
   contracts until it has given up what it has to, and among few afterwards. *)
FewOn(has, q) ==
    /\ RemovesFirst(q)
    /\ \E S : Few(S) /\ (Named(q, FALSE) # {} => has \cup Named(q, FALSE) \subseteq S)
    /\ \E T : Few(T) /\ (has \ Named(q, FALSE)) \cup Named(q, TRUE) \subseteq T

BooksInv ==
    /\ BooksShape
    /\ \A s \in Depth!Sockets : Few(desired[s]) /\ FewOn(subscribed[s], work[s])

LEMMA NothingIsFew == ASSUME StreamsApart PROVE Few({})
  BY FS_EmptySet DEF Few, StreamsApart

LEMMA PartOfFew ==
    ASSUME StreamsApart, NEW S, Few(S), NEW T, T \subseteq S
    PROVE  Few(T) /\ Cardinality(T) \in Nat
  <1>1. IsFiniteSet(S) /\ S \in SUBSET Contracts
    BY FS_Subset DEF Few, StreamsApart
  <1>2. IsFiniteSet(T) /\ Cardinality(T) <= Cardinality(S)
    BY <1>1, FS_Subset
  <1>3. Cardinality(T) \in Nat /\ Cardinality(S) \in Nat
    BY <1>1, <1>2, FS_CardinalityType
  <1>4. Cardinality(T) <= PerConnection
    BY <1>2, <1>3 DEF Few, StreamsApart
  <1> QED  BY <1>1, <1>3, <1>4 DEF Few

LEMMA LessIsFew ==
    ASSUME StreamsApart, NEW has, NEW q, FewOn(has, q), NEW less, less \subseteq has
    PROVE  FewOn(less, q)
  BY DEF FewOn

LEMMA NoWorkIsFew ==
    ASSUME StreamsApart, NEW has, Few(has)
    PROVE  FewOn(has, <<>>)
  <1>1. RemovesFirst(<<>>) /\ Named(<<>>, TRUE) = {} /\ Named(<<>>, FALSE) = {}
    BY DEF RemovesFirst, Named
  <1> QED  BY <1>1 DEF FewOn

(* _sync plans: what is subscribed now, then what is wanted now. *)
LEMMA PlanIsFew ==
    ASSUME StreamsApart, NEW has \in SUBSET Contracts, FewOn(has, <<>>), NEW wanted, Few(wanted)
    PROVE  FewOn(has, Depth!Planned(has \ wanted, wanted \ has))
  <1>1. Named(<<>>, TRUE) = {} /\ Named(<<>>, FALSE) = {}
    BY DEF Named
  <1>2. PICK T : Few(T) /\ has \subseteq T
    BY <1>1 DEF FewOn
  <1> DEFINE p == Depth!Planned(has \ wanted, wanted \ has)
  <1>3. /\ RemovesFirst(p)
        /\ Named(p, FALSE) = has \ wanted
        /\ Named(p, TRUE) = wanted \ has
    <2>1. has \ wanted \in SUBSET Contracts /\ wanted \ has \in SUBSET Contracts
      BY DEF Few
    <2> QED  BY <2>1, PlanIs
  <1> HIDE DEF p
  <1>4. \E S : Few(S) /\ (Named(p, FALSE) # {} => has \cup Named(p, FALSE) \subseteq S)
    BY <1>2, <1>3
  <1>5. \E S : Few(S) /\ (has \ Named(p, FALSE)) \cup Named(p, TRUE) \subseteq S
    BY <1>3
  <1> QED  BY <1>3, <1>4, <1>5 DEF FewOn, p

After(has, message) == IF message.subscribe THEN has \cup message.items ELSE has \ message.items

(* One message later. *)
LEMMA NextIsFew ==
    ASSUME StreamsApart, NEW has, NEW q \in Seq(Messages), q # <<>>, FewOn(has, q)
    PROVE  FewOn(After(has, Head(q)), Tail(q))
  <1> DEFINE h == Head(q)
             t == Tail(q)
             later == After(has, h)
  <1>1. /\ RemovesFirst(t) /\ h.subscribe \in BOOLEAN
        /\ Named(q, h.subscribe) = Named(t, h.subscribe) \cup h.items
        /\ Named(q, ~h.subscribe) = Named(t, ~h.subscribe)
        /\ h.subscribe => Named(q, FALSE) = {}
    BY RestOfWork DEF FewOn, Messages
  <1>2. PICK S : Few(S) /\ (Named(q, FALSE) # {} => has \cup Named(q, FALSE) \subseteq S)
    BY DEF FewOn
  <1>3. PICK T : Few(T) /\ (has \ Named(q, FALSE)) \cup Named(q, TRUE) \subseteq T
    BY DEF FewOn
  <1> HIDE DEF h, t
  <1>4. CASE h.subscribe
    <2>1. Named(q, TRUE) = Named(t, TRUE) \cup h.items /\ Named(t, FALSE) = {} /\ Named(q, FALSE) = {}
      <3>1. h.subscribe = TRUE /\ (~h.subscribe) = FALSE
        BY <1>1, <1>4
      <3> QED  BY <1>1, <3>1
    <2>2. later = has \cup h.items
      BY <1>4 DEF After
    <2> QED  BY <1>1, <1>2, <1>3, <2>1, <2>2 DEF FewOn, h, t
  <1>5. CASE ~h.subscribe
    <2>1. Named(q, FALSE) = Named(t, FALSE) \cup h.items /\ Named(q, TRUE) = Named(t, TRUE)
      <3>1. h.subscribe = FALSE /\ (~h.subscribe) = TRUE
        BY <1>1, <1>5
      <3> QED  BY <1>1, <3>1
    <2>2. later = has \ h.items
      BY <1>5 DEF After
    <2>3. Named(t, FALSE) # {} => later \cup Named(t, FALSE) \subseteq S
      BY <1>2, <2>1, <2>2
    <2>4. (later \ Named(t, FALSE)) \cup Named(t, TRUE) \subseteq T
      BY <1>3, <2>1, <2>2
    <2> QED  BY <1>1, <1>2, <1>3, <2>3, <2>4 DEF FewOn, h, t
  <1> QED  BY <1>1, <1>4, <1>5

(* What the socket knows of while a message is on its way. *)
LEMMA KnownIsFew ==
    ASSUME StreamsApart, BooksInv, NEW s \in Depth!Sockets
    PROVE  \E S : Few(S) /\ Depth!Known(s) \subseteq S
  <1> DEFINE q == work[s]
  <1>1. q \in Seq(Messages) /\ FewOn(subscribed[s], q) /\ (batchSent[s] => q # <<>>)
    BY DEF BooksInv, BooksShape
  <1>2. PICK S : Few(S) /\ (Named(q, FALSE) # {} => subscribed[s] \cup Named(q, FALSE) \subseteq S)
    BY <1>1 DEF FewOn
  <1>3. PICK T : Few(T) /\ (subscribed[s] \ Named(q, FALSE)) \cup Named(q, TRUE) \subseteq T
    BY <1>1 DEF FewOn
  <1> HIDE DEF q
  <1>4. CASE ~batchSent[s]
    <2>1. Depth!Known(s) = subscribed[s]
      BY <1>4 DEF Depth!Known
    <2>2. Named(q, FALSE) = {} => subscribed[s] \subseteq T
      BY <1>3
    <2> QED  BY <1>2, <1>3, <2>1, <2>2
  <1>5. CASE batchSent[s]
    <2>1. Depth!Known(s) = subscribed[s] \cup Head(q).items
      BY <1>5 DEF Depth!Known, q
    <2>2. /\ Named(q, Head(q).subscribe) = Named(Tail(q), Head(q).subscribe) \cup Head(q).items
          /\ Head(q).subscribe => Named(q, FALSE) = {}
          /\ Head(q).subscribe \in BOOLEAN
      BY <1>1, <1>5, RestOfWork DEF FewOn, Messages
    <2>3. CASE Head(q).subscribe
      <3>1. Head(q).items \subseteq Named(q, TRUE) /\ Named(q, FALSE) = {}
        BY <2>2, <2>3
      <3> QED  BY <1>3, <2>1, <3>1
    <2>4. CASE ~Head(q).subscribe
      <3>1. Head(q).items \subseteq Named(q, FALSE)
        <4>1. Head(q).subscribe = FALSE
          BY <2>2, <2>4
        <4> QED  BY <2>2, <4>1
      <3>2. CASE Named(q, FALSE) = {}
        BY <1>3, <2>1, <3>1, <3>2
      <3>3. CASE Named(q, FALSE) # {}
        BY <1>2, <2>1, <3>1, <3>3
      <3> QED  BY <3>2, <3>3
    <2> QED  BY <2>3, <2>4
  <1> QED  BY <1>1, <1>4, <1>5 DEF BooksInv, BooksShape

(* What is wanted of one connection fits on it. *)
LEMMA FirstAreFew ==
    ASSUME StreamsApart, NEW wish \in Seq(Contracts)
    PROVE  Few(Depth!ToSet(SubSeq(wish, 1, Depth!Min({Len(wish), PerConnection}))))
  <1> DEFINE n == Depth!Min({Len(wish), PerConnection})
             first == SubSeq(wish, 1, n)
             S == Depth!ToSet(first)
  <1>1. Len(wish) \in Nat /\ \A i \in 1 .. Len(wish) : wish[i] \in Contracts
    OBVIOUS
  <1>2. n \in Nat /\ n <= Len(wish) /\ n <= PerConnection
    BY <1>1, LesserIs DEF StreamsApart
  <1> HIDE DEF n
  <1>3. first \in Seq(Contracts) /\ Len(first) = n
    BY <1>1, <1>2
  <1> HIDE DEF first
  <1>4. DOMAIN first = 1 .. n /\ first \in [1 .. n -> Contracts]
    BY <1>2, <1>3
  <1>5. S = {first[i] : i \in 1 .. n}
    BY <1>4 DEF Depth!ToSet
  <1>6. first \in Surjection(1 .. n, S)
    BY <1>4, <1>5 DEF Surjection
  <1>7. Cardinality(S) <= n
    BY <1>2, <1>6, FS_SurjCardinalityBound DEF ExistsSurjection
  <1>8. S \in SUBSET Contracts
    BY <1>4, <1>5
  <1>9. Cardinality(S) \in Nat
    BY <1>8, FS_Subset, FS_CardinalityType DEF StreamsApart
  <1>10. Few(S)
    BY <1>2, <1>7, <1>8, <1>9 DEF Few, StreamsApart
  <1> QED  BY <1>10 DEF S, first, n

LEMMA KeptSpreads ==
    ASSUME StreamsApart, NEW p, Spread(p), NEW S
    PROVE  Spread(Depth!Restrict(p, DOMAIN p \cap S))
  <1> DEFINE q == Depth!Restrict(p, DOMAIN p \cap S)
  <1>1. DOMAIN q = DOMAIN p \cap S /\ \A x \in DOMAIN q : q[x] = p[x]
    BY DEF Depth!Restrict
  <1> HIDE DEF q
  <1>2. ASSUME NEW s \in Depth!Sockets PROVE Depth!Load(q, s) <= PerConnection
    <2> DEFINE here == {x \in DOMAIN q : q[x] = s}
               before == {x \in DOMAIN p : p[x] = s}
    <2>1. here \subseteq before
      BY <1>1
    <2>2. /\ IsFiniteSet(before) /\ Depth!Load(p, s) = Cardinality(before) /\ Depth!Load(p, s) \in Nat
          /\ Depth!Load(q, s) = Cardinality(here) /\ Depth!Load(q, s) \in Nat
      BY <1>1, LoadIs DEF Spread
    <2>3. Cardinality(here) <= Cardinality(before)
      BY <2>1, <2>2, FS_Subset
    <2>4. Depth!Load(p, s) <= PerConnection
      BY DEF Spread
    <2> HIDE DEF here, before
    <2> QED  BY <2>2, <2>3, <2>4 DEF StreamsApart
  <1>3. Spread(q)
    BY <1>1, <1>2 DEF Spread
  <1> QED  BY <1>3 DEF q

LEMMA PlacedAreFew ==
    ASSUME StreamsApart, NEW p, Spread(p), NEW s \in Depth!Sockets
    PROVE  Few({x \in DOMAIN p : p[x] = s})
  <1>1. Depth!Load(p, s) = Cardinality({x \in DOMAIN p : p[x] = s})
    BY LoadIs DEF Spread
  <1> QED  BY <1>1 DEF Few, Spread

LEMMA SetDepthFits ==
    ASSUME StreamsApart, BooksInv, Depth!SetDepth
    PROVE  BooksInv'
  <1>1. PICK wish \in Wishes : IF pooled THEN Depth!PoolSetDepth(wish) ELSE Depth!SingleSetDepth(wish)
    BY DEF Depth!SetDepth
  <1>2. UNCHANGED <<pooled, subscribed, work, batchSent, server>>
    BY DEF Depth!SetDepth
  <1>3. wish \in Seq(Contracts)
    BY DEF StreamsApart
  <1>4. /\ Spread(placement)' /\ desired' = [s \in Depth!Sockets |-> desired'[s]]
        /\ \A s \in Depth!Sockets : Few(desired'[s])
    <2>1. CASE pooled
      <3> DEFINE kept == Depth!Restrict(placement, DOMAIN placement \cap Depth!ToSet(wish))
                 placed == Depth!Placed(kept, wish)
      <3>1. placement' = placed /\ desired' = [s \in Depth!Sockets |-> {x \in DOMAIN placed : placed[x] = s}]
        BY <1>1, <2>1 DEF Depth!PoolSetDepth
      <3>2. Spread(kept)
        BY KeptSpreads DEF BooksInv, BooksShape
      <3> HIDE DEF kept
      <3>3. Spread(placed)
        BY <1>3, <3>2, PlacedSpreads
      <3> HIDE DEF placed
      <3>4. Spread(placement)'
        BY <3>1, <3>3 DEF Spread, Depth!Load
      <3> QED  BY <3>1, <3>3, <3>4, PlacedAreFew
    <2>2. CASE ~pooled
      <3> DEFINE first == Depth!ToSet(SubSeq(wish, 1, Depth!Min({Len(wish), PerConnection})))
      <3>1. desired' = [desired EXCEPT ![1] = first] /\ placement' = placement
        BY <1>1, <2>2 DEF Depth!SingleSetDepth
      <3>2. Few(first)
        BY <1>3, FirstAreFew
      <3> HIDE DEF first
      <3>3. Spread(placement)'
        BY <3>1 DEF BooksInv, BooksShape, Spread, Depth!Load
      <3> QED  BY <3>1, <3>2, <3>3 DEF BooksInv, BooksShape
    <2> QED  BY <1>2, <2>1, <2>2 DEF BooksInv, BooksShape
  <1> QED  BY <1>2, <1>4 DEF BooksInv, BooksShape

LEMMA SamePlaces ==
    ASSUME BooksInv, UNCHANGED <<pooled, placement, desired>>
    PROVE  /\ pooled' \in BOOLEAN /\ Spread(placement)'
           /\ desired' = [s \in Depth!Sockets |-> desired'[s]]
           /\ \A s \in Depth!Sockets : Few(desired'[s])
  BY DEF BooksInv, BooksShape, Spread, Depth!Load

LEMMA SyncFits ==
    ASSUME StreamsApart, BooksInv, NEW s \in Depth!Sockets,
           Depth!SyncPlans(s) \/ Depth!SyncSends(s) \/ Depth!SyncNotes(s)
    PROVE  BooksInv'
  <1>0. UNCHANGED <<pooled, placement, desired>>
    BY DEF Depth!SyncPlans, Depth!SyncSends, Depth!SyncNotes
  <1>1. /\ pooled' \in BOOLEAN /\ Spread(placement)'
        /\ desired' = [t \in Depth!Sockets |-> desired'[t]]
        /\ \A t \in Depth!Sockets : Few(desired'[t])
    BY <1>0, SamePlaces
  <1>2. /\ subscribed \in [Depth!Sockets -> SUBSET Contracts] /\ work \in [Depth!Sockets -> Seq(Messages)]
        /\ batchSent \in [Depth!Sockets -> BOOLEAN] /\ server = [t \in Depth!Sockets |-> server[t]]
        /\ \A t \in Depth!Sockets : (batchSent[t] => work[t] # <<>>) /\ FewOn(subscribed[t], work[t])
        /\ Few(desired[s])
    BY DEF BooksInv, BooksShape
  <1>3. CASE Depth!SyncPlans(s)
    <2> DEFINE plan == Depth!Planned(subscribed[s] \ desired[s], desired[s] \ subscribed[s])
    <2>1. /\ work[s] = <<>> /\ work' = [work EXCEPT ![s] = plan]
          /\ UNCHANGED <<subscribed, batchSent, server>>
      BY <1>3 DEF Depth!SyncPlans
    <2>2. FewOn(subscribed[s], plan)
      <3>1. subscribed[s] \in SUBSET Contracts /\ FewOn(subscribed[s], <<>>)
        BY <1>2, <2>1
      <3> QED  BY <1>2, <3>1, PlanIsFew
    <2>3. plan \in Seq(Messages)
      <3>1. subscribed[s] \ desired[s] \in SUBSET Contracts /\ desired[s] \ subscribed[s] \in SUBSET Contracts
        BY <1>2 DEF Few
      <3> QED  BY <3>1, PlanIs
    <2> HIDE DEF plan
    <2>4. work' \in [Depth!Sockets -> Seq(Messages)] /\ work'[s] = plan /\ \A t \in Depth!Sockets \ {s} : work'[t] = work[t]
      BY <1>2, <2>1, <2>3
    <2>5. ~batchSent[s]
      BY <1>2, <2>1
    <2> QED  BY <1>1, <1>2, <2>1, <2>2, <2>4, <2>5 DEF BooksInv, BooksShape
  <1>4. CASE Depth!SyncSends(s)
    <2>1. /\ work[s] # <<>> /\ batchSent' = [batchSent EXCEPT ![s] = TRUE] /\ UNCHANGED <<subscribed, work>>
          /\ server' = [t \in Depth!Sockets |-> server'[t]]
      BY <1>2, <1>4 DEF Depth!SyncSends
    <2> QED  BY <1>1, <1>2, <2>1 DEF BooksInv, BooksShape
  <1>5. CASE Depth!SyncNotes(s)
    <2> DEFINE later == After(subscribed[s], Head(work[s]))
               rest == Tail(work[s])
    <2>1. /\ work[s] # <<>> /\ subscribed' = [subscribed EXCEPT ![s] = later]
          /\ work' = [work EXCEPT ![s] = rest] /\ batchSent' = [batchSent EXCEPT ![s] = FALSE]
          /\ UNCHANGED server
      BY <1>5 DEF Depth!SyncNotes, After
    <2>2. work[s] \in Seq(Messages) /\ FewOn(subscribed[s], work[s]) /\ subscribed[s] \in SUBSET Contracts
      BY <1>2
    <2>3. FewOn(later, rest)
      BY <2>1, <2>2, NextIsFew
    <2>4. rest \in Seq(Messages) /\ Head(work[s]) \in Messages
      BY <2>1, <2>2
    <2>5. later \in SUBSET Contracts
      BY <2>2, <2>4 DEF After, Messages
    <2> HIDE DEF later, rest
    <2>6. /\ subscribed' \in [Depth!Sockets -> SUBSET Contracts] /\ work' \in [Depth!Sockets -> Seq(Messages)]
          /\ batchSent' \in [Depth!Sockets -> BOOLEAN] /\ ~batchSent'[s] /\ FewOn(subscribed'[s], work'[s])
          /\ \A t \in Depth!Sockets \ {s} :
                subscribed'[t] = subscribed[t] /\ work'[t] = work[t] /\ batchSent'[t] = batchSent[t]
      BY <1>2, <2>1, <2>3, <2>4, <2>5
    <2> QED  BY <1>1, <1>2, <2>1, <2>6 DEF BooksInv, BooksShape
  <1> QED  BY <1>3, <1>4, <1>5

LEMMA ConnectionFits ==
    ASSUME StreamsApart, BooksInv, NEW s \in Depth!Sockets, Depth!Connect(s) \/ Depth!Disconnect(s)
    PROVE  BooksInv'
  <1>0. UNCHANGED <<pooled, placement, desired>>
    BY DEF Depth!Connect, Depth!Disconnect
  <1>1. /\ pooled' \in BOOLEAN /\ Spread(placement)'
        /\ desired' = [t \in Depth!Sockets |-> desired'[t]]
        /\ \A t \in Depth!Sockets : Few(desired'[t])
    BY <1>0, SamePlaces
  <1>2. /\ subscribed \in [Depth!Sockets -> SUBSET Contracts] /\ work \in [Depth!Sockets -> Seq(Messages)]
        /\ batchSent \in [Depth!Sockets -> BOOLEAN] /\ server = [t \in Depth!Sockets |-> server[t]]
        /\ \A t \in Depth!Sockets : (batchSent[t] => work[t] # <<>>) /\ FewOn(subscribed[t], work[t])
    BY DEF BooksInv, BooksShape
  <1>3. subscribed' = [subscribed EXCEPT ![s] = {}]
    BY DEF Depth!Connect, Depth!Disconnect, Depth!Remembered
  <1>4. CASE Depth!Connect(s)
    <2>1. UNCHANGED <<work, batchSent, server>>
      BY <1>4 DEF Depth!Connect
    <2>2. FewOn({}, work[s])
      BY <1>2, LessIsFew
    <2> QED  BY <1>1, <1>2, <1>3, <2>1, <2>2 DEF BooksInv, BooksShape
  <1>5. CASE Depth!Disconnect(s)
    <2>1. /\ work' = [work EXCEPT ![s] = <<>>] /\ batchSent' = [batchSent EXCEPT ![s] = FALSE]
          /\ server' = [server EXCEPT ![s] = {}]
      BY <1>5 DEF Depth!Disconnect
    <2>2. FewOn({}, <<>>) /\ <<>> \in Seq(Messages)
      BY NothingIsFew, NoWorkIsFew
    <2> QED  BY <1>1, <1>2, <1>3, <2>1, <2>2 DEF BooksInv, BooksShape
  <1> QED  BY <1>4, <1>5

LEMMA ResubscribeFits ==
    ASSUME StreamsApart, BooksInv, Depth!ResubscribeDepth
    PROVE  BooksInv'
  <1>1. PICK x : subscribed' = [subscribed EXCEPT ![Depth!SocketOf(x)] = @ \ {x}]
    BY DEF Depth!ResubscribeDepth
  <1>2. UNCHANGED <<pooled, placement, desired, work, batchSent, server>>
    BY DEF Depth!ResubscribeDepth
  <1>3. /\ pooled' \in BOOLEAN /\ Spread(placement)'
        /\ desired' = [t \in Depth!Sockets |-> desired'[t]]
        /\ \A t \in Depth!Sockets : Few(desired'[t])
    BY <1>2, SamePlaces
  <1>4. /\ subscribed \in [Depth!Sockets -> SUBSET Contracts]
        /\ \A t \in Depth!Sockets : FewOn(subscribed[t], work[t])
    BY DEF BooksInv, BooksShape
  <1>5. subscribed' \in [Depth!Sockets -> SUBSET Contracts]
    BY <1>1, <1>4
  <1>6. \A t \in Depth!Sockets : subscribed'[t] \subseteq subscribed[t]
    BY <1>1, <1>4
  <1>7. \A t \in Depth!Sockets : FewOn(subscribed'[t], work[t])
    BY <1>4, <1>6, LessIsFew
  <1> QED  BY <1>2, <1>3, <1>5, <1>7 DEF BooksInv, BooksShape

(* Whatever the engine wants, breaks and repeats, a connection never carries
   more of the books its socket knows of than the exchange allows. *)
THEOREM ConnectionsHold ==
    ASSUME StreamsApart PROVE SpecAll => []WithinLimit
  <1>1. ASSUME InitAll PROVE BooksInv
    <2>1. Depth!Init
      BY <1>1 DEF InitAll
    <2>2. Few({}) /\ FewOn({}, <<>>)
      BY NothingIsFew, NoWorkIsFew
    <2>3. Spread(placement)
      <3>1. DOMAIN placement = {}
        BY <2>1 DEF Depth!Init
      <3>2. ASSUME NEW s \in Depth!Sockets PROVE Depth!Load(placement, s) <= PerConnection
        <4>1. Depth!Load(placement, s) = Cardinality({x \in DOMAIN placement : placement[x] = s})
          BY <3>1, LoadIs
        <4>2. {x \in DOMAIN placement : placement[x] = s} = {}
          BY <3>1
        <4>3. Cardinality({}) = 0 /\ PerConnection \in Nat
          BY FS_EmptySet DEF StreamsApart
        <4>4. Depth!Load(placement, s) = 0
          BY <4>1, <4>2, <4>3
        <4> QED  BY <4>3, <4>4
      <3> QED  BY <3>1, <3>2 DEF Spread
    <2> QED  BY <2>1, <2>2, <2>3 DEF Depth!Init, BooksInv, BooksShape
  <1>2. ASSUME BooksInv, [NextAll]_allVars PROVE BooksInv'
    <2>1. CASE Depth!SetDepth
      BY <1>2, <2>1, SetDepthFits
    <2>2. CASE Depth!ResubscribeDepth
      BY <1>2, <2>2, ResubscribeFits
    <2>3. ASSUME NEW s \in Depth!Sockets, Depth!Connect(s) \/ Depth!Disconnect(s) PROVE BooksInv'
      BY <1>2, <2>3, ConnectionFits
    <2>4. ASSUME NEW s \in Depth!Sockets, Depth!SyncPlans(s) \/ Depth!SyncSends(s) \/ Depth!SyncNotes(s)
          PROVE  BooksInv'
      BY <1>2, <2>4, SyncFits
    <2>5. CASE UNCHANGED streamVars
      <3>1. UNCHANGED <<pooled, placement, desired, subscribed, work, batchSent, server>>
        BY <2>5 DEF streamVars
      <3> QED  BY <1>2, <3>1, SamePlaces DEF BooksInv, BooksShape
    <2> QED
      BY <1>2, <2>1, <2>2, <2>3, <2>4, <2>5
         DEF NextAll, BookStep, QueueStep, StreamStep, GapStep, allVars, Depth!Next
  <1>3. ASSUME StreamsApart, BooksInv PROVE WithinLimit
    <2>1. ASSUME NEW s \in Depth!Sockets
          PROVE  Depth!Cardinality(server[s] \cap Depth!Known(s)) <= PerConnection
      <3>1. PICK S : Few(S) /\ Depth!Known(s) \subseteq S
        BY <1>3, <2>1, KnownIsFew
      <3>2. Few(server[s] \cap Depth!Known(s))
        BY <3>1, PartOfFew
      <3> QED  BY <3>2, SameCount DEF Few
    <2> QED  BY <2>1 DEF WithinLimit, Depth!WithinLimit
  <1> QED  BY <1>1, <1>2, <1>3, PTL DEF SpecAll
===============================================================================
