----------------------------- MODULE RecordsProofs -----------------------------
(***************************************************************************)
(* What the terminal keeps a record of: the pairs of the portfolio, the    *)
(* rows on disk, the life of a gap, the ids of rows, the breaks of links   *)
(* and the user's decisions on the catalog, for any number of pairs,       *)
(* exchanges, links, refreshes, outages and ends of the process.           *)
(***************************************************************************)
EXTENDS MCRecords, FiniteSetTheorems, TLAPS

-------------------------------------------------------------------------------
(* The pairs *)

Statuses == ActiveStatuses \cup {"closed", "failed"}

TradeShape ==
    [long : Exchanges, short : Exchanges, status : Statuses, missing : Int, byHand : BOOLEAN]

Openers == [id : Ids, background : BOOLEAN]

Closers == [id : Ids, previous : {"open", "leg_lost", None}]

SamePair(a, b) == a.long = b.long /\ a.short = b.short /\ a.byHand = b.byHand

(* No two of the pairs `ids` that were assigned by hand share a leg. *)
Owned(objects, ids) ==
    \A i, j \in ids :
        i # j /\ objects[i].byHand /\ objects[j].byHand => Legs(objects[i]) \cap Legs(objects[j]) = {}

(* The trades `ids` are listed, `objects` and `table` are what memory and the   *)
(* database have of every trade, `offered` is what the user may assign.  The    *)
(* table tells of the same pairs as memory; of those assigned by hand it calls  *)
(* only listed ones active, so a restart brings none back that memory let go    *)
(* (it may bring back a pair whose opening was resolved after close_leg); what  *)
(* is offered belongs to no pair assigned by hand.                              *)
Sound(objects, ids, table, offered) ==
    /\ objects \in [Ids -> TradeShape \cup {None}]
    /\ table \in [Ids -> TradeShape \cup {None}]
    /\ ids \subseteq Ids
    /\ \A i \in ids : objects[i] # None
    /\ \A i \in Ids : table[i] # None =>
          /\ objects[i] # None
          /\ SamePair(table[i], objects[i])
          /\ table[i].byHand /\ table[i].status \in ActiveStatuses => i \in ids
    /\ Owned(objects, ids)
    /\ \A i \in ids : objects[i].byHand => Legs(objects[i]) \cap offered = {}

(* A trade execution may still write to: one assigned by hand is listed. *)
Writable(id) == id \in Ids /\ trades[id] # None /\ (trades[id].byHand => id \in listed)

(* What execution opens was not assigned by hand; what it opens or closes may   *)
(* have left the list, if it was not.                                           *)
Bookkeeping ==
    /\ Sound(trades, listed, rows, foreign)
    /\ opener = None \/ (opener \in Openers /\ Writable(opener.id) /\ ~trades[opener.id].byHand)
    /\ closer = None \/ (closer \in Closers /\ Writable(closer.id))
    /\ opener # None /\ closer # None => opener.background
--------------------------------------------------------------------------------
(* _update_active after every change of the list: the machine is kept awake     *)
(* exactly while a pair is listed.                                              *)
THEOREM AwakeWhilePairs == Spec => []ActiveFollowsTrades
  <1>1. Init => ActiveFollowsTrades
    BY DEF Init, ActiveFollowsTrades
  <1>2. ActiveFollowsTrades /\ [Next]_vars => ActiveFollowsTrades'
    <2> SUFFICES ASSUME ActiveFollowsTrades, [Next]_vars
                 PROVE  ActiveFollowsTrades'
      OBVIOUS
    <2> USE DEF ActiveFollowsTrades
    <2>1. CASE UNCHANGED bookVars
      BY <2>1 DEF bookVars
    <2>2. CASE Polling
      BY <2>2 DEF Polling, AskPositions, FinishPoll, bookVars
    <2>3. ASSUME NEW i \in Ids, NEW l \in Exchanges, NEW s \in Exchanges, AssignPair(i, l, s) \/ OpenPair(i, l, s)
          PROVE  ActiveFollowsTrades'
      BY <2>3 DEF AssignPair, OpenPair, UpdateActive
    <2>4. ASSUME NEW i \in Ids, CloseRecord(i) \/ ClosePair(i) \/ CloseLeg(i)
          PROVE  ActiveFollowsTrades'
      BY <2>4 DEF CloseRecord, ClosePair, CloseLeg, UpdateActive, Save, bookVars
    <2>5. CASE HandOver \/ OpeningEnds \/ CloseFails \/ LegStays \/ Settle
      BY <2>5 DEF HandOver, OpeningEnds, CloseFails, LegStays, Settle, Save, Finish, UpdateActive, bookVars
    <2>6. CASE World
      BY <2>6 DEF World, PositionMoves, KeysChange, Balance, Restart, UpdateActive, bookVars
    <2> QED
      BY <2>1, <2>2, <2>3, <2>4, <2>5, <2>6 DEF Next, Trading, vars
  <1> QED  BY <1>1, <1>2, PTL DEF Spec
--------------------------------------------------------------------------------
LEMMA JudgedShape ==
    ASSUME NEW trade \in TradeShape, NEW seen, NEW complete
    PROVE  Judged(trade, seen, complete) \in TradeShape /\ SamePair(Judged(trade, seen, complete), trade)
  <1> DEFINE missing == Missing(trade, seen, complete)
             count   == IF ~missing THEN 0
                        ELSE IF trade.missing < MissingPollsForLost THEN trade.missing + 1 ELSE trade.missing
             status  == IF trade.status = "open" /\ count >= MissingPollsForLost THEN "leg_lost"
                        ELSE IF trade.status = "leg_lost" /\ ~missing THEN "open"
                        ELSE trade.status
  <1>1. count \in Int
    BY DEF TradeShape
  <1>2. status \in Statuses
    BY DEF TradeShape, Statuses, ActiveStatuses
  <1>3. Judged(trade, seen, complete) = [trade EXCEPT !.missing = count, !.status = status]
    BY DEF Judged, TradeShape
  <1> HIDE DEF count, status
  <1> QED
    BY <1>1, <1>2, <1>3 DEF TradeShape, SamePair

LEMMA RowShape ==
    ASSUME NEW trade \in TradeShape
    PROVE  /\ Row(trade) \in TradeShape
           /\ SamePair(Row(trade), trade)
           /\ Row(trade).status = trade.status
  BY DEF TradeShape, Row, SamePair

(* Trades of the same pair have the same legs. *)
LEMMA SameLegs ==
    ASSUME NEW a, NEW b, SamePair(a, b)
    PROVE  Legs(a) = Legs(b) /\ a.byHand = b.byHand
  BY DEF SamePair, Legs
(* A reconciliation judges the listed trades, and offers what none of them has. *)
LEMMA ReconcileKeeps ==
    ASSUME NEW objects, NEW ids, NEW table, NEW seen, NEW complete, NEW judged, NEW told, NEW saved,
           None \notin TradeShape,
           Sound(objects, ids, table, {}),
           judged = [i \in Ids |-> IF i \in ids THEN Judged(objects[i], seen, complete) ELSE objects[i]],
           told = [i \in Ids |-> IF i \in saved THEN Row(judged[i]) ELSE table[i]],
           saved \subseteq ids
    PROVE  Sound(judged, ids, told, Foreign(objects, ids, seen))
  <1>1. \A i \in ids : /\ i \in Ids
                      /\ objects[i] \in TradeShape
                      /\ judged[i] \in TradeShape
                      /\ SamePair(judged[i], objects[i])
    BY JudgedShape DEF Sound
  <1>2. judged \in [Ids -> TradeShape \cup {None}]
    BY <1>1 DEF Sound
  <1>3. \A i \in saved : /\ told[i] \in TradeShape
                        /\ SamePair(told[i], judged[i])
    BY <1>1, RowShape
  <1>4. told \in [Ids -> TradeShape \cup {None}]
    BY <1>3 DEF Sound
  <1>5. ASSUME NEW i \in Ids, told[i] # None
        PROVE  /\ judged[i] # None
               /\ SamePair(told[i], judged[i])
               /\ told[i].byHand /\ told[i].status \in ActiveStatuses => i \in ids
    <2>1. CASE i \in saved
      BY <2>1, <1>1, <1>3
    <2>2. CASE i \notin saved
      <3>1. told[i] = table[i] /\ objects[i] # None /\ SamePair(table[i], objects[i])
            /\ (table[i].byHand /\ table[i].status \in ActiveStatuses => i \in ids)
        BY <2>2, <1>5 DEF Sound
      <3>2. judged[i] # None /\ SamePair(objects[i], judged[i])
        BY <3>1, <1>1 DEF SamePair
      <3> QED
        BY <3>1, <3>2 DEF SamePair
    <2> QED
      BY <2>1, <2>2
  <1>6. \A i \in ids : Legs(judged[i]) = Legs(objects[i]) /\ judged[i].byHand = objects[i].byHand
    BY <1>1, SameLegs
  <1>7. Owned(judged, ids)
    BY <1>6 DEF Sound, Owned
  <1>8. \A i \in ids : Legs(judged[i]) \cap Foreign(objects, ids, seen) = {}
    BY <1>6 DEF Foreign
  <1> QED
    BY <1>1, <1>2, <1>4, <1>5, <1>7, <1>8 DEF Sound

(* A trade is saved; it may leave the list with a status that is not active. *)
LEMMA SaveKeeps ==
    ASSUME NEW objects, NEW ids, NEW table, NEW offered, NEW i \in Ids, NEW trade \in TradeShape,
           NEW kept,
           None \notin TradeShape,
           Sound(objects, ids, table, offered),
           objects[i] # None, objects[i].byHand => i \in ids,
           SamePair(trade, objects[i]),
           kept = ids \/ (kept = ids \ {i} /\ trade.status \notin ActiveStatuses)
    PROVE  Sound([objects EXCEPT ![i] = trade], kept, [table EXCEPT ![i] = Row(trade)], offered)
  <1> DEFINE now  == [objects EXCEPT ![i] = trade]
             told == [table EXCEPT ![i] = Row(trade)]
  <1>1. Row(trade) \in TradeShape /\ SamePair(Row(trade), trade) /\ Row(trade).status = trade.status
    BY RowShape
  <1>2. i \in Ids /\ kept \subseteq ids /\ trade.byHand = objects[i].byHand
    BY DEF SamePair
  <1>3. now \in [Ids -> TradeShape \cup {None}] /\ told \in [Ids -> TradeShape \cup {None}]
    BY <1>1, <1>2 DEF Sound
  <1>4. \A j \in ids : Legs(now[j]) = Legs(objects[j]) /\ now[j].byHand = objects[j].byHand
    BY <1>2, SameLegs DEF Sound
  <1>5. ASSUME NEW j \in Ids, told[j] # None
        PROVE  /\ now[j] # None
               /\ SamePair(told[j], now[j])
               /\ told[j].byHand /\ told[j].status \in ActiveStatuses => j \in kept
    <2>1. CASE j = i
      BY <1>1, <1>2, <1>5, <2>1 DEF Sound, SamePair
    <2>2. CASE j # i
      BY <1>2, <1>5, <2>2 DEF Sound
    <2> QED  BY <2>1, <2>2
  <1>6. Owned(now, kept)
    BY <1>2, <1>4 DEF Sound, Owned
  <1>7. \A j \in kept : now[j] # None
    BY <1>2 DEF Sound
  <1>8. \A j \in kept : now[j].byHand => Legs(now[j]) \cap offered = {}
    BY <1>2, <1>4 DEF Sound
  <1> HIDE DEF now, told
  <1>9. kept \subseteq Ids
    BY <1>2 DEF Sound
  <1> QED
    BY <1>3, <1>5, <1>6, <1>7, <1>8, <1>9 DEF Sound, now, told

(* A new trade is listed: one assigned by hand has legs no other such pair has. *)
LEMMA AddKeeps ==
    ASSUME NEW objects, NEW ids, NEW table, NEW offered, NEW i \in Ids, NEW trade \in TradeShape,
           None \notin TradeShape,
           Sound(objects, ids, table, offered),
           objects[i] = None,
           trade.byHand => /\ Legs(trade) \cap offered = {}
                           /\ \A j \in ids : objects[j].byHand => Legs(trade) \cap Legs(objects[j]) = {}
    PROVE  Sound([objects EXCEPT ![i] = trade], ids \cup {i}, [table EXCEPT ![i] = Row(trade)], offered)
  <1> DEFINE now  == [objects EXCEPT ![i] = trade]
             told == [table EXCEPT ![i] = Row(trade)]
  <1>1. Row(trade) \in TradeShape /\ SamePair(Row(trade), trade) /\ Row(trade).status = trade.status
    BY RowShape
  <1>2. i \notin ids
    BY DEF Sound
  <1>3. now \in [Ids -> TradeShape \cup {None}] /\ told \in [Ids -> TradeShape \cup {None}]
    BY <1>1 DEF Sound
  <1>4. now[i] = trade /\ \A j \in ids : now[j] = objects[j]
    BY <1>2 DEF Sound
  <1>5. ASSUME NEW j \in Ids, told[j] # None
        PROVE  /\ now[j] # None
               /\ SamePair(told[j], now[j])
               /\ told[j].byHand /\ told[j].status \in ActiveStatuses => j \in ids \cup {i}
    BY <1>1, <1>5 DEF Sound
  <1>6. Owned(now, ids \cup {i})
    BY <1>4 DEF Sound, Owned
  <1>7. \A j \in ids \cup {i} : now[j] # None
    BY <1>4 DEF Sound
  <1>8. \A j \in ids \cup {i} : now[j].byHand => Legs(now[j]) \cap offered = {}
    BY <1>4 DEF Sound
  <1>9. ids \cup {i} \subseteq Ids
    BY DEF Sound
  <1> HIDE DEF now, told
  <1> QED
    BY <1>3, <1>5, <1>6, <1>7, <1>8, <1>9 DEF Sound, now, told
--------------------------------------------------------------------------------
(* A step keeps the pairs execution may write to: none assigned by hand leaves  *)
(* the list but `gone` (0: none).                                               *)
PairsStay(gone) ==
    \A i \in Ids : trades[i] # None =>
        /\ trades'[i] # None
        /\ trades'[i].byHand = trades[i].byHand
        /\ trades[i].byHand /\ i \in listed => i \in listed' \/ i = gone

LEMMA TasksKept ==
    ASSUME Bookkeeping, Sound(trades, listed, rows, foreign)', NEW gone, PairsStay(gone),
           opener' \in {opener, None}, closer' \in {closer, None},
           closer' # None => closer.id # gone \/ gone = 0
    PROVE  Bookkeeping'
  <1>1. \A id : Writable(id) /\ (id # gone \/ gone = 0) => Writable(id)' /\ trades'[id].byHand = trades[id].byHand
    BY DEF Writable, PairsStay, Ids
  <1>2. \A id : Writable(id) /\ ~trades[id].byHand => Writable(id)' /\ ~trades'[id].byHand
    BY DEF Writable, PairsStay
  <1>3. CASE opener' # None
    BY <1>1, <1>2, <1>3 DEF Bookkeeping
  <1>4. CASE opener' = None
    BY <1>1, <1>4 DEF Bookkeeping
  <1> QED  BY <1>3, <1>4

(* assign_pair takes its legs from _foreign, which only a reconciliation makes: *)
(* for as long as the database is ready at every start and no pair is dropped   *)
(* while execution works on it, no two pairs assigned by hand share a leg.      *)
THEOREM HandLegsStayOwned ==
    ASSUME LoadOutcomes = {TRUE}, CloseRecordWhileBusy = FALSE, None \notin TradeShape
    PROVE  Spec => []HandLegsOwnedOnce
  <1>1. Init => Bookkeeping
    BY DEF Init, Bookkeeping, Sound, Owned
  <1>2. ASSUME Bookkeeping, [Next]_vars
        PROVE  Bookkeeping'
    <2> USE <1>2
    <2>1. Sound(trades, listed, rows, foreign) /\ Sound(trades, listed, rows, {})
      BY DEF Bookkeeping, Sound
    <2>2. \A i \in listed : i \in Ids /\ trades[i] \in TradeShape
      BY <2>1 DEF Sound
    <2>3. CASE UNCHANGED vars
      BY <2>3 DEF vars, handVars, pollVars, bookVars, taskVars, Bookkeeping, Writable
    <2>4. ASSUME NEW p \in Pollers, AskPositions(p)
          PROVE  Bookkeeping'
      BY <2>4 DEF AskPositions, handVars, bookVars, taskVars, Bookkeeping, Writable
    <2>5. ASSUME NEW p \in Pollers, FinishPoll(p)
          PROVE  Bookkeeping'
      <3>1. PICK seen, complete :
              Reconcile(trades, listed, rows, seen, complete) /\ UNCHANGED <<listed, taskVars>>
        BY <2>5 DEF FinishPoll
      <3> DEFINE judged == [i \in Ids |-> IF i \in listed THEN Judged(trades[i], seen, complete) ELSE trades[i]]
                 saved  == {i \in listed : judged[i].status # trades[i].status}
                 told   == [i \in Ids |-> IF i \in saved THEN Row(judged[i]) ELSE rows[i]]
      <3>2. trades' = judged /\ rows' = told /\ foreign' = Foreign(trades, listed, seen)
        BY <3>1 DEF Reconcile
      <3>3. saved \subseteq listed
        OBVIOUS
      <3> HIDE DEF saved
      <3>4. Sound(judged, listed, told, Foreign(trades, listed, seen))
        BY <2>1, <3>3, ReconcileKeeps
      <3>5. \A j \in Ids : trades[j] # None => judged[j] # None /\ judged[j].byHand = trades[j].byHand
        <4>1. ASSUME NEW j \in listed
              PROVE  Judged(trades[j], seen, complete) # None /\ Judged(trades[j], seen, complete).byHand = trades[j].byHand
          BY <2>2, JudgedShape DEF SamePair
        <4> QED  BY <4>1
      <3> HIDE DEF judged, told
      <3>6. Sound(trades, listed, rows, foreign)'
        BY <3>1, <3>2, <3>4 DEF Sound, Owned
      <3>7. PairsStay(0)
        BY <3>1, <3>2, <3>5 DEF PairsStay
      <3> QED
        BY <3>1, <3>6, <3>7, TasksKept DEF taskVars
    <2>6. ASSUME NEW i \in Ids, NEW l \in Exchanges, NEW s \in Exchanges, AssignPair(i, l, s)
          PROVE  Bookkeeping'
      <3> DEFINE trade   == NewTrade(l, s, "open", TRUE)
                 objects == [trades EXCEPT ![i] = trade]
                 ids     == listed \cup {i}
                 table   == [rows EXCEPT ![i] = Row(trade)]
      <3>1. PICK seen, complete : Reconcile(objects, ids, table, seen, complete) /\ listed' = ids /\ UNCHANGED taskVars
        BY <2>6 DEF AssignPair
      <3> DEFINE judged == [j \in Ids |-> IF j \in ids THEN Judged(objects[j], seen, complete) ELSE objects[j]]
                 saved  == {j \in ids : judged[j].status # objects[j].status}
                 told   == [j \in Ids |-> IF j \in saved THEN Row(judged[j]) ELSE table[j]]
      <3>2. trades' = judged /\ rows' = told /\ foreign' = Foreign(objects, ids, seen)
        BY <3>1 DEF Reconcile
      <3>3. trade \in TradeShape /\ Legs(trade) \subseteq foreign /\ trades[i] = None
        BY <2>6 DEF AssignPair, NewTrade, TradeShape, Statuses, ActiveStatuses, Legs, Fresh
      <3>4. \A j \in listed : trades[j].byHand => Legs(trade) \cap Legs(trades[j]) = {}
        BY <2>1, <3>3 DEF Sound
      <3> HIDE DEF trade
      <3>5. Sound(objects, ids, table, {})
        BY <2>1, <3>3, <3>4, AddKeeps
      <3>6. saved \subseteq ids
        OBVIOUS
      <3> HIDE DEF saved, ids, objects, table
      <3>7. Sound(judged, ids, told, Foreign(objects, ids, seen))
        BY <3>5, <3>6, ReconcileKeeps
      <3>8. \A j \in Ids : objects[j] # None => judged[j] # None /\ judged[j].byHand = objects[j].byHand
        <4>1. ASSUME NEW j \in ids
              PROVE  Judged(objects[j], seen, complete) # None /\ Judged(objects[j], seen, complete).byHand = objects[j].byHand
          <5>1. objects[j] \in TradeShape
            BY <3>5 DEF Sound
          <5> QED  BY <5>1, JudgedShape DEF SamePair
        <4> QED  BY <4>1
      <3> HIDE DEF judged, told
      <3>9. listed \subseteq ids /\ \A j \in Ids : trades[j] # None => objects[j] = trades[j]
        BY <2>1, <3>3 DEF ids, objects, Sound
      <3>10. Sound(trades, listed, rows, foreign)'
        BY <3>1, <3>2, <3>7 DEF Sound, Owned
      <3>11. PairsStay(0)
        BY <3>1, <3>2, <3>8, <3>9 DEF PairsStay
      <3> QED
        BY <3>1, <3>10, <3>11, TasksKept DEF taskVars
    <2>7. ASSUME NEW i \in Ids, NEW l \in Exchanges, NEW s \in Exchanges, OpenPair(i, l, s)
          PROVE  Bookkeeping'
      <3> DEFINE trade == NewTrade(l, s, "opening", FALSE)
      <3>1. trade \in TradeShape /\ ~trade.byHand /\ trades[i] = None
        BY <2>7 DEF OpenPair, NewTrade, TradeShape, Statuses, ActiveStatuses, Fresh
      <3>2. /\ trades' = [trades EXCEPT ![i] = trade]
            /\ rows' = [rows EXCEPT ![i] = Row(trade)]
            /\ listed' = listed \cup {i}
            /\ foreign' = foreign /\ closer' = None /\ opener' = [id |-> i, background |-> FALSE]
        BY <2>1, <2>7 DEF OpenPair, Busy, pollVars, Sound
      <3> HIDE DEF trade
      <3>3. Sound([trades EXCEPT ![i] = trade], listed \cup {i}, [rows EXCEPT ![i] = Row(trade)], foreign)
        BY <2>1, <3>1, AddKeeps
      <3>4. Sound(trades, listed, rows, foreign)'
        BY <3>2, <3>3 DEF Sound, Owned
      <3>5. opener' \in Openers /\ opener'.id = i /\ trades'[i] = trade /\ i \in listed'
        BY <2>1, <3>2 DEF Openers, Sound
      <3> QED
        BY <3>1, <3>2, <3>4, <3>5 DEF Bookkeeping, Writable
    <2>8. ASSUME NEW i \in Ids, Writable(i), NEW trade \in TradeShape, NEW kept,
                 SamePair(trade, trades[i]),
                 kept = listed \/ (kept = listed \ {i} /\ trade.status \notin ActiveStatuses),
                 trades' = [trades EXCEPT ![i] = trade],
                 rows' = [rows EXCEPT ![i] = Row(trade)],
                 listed' = kept,
                 foreign' = foreign
          PROVE  /\ Sound(trades, listed, rows, foreign)'
                 /\ PairsStay(i)
                 /\ kept = listed \/ ~trade.byHand => PairsStay(0)
      <3>1. Sound([trades EXCEPT ![i] = trade], kept, [rows EXCEPT ![i] = Row(trade)], foreign)
        BY <2>1, <2>8, SaveKeeps DEF Writable
      <3>2. Sound(trades, listed, rows, foreign)'
        BY <2>8, <3>1 DEF Sound, Owned
      <3>3. \A j \in Ids : trades[j] # None => trades'[j] # None /\ trades'[j].byHand = trades[j].byHand
        BY <2>1, <2>8 DEF Sound, SamePair
      <3>4. PairsStay(i)
        BY <2>8, <3>3 DEF PairsStay
      <3>5. ASSUME kept = listed \/ ~trade.byHand PROVE PairsStay(0)
        BY <2>8, <3>3, <3>5 DEF PairsStay, SamePair
      <3> QED
        BY <3>2, <3>4, <3>5
    <2>9. ASSUME NEW i \in Ids, Writable(i), NEW status \in Statuses
          PROVE  LET trade == [trades[i] EXCEPT !.status = status]
                 IN /\ trade \in TradeShape
                    /\ SamePair(trade, trades[i])
                    /\ trade.status = status
                    /\ [trades EXCEPT ![i].status = status] = [trades EXCEPT ![i] = trade]
                    /\ [trades EXCEPT ![i] = trade][i] = trade
      <3>1. trades[i] \in TradeShape /\ trades \in [Ids -> TradeShape \cup {None}]
        BY <2>1, <2>9 DEF Writable, Sound
      <3> QED
        BY <3>1 DEF TradeShape, SamePair
    <2>10. ASSUME NEW i \in Ids, Writable(i), NEW status \in Statuses, Save(i, status), foreign' = foreign
          PROVE  Sound(trades, listed, rows, foreign)' /\ PairsStay(0)
      <3> DEFINE trade == [trades[i] EXCEPT !.status = status]
      <3>1. trades' = [trades EXCEPT ![i] = trade] /\ rows' = [rows EXCEPT ![i] = Row(trade)] /\ listed' = listed
        BY <2>9, <2>10 DEF Save
      <3>2. trade \in TradeShape /\ SamePair(trade, trades[i])
        BY <2>9, <2>10
      <3> HIDE DEF trade
      <3> QED
        BY <2>8, <2>10, <3>1, <3>2
    <2>11. ASSUME NEW i \in Ids, Writable(i), NEW status \in Statuses \ ActiveStatuses,
                 Finish(i, [trades[i] EXCEPT !.status = status]), foreign' = foreign
          PROVE  /\ Sound(trades, listed, rows, foreign)'
                 /\ PairsStay(i)
                 /\ ~trades[i].byHand => PairsStay(0)
      <3> DEFINE trade == [trades[i] EXCEPT !.status = status]
      <3>1. /\ trades' = [trades EXCEPT ![i] = trade]
            /\ rows' = [rows EXCEPT ![i] = Row(trade)]
            /\ listed' = listed \ {i}
        BY <2>9, <2>11 DEF Finish
      <3>2. /\ trade \in TradeShape /\ SamePair(trade, trades[i]) /\ trade.status \notin ActiveStatuses
            /\ trade.byHand = trades[i].byHand
        BY <2>9, <2>11 DEF SamePair
      <3> HIDE DEF trade
      <3> QED
        BY <2>8, <2>11, <3>1, <3>2
    <2>12. ASSUME NEW i \in Ids, CloseRecord(i)
          PROVE  Bookkeeping'
      <3> DEFINE trade == [trades[i] EXCEPT !.status = "closed"]
      <3>1. Writable(i) /\ (closer # None => closer.id # i)
        BY <2>1, <2>12 DEF CloseRecord, Working, Writable, Sound
      <3>2. "closed" \in Statuses \ ActiveStatuses
        BY DEF Statuses, ActiveStatuses
      <3>3. trade \in TradeShape /\ SamePair(trade, trades[i]) /\ trade.status \notin ActiveStatuses
        BY <2>9, <3>1, <3>2
      <3>4. /\ trades' = [trades EXCEPT ![i] = trade]
            /\ rows' = [rows EXCEPT ![i] = Row(trade)]
            /\ listed' = listed \ {i}
            /\ foreign' = foreign /\ opener' = opener /\ closer' = closer
        BY <2>9, <2>12, <3>1, <3>2 DEF CloseRecord, pollVars, taskVars
      <3> HIDE DEF trade
      <3>5. Sound(trades, listed, rows, foreign)' /\ PairsStay(i)
        BY <2>8, <3>1, <3>3, <3>4
      <3> QED
        BY <3>1, <3>4, <3>5, TasksKept
    <2>13. ASSUME NEW i \in Ids, ClosePair(i)
          PROVE  Bookkeeping'
      <3>1. Writable(i) /\ "closing" \in Statuses
        BY <2>1, <2>13 DEF ClosePair, Statuses, ActiveStatuses, Writable, Sound
      <3>2. Sound(trades, listed, rows, foreign)' /\ PairsStay(0)
        BY <2>10, <2>13, <3>1 DEF ClosePair, pollVars
      <3>3. closer' \in Closers /\ closer'.id = i /\ opener' = opener /\ (opener # None => opener.background)
        BY <2>13 DEF ClosePair, Busy, Closers
      <3>4. Writable(i)' /\ (opener # None => Writable(opener.id)' /\ ~trades'[opener.id].byHand)
        <4>1. Writable(i)'
          BY <3>1, <3>2 DEF Writable, PairsStay, Ids
        <4>2. ASSUME opener # None PROVE Writable(opener.id)' /\ ~trades'[opener.id].byHand
          BY <3>2, <3>3, <4>2 DEF Bookkeeping, Writable, PairsStay
        <4> QED  BY <4>1, <4>2
      <3> QED
        BY <3>2, <3>3, <3>4 DEF Bookkeeping
    <2>14. ASSUME NEW i \in Ids, CloseLeg(i)
          PROVE  Bookkeeping'
      <3>1. Writable(i) /\ opener' = opener /\ (opener # None => opener.background) /\ UNCHANGED <<foreign, bookVars>>
        BY <2>1, <2>14 DEF CloseLeg, Busy, Writable, Sound, pollVars
      <3>2. closer' \in Closers /\ closer'.id = i
        BY <2>14 DEF CloseLeg, Closers
      <3> QED
        BY <3>1, <3>2 DEF Bookkeeping, Writable, bookVars
    <2>15. CASE LegStays
      BY <2>15 DEF LegStays, bookVars, pollVars, Bookkeeping, Writable
    <2>16. CASE HandOver
      <3>1. opener \in Openers /\ Writable(opener.id) /\ ~trades[opener.id].byHand /\ "opening" \in Statuses
        BY <2>16 DEF HandOver, Bookkeeping, Statuses, ActiveStatuses
      <3>2. opener.id \in Ids /\ foreign' = foreign /\ closer' = closer /\ Save(opener.id, "opening")
        BY <2>16, <3>1 DEF HandOver, pollVars, Openers
      <3>3. Sound(trades, listed, rows, foreign)' /\ PairsStay(0)
        BY <2>10, <3>1, <3>2
      <3>4. opener' \in Openers /\ opener'.id = opener.id /\ opener'.background
        BY <2>16, <3>1 DEF HandOver, Openers
      <3>5. /\ Writable(opener.id)' /\ ~trades'[opener.id].byHand
            /\ closer # None => Writable(closer.id)'
        <4>1. Writable(opener.id)' /\ ~trades'[opener.id].byHand
          BY <3>1, <3>3, <3>4 DEF Writable, PairsStay
        <4>2. ASSUME closer # None PROVE Writable(closer.id)'
          BY <3>2, <3>3, <4>2 DEF Bookkeeping, Writable, PairsStay, Ids
        <4> QED  BY <4>1, <4>2
      <3> QED
        BY <3>2, <3>3, <3>4, <3>5 DEF Bookkeeping
    <2>17. CASE OpeningEnds
      <3>1. opener \in Openers /\ Writable(opener.id) /\ ~trades[opener.id].byHand
        BY <2>17 DEF OpeningEnds, Bookkeeping
      <3>2. opener.id \in Ids /\ foreign' = foreign /\ closer' = closer /\ opener' = None
        BY <2>17, <3>1 DEF OpeningEnds, pollVars, Openers
      <3>3. CASE \E status \in {"open", "leg_lost"} : Save(opener.id, status)
        <4>1. Sound(trades, listed, rows, foreign)' /\ PairsStay(0)
          BY <2>10, <3>1, <3>2, <3>3 DEF Statuses, ActiveStatuses
        <4> QED
          BY <3>2, <4>1, TasksKept DEF Bookkeeping, Closers, Ids
      <3>4. CASE Finish(opener.id, [trades[opener.id] EXCEPT !.status = "failed"])
        <4>1. Sound(trades, listed, rows, foreign)' /\ PairsStay(0)
          BY <2>11, <3>1, <3>2, <3>4 DEF Statuses, ActiveStatuses
        <4> QED
          BY <3>2, <4>1, TasksKept DEF Bookkeeping, Closers, Ids
      <3> QED
        BY <2>17, <3>3, <3>4 DEF OpeningEnds
    <2>18. CASE CloseFails \/ Settle
      <3>1. closer \in Closers /\ closer.id \in Ids /\ Writable(closer.id) /\ foreign' = foreign /\ opener' = opener /\ closer' = None
        BY <2>18 DEF CloseFails, Settle, pollVars, Bookkeeping, Closers
      <3>2. CASE CloseFails
        <4>1. PICK status \in {closer.previous, "leg_lost", "closing"} : Save(closer.id, status)
          BY <3>2 DEF CloseFails
        <4>2. status \in Statuses
          BY <3>1, <3>2, <4>1 DEF CloseFails, Closers, Statuses, ActiveStatuses
        <4>3. Sound(trades, listed, rows, foreign)' /\ PairsStay(0)
          BY <2>10, <3>1, <4>1, <4>2
        <4> QED
          BY <3>1, <4>3, TasksKept
      <3>3. CASE Settle
        <4>1. Sound(trades, listed, rows, foreign)' /\ PairsStay(closer.id)
          BY <2>11, <3>1, <3>3 DEF Settle, Statuses, ActiveStatuses
        <4> QED
          BY <3>1, <4>1, TasksKept
      <3> QED
        BY <2>18, <3>2, <3>3
    <2>19. CASE World
      <3>1. CASE Restart
        <4>1. /\ trades' = rows /\ rows' = rows /\ foreign' = {}
              /\ listed' = {i \in Ids : rows[i] # None /\ rows[i].status \in ActiveStatuses}
              /\ opener' = None /\ closer' = None
          BY <3>1 DEF Restart
        <4>2. \A i \in listed' : rows[i].byHand => i \in listed
          BY <2>1, <4>1 DEF Sound
        <4>3. \A i \in listed' : Legs(rows[i]) = Legs(trades[i]) /\ rows[i].byHand = trades[i].byHand
          BY <2>1, <4>1, SameLegs DEF Sound
        <4>4. Owned(trades, listed)'
          BY <2>1, <4>1, <4>2, <4>3 DEF Sound, Owned
        <4>5. Sound(trades, listed, rows, foreign)'
          BY <2>1, <4>1, <4>4 DEF Sound, SamePair
        <4> QED
          BY <4>1, <4>5 DEF Bookkeeping
      <3>2. CASE UNCHANGED <<foreign, bookVars, taskVars>>
        BY <3>2 DEF bookVars, taskVars, Bookkeeping, Writable
      <3> QED
        BY <2>19, <3>1, <3>2 DEF World, PositionMoves, KeysChange, Balance, pollVars, bookVars, taskVars
    <2> QED
      BY <2>3, <2>4, <2>5, <2>6, <2>7, <2>12, <2>13, <2>14, <2>15, <2>16, <2>17, <2>18, <2>19
      DEF Next, Polling, Trading
  <1>3. Bookkeeping => HandLegsOwnedOnce
    BY DEF Bookkeeping, Sound, Owned, HandLegsOwnedOnce
  <1> QED
    BY <1>1, <1>2, <1>3, PTL DEF Spec

-------------------------------------------------------------------------------
(* The write queue *)

Proved == INSTANCE QueueProofs WITH Ends <- {"shutdown", "crash"}

(* The queue followed here is the queue proved about there. *)
LEMMA SameQueue ==
    /\ Queue!Init <=> Proved!Init
    /\ Queue!Next <=> Proved!Next
    /\ UNCHANGED Queue!vars <=> UNCHANGED Proved!vars
  BY Zenon
     DEF Queue!ToSet, Proved!ToSet, Queue!Last, Proved!Last,
         Queue!Cardinality, Proved!Cardinality, Queue!Lesser, Proved!Lesser, Queue!From,
         Proved!From, Queue!File, Proved!File, Queue!LinesOf, Proved!LinesOf,
         Queue!Lines, Proved!Lines, Queue!Idle, Proved!Idle, Queue!Waiting,
         Proved!Waiting, Queue!Inserting, Proved!Inserting, Queue!Attempt,
         Proved!Attempt, Queue!Refusable, Proved!Refusable,
         Queue!SpoolAppend, Proved!SpoolAppend, Queue!Finish, Proved!Finish,
         Queue!Abort, Proved!Abort, Queue!Advance, Proved!Advance,
         Queue!Submit, Proved!Submit, Queue!Flushable, Proved!Flushable,
         Queue!TooEarly, Proved!TooEarly, Queue!StartConnect,
         Proved!StartConnect, Queue!ConnectFails, Proved!ConnectFails,
         Queue!Work, Proved!Work, Queue!Connected, Proved!Connected,
         Queue!Flush, Proved!Flush, Queue!PingAnswered, Proved!PingAnswered,
         Queue!PingFails, Proved!PingFails, Queue!Written, Proved!Written,
         Queue!NextRow, Proved!NextRow, Queue!Apply, Proved!Apply,
         Queue!Inserted, Proved!Inserted, Queue!BatchRefused,
         Proved!BatchRefused, Queue!RowRefused, Proved!RowRefused,
         Queue!Remaining, Proved!Remaining, Queue!PutBack, Proved!PutBack,
         Queue!ReplaceFile, Proved!ReplaceFile, Queue!CountedOff,
         Proved!CountedOff, Queue!Unheard, Proved!Unheard, Queue!InsertLost,
         Proved!InsertLost, Queue!Outage, Proved!Outage, Queue!Recover,
         Proved!Recover, Queue!Shutdown, Proved!Shutdown, Queue!Torn,
         Proved!Torn, Queue!Spooling, Proved!Spooling, Queue!Crash,
         Proved!Crash, Queue!Start, Proved!Start, Queue!Init, Proved!Init,
         Queue!TaskStep, Proved!TaskStep, Queue!Next, Proved!Next,
         Queue!vars, Proved!vars, Queue!queueVars, Proved!queueVars,
         Queue!dbVars, Proved!dbVars, Queue!envVars, Proved!envVars

LEMMA QueueFollowed ==
    ASSUME [NextAll]_allVars
    PROVE  [Proved!Next]_(Proved!vars)
  <1>1. Queue!Next \/ UNCHANGED queueVars
    BY DEF NextAll, CatalogStep, PortfolioStep, GapStep, QueueStep, LinkStep, allVars
  <1>2. UNCHANGED queueVars => UNCHANGED Queue!vars
    BY DEF queueVars, Queue!vars, Queue!queueVars, Queue!dbVars, Queue!envVars
  <1> QED  BY <1>1, <1>2, SameQueue

(* A row that is on disk stays there until the database has it or refused it,
   through outages, shutdowns, crashes and restarts. *)
THEOREM RowsStayOnDisk ==
    ASSUME MaxBatch \in Nat
    PROVE  SpecAll => SpooledIsKept
  <1>1. InitAll => Proved!Sane
    <2>1. InitAll => Proved!Init
      BY SameQueue DEF InitAll
    <2> QED  BY <2>1, Proved!InitIsSane
  <1>2. ASSUME Proved!Sane, [NextAll]_allVars
        PROVE  Proved!Sane' /\ [Queue!OnDisk(files) \subseteq Queue!OnDisk(files') \cup stored' \cup refused']_(Queue!vars)
    <2>1. Proved!Sane' /\ Proved!KeptOnDisk
      BY <1>2, QueueFollowed, Proved!NextKeeps
    <2> QED  BY <2>1, Zenon DEF Proved!KeptOnDisk, Proved!OnDisk, Queue!OnDisk, Proved!ToSet, Queue!ToSet
  <1> QED  BY <1>1, <1>2, PTL DEF SpecAll, SpooledIsKept, Queue!SpooledIsKept

(* The counter of spooled rows shown to the user is what is on disk, after any
   partial replay, replaced file, crash and restart. *)
THEOREM SpooledLinesCounted ==
    ASSUME MaxBatch \in Nat
    PROVE  SpecAll => []SpooledIsCounted
  <1>1. InitAll => Proved!Sane /\ Proved!Tally
    <2>1. InitAll => Proved!Init
      BY SameQueue DEF InitAll
    <2> QED  BY <2>1, Proved!InitIsSane, Proved!InitTallies
  <1>2. Proved!Sane /\ Proved!Tally /\ [NextAll]_allVars => Proved!Sane' /\ Proved!Tally'
    BY QueueFollowed, Proved!NextKeeps, Proved!NextTallies
  <1>3. Proved!Tally => SpooledIsCounted
    <2>1. Proved!Tally => Proved!SpooledIsCounted
      BY Proved!TallyCounts
    <2> QED
      BY <2>1, Zenon
      DEF SpooledIsCounted, Queue!SpooledIsCounted, Proved!SpooledIsCounted, Queue!Rest, Proved!Rest,
          Queue!Lines, Proved!Lines, Queue!LinesOf, Proved!LinesOf, Queue!Cardinality, Proved!Cardinality,
          Queue!Idle, Proved!Idle
  <1> QED  BY <1>1, <1>2, <1>3, PTL DEF SpecAll

-------------------------------------------------------------------------------
(* The gap *)

History == INSTANCE GapProofs WITH
    MinRoi <- 2, Hysteresis <- 1, FastMultiple <- 2, EnterAfter <- 3, FastAfter <- 1, MinSamples <- 2, ExitAfter <- 1,
    MaxLifetime <- 7, Readings <- {1, 2, 4}, Exits <- {0, 1}, Delays <- {1, 2}

(* The gap followed here is the gap proved about there. *)
LEMMA SameGap ==
    /\ Gaps!Init <=> History!Init
    /\ Gaps!Next <=> History!Next
    /\ UNCHANGED Gaps!vars <=> UNCHANGED History!vars
  BY ZenonT(40)
     DEF Gaps!Result, History!Result, Gaps!ExitLevel, History!ExitLevel, Gaps!Above, History!Above,
         Gaps!LastsFrom, History!LastsFrom, Gaps!SinceOr, History!SinceOr, Gaps!WaitBeforeFeed,
         History!WaitBeforeFeed, Gaps!Earned, History!Earned, Gaps!Detect, History!Detect,
         Gaps!TrackPeak, History!TrackPeak, Gaps!TrackMissed, History!TrackMissed, Gaps!EnterFeed,
         History!EnterFeed, Gaps!End, History!End, Gaps!BelowAgain, History!BelowAgain,
         Gaps!DippedOut, History!DippedOut, Gaps!CountReading, History!CountReading,
         Gaps!CandidateStep, History!CandidateStep, Gaps!LeaveFeed, History!LeaveFeed,
         Gaps!InFeedStep, History!InFeedStep, Gaps!TrackingStep, History!TrackingStep, Gaps!Expired,
         History!Expired, Gaps!ShownStep, History!ShownStep, Gaps!Step, History!Step, Gaps!vars,
         History!vars, Gaps!Nothing, History!Nothing, Gaps!Init, History!Init, Gaps!n, History!n,
         Gaps!Now, History!Now, Gaps!IsShown, History!IsShown, Gaps!Times, History!Times,
         Gaps!KnownExits, History!KnownExits, Gaps!Samples, History!Samples, Gaps!Advance,
         History!Advance, Gaps!EndedBy, History!EndedBy, Gaps!Finish, History!Finish,
         Gaps!StartOver, History!StartOver, Gaps!Next, History!Next, Gaps!Shown, History!Shown

LEMMA SameHistory ==
    /\ Gaps!ShownWhenEarned <=> History!ShownWhenEarned
    /\ Gaps!LeavesAfterLongDip <=> History!LeavesAfterLongDip
  BY Zenon
     DEF Gaps!ShownWhenEarned, History!ShownWhenEarned, Gaps!LeavesAfterLongDip,
         History!LeavesAfterLongDip, Gaps!EarnedAt, History!EarnedAt, Gaps!LongDip, History!LongDip,
         Gaps!AboveAt, History!AboveAt, Gaps!BelowAt, History!BelowAt, Gaps!Elapsed,
         History!Elapsed, Gaps!Above, History!Above, Gaps!ExitLevel, History!ExitLevel,
         Gaps!WaitBeforeFeed, History!WaitBeforeFeed, Gaps!n, History!n, Gaps!IsShown,
         History!IsShown, Gaps!Shown, History!Shown, Gaps!Min, History!Min, Gaps!Max, History!Max,
         Gaps!Cardinality, History!Cardinality

(* None is neither a number nor a record. *)
NoneIsApart == None \notin Int /\ None \notin History!Records

LEMMA GapSound ==
    ASSUME NoneIsApart
    PROVE  /\ InitAll => History!IInv
           /\ History!IInv /\ [NextAll]_allVars => History!IInv'
  <1>1. History!Numbers
    BY DEF NoneIsApart, History!Numbers
  <1>2. InitAll => History!IInv
    <2>1. InitAll => History!Init
      BY SameGap DEF InitAll
    <2> QED  BY <2>1, History!NothingIsSound DEF History!Init, NoneIsApart
  <1>3. [NextAll]_allVars => [History!Next]_(History!vars)
    <2>1. [NextAll]_allVars => Gaps!Next \/ UNCHANGED gapVars
      BY DEF NextAll, CatalogStep, PortfolioStep, GapStep, QueueStep, LinkStep, allVars
    <2>2. UNCHANGED gapVars => UNCHANGED Gaps!vars
      BY DEF gapVars, Gaps!vars
    <2> QED  BY <2>1, <2>2, SameGap
  <1>4. ASSUME History!IInv, [NextAll]_allVars PROVE History!IInv'
    BY <1>1, <1>3, <1>4, History!NextKeeps DEF NoneIsApart
  <1> QED  BY <1>2, <1>4

(* A gap is shown at the first of its samples that earns it, as far as its
   whole history tells. *)
THEOREM GapsShownWhenEarned ==
    ASSUME NoneIsApart
    PROVE  SpecAll => []ShownWhenEarned
  <1>1. History!IInv => ShownWhenEarned
    BY SameHistory, History!SoundIsShownWhenEarned DEF ShownWhenEarned, NoneIsApart
  <1> QED  BY <1>1, GapSound, PTL DEF SpecAll

(* It leaves the feed with its first long dip. *)
THEOREM GapsLeaveAfterLongDip ==
    ASSUME NoneIsApart
    PROVE  SpecAll => []LeavesAfterLongDip
  <1>1. History!IInv => LeavesAfterLongDip
    BY SameHistory, History!SoundLeavesAfterLongDip DEF LeavesAfterLongDip, NoneIsApart
  <1> QED  BY <1>1, GapSound, PTL DEF SpecAll

-------------------------------------------------------------------------------
(* The ids of rows *)

CONSTANT PerMs

VARIABLES lastMs, idCount, rowId

RowIds == INSTANCE LocalIds WITH last <- lastMs, counter <- idCount, id <- rowId

Drawn ==
    /\ lastMs \in Nat
    /\ idCount \in 0 .. PerMs - 1
    /\ rowId = RowIds!Id(lastMs, idCount)

LEMMA LaterIsLarger ==
    ASSUME PerMs \in Nat \ {0}, NEW m \in Nat, NEW n \in Nat, m < n, NEW c \in 0 .. PerMs - 1
    PROVE  RowIds!Id(n, 0) > RowIds!Id(m, c)
  <1>1. n = m + (n - m) /\ n - m \in Nat \ {0}
    OBVIOUS
  <1>2. \A d \in Nat \ {0} : d * PerMs >= PerMs /\ (m + d) * PerMs = m * PerMs + d * PerMs
    OBVIOUS
  <1>3. m * PerMs \in Nat
    OBVIOUS
  <1> QED  BY <1>1, <1>2, <1>3 DEF RowIds!Id

(* No id is given out twice: whatever the clock says and however many ids a
   millisecond is asked for, each is larger than all before. *)
THEOREM IdsAlwaysGrow ==
    ASSUME PerMs \in Nat \ {0}
    PROVE  RowIds!Spec => RowIds!IdsGrow
  <1>1. RowIds!Init => Drawn
    BY DEF RowIds!Init, Drawn
  <1>2. ASSUME Drawn, NEW clockMs \in Nat, RowIds!Draw(clockMs)
        PROVE  Drawn' /\ rowId' > rowId
    <2>1. CASE lastMs' > lastMs /\ idCount' = 0
      <3>1. lastMs' \in Nat
        BY <1>2 DEF Drawn, RowIds!Draw
      <3>2. RowIds!Id(lastMs', 0) > RowIds!Id(lastMs, idCount)
        BY <1>2, <2>1, <3>1, LaterIsLarger DEF Drawn
      <3> QED  BY <1>2, <2>1, <3>1, <3>2 DEF Drawn, RowIds!Draw
    <2>2. CASE lastMs' = lastMs /\ idCount' = idCount + 1 /\ idCount + 1 < PerMs
      <3>1. lastMs * PerMs \in Nat
        BY <1>2 DEF Drawn
      <3> QED  BY <1>2, <2>2, <3>1 DEF Drawn, RowIds!Draw, RowIds!Id
    <2> QED  BY <1>2, <2>1, <2>2 DEF RowIds!Draw, Drawn
  <1>3. Drawn /\ UNCHANGED RowIds!vars => Drawn'
    BY DEF Drawn, RowIds!vars
  <1>4. Drawn /\ [RowIds!Next]_(RowIds!vars) => Drawn' /\ [rowId' > rowId]_(RowIds!vars)
    BY <1>2, <1>3 DEF RowIds!Next
  <1> QED  BY <1>1, <1>4, PTL DEF RowIds!Spec, RowIds!IdsGrow

-------------------------------------------------------------------------------
(* The breaks of the links *)

(* The outage loop holds a break back for some time, and None is no time. *)
HoldsBack == Hold \in Nat \ {0} /\ None \notin Nat

(* A break of a link that is down was told, or is held back since it went down
   or before; what the outage loop left held back is younger than the hold. *)
BreaksKnown ==
    /\ clock \in Nat
    /\ heldBack \in [Links!Subjects -> Nat \cup {None}]
    /\ downSince \in [Links!Subjects -> Nat]
    /\ said \in [Links!Subjects -> {"nothing", "up", "down"}]
    /\ link \in [Links!Subjects -> {"unknown", "up", "down"}]
    /\ \A s \in Links!Subjects :
          /\ link[s] = "down" => \/ said[s] = "down"
                                 \/ heldBack[s] # None /\ heldBack[s] <= downSince[s]
          /\ heldBack[s] # None => heldBack[s] <= clock
          /\ flushed /\ heldBack[s] # None => clock - heldBack[s] < Hold

LEMMA BreakIsHeld ==
    ASSUME HoldsBack, BreaksKnown, NEW s \in Links!Subjects, Links!GoesDown(s), UNCHANGED <<clock, flushed>>
    PROVE  BreaksKnown'
  <1> DEFINE since == IF heldBack[s] = None THEN clock ELSE heldBack[s]
  <1>1. /\ link' = [link EXCEPT ![s] = "down"] /\ downSince' = [downSince EXCEPT ![s] = clock]
        /\ heldBack' = [heldBack EXCEPT ![s] = since] /\ said' = said
    BY DEF Links!GoesDown, Links!OnBreak, BreaksKnown
  <1>2. since \in Nat /\ since <= clock /\ (flushed => clock - since < Hold)
    BY DEF BreaksKnown, HoldsBack
  <1> HIDE DEF since
  <1> QED  BY <1>1, <1>2 DEF BreaksKnown, HoldsBack

LEMMA RecoveryIsHeard ==
    ASSUME HoldsBack, BreaksKnown, NEW s \in Links!Subjects, Links!ComesUp(s), UNCHANGED <<clock, flushed>>
    PROVE  BreaksKnown'
  <1>1. link' = [link EXCEPT ![s] = "up"] /\ downSince' = downSince
    BY DEF Links!ComesUp
  <1>2. \/ UNCHANGED <<heldBack, broken, said>>
        \/ heldBack' = [heldBack EXCEPT ![s] = None] /\ UNCHANGED said
        \/ UNCHANGED heldBack /\ (said' = said \/ said' = [said EXCEPT ![s] = "up"])
    BY DEF Links!ComesUp, Links!OnRecovery
  <1> QED  BY <1>1, <1>2 DEF BreaksKnown

LEMMA FlushTellsLasting ==
    ASSUME HoldsBack, BreaksKnown, Links!FlushOutages
    PROVE  BreaksKnown'
  <1>1. /\ clock' = clock /\ link' = link /\ downSince' = downSince
        /\ heldBack' = [s \in Links!Subjects |-> IF s \in Links!Lasted THEN None ELSE heldBack[s]]
        /\ said' = [s \in Links!Subjects |-> IF s \in Links!Lasted THEN "down" ELSE said[s]]
    BY DEF Links!FlushOutages
  <1>2. \A s \in Links!Subjects : s \in Links!Lasted <=> heldBack[s] # None /\ clock - heldBack[s] >= Hold
    BY DEF Links!Lasted
  <1>3. \A s \in Links!Subjects : s \notin Links!Lasted /\ heldBack[s] # None => clock - heldBack[s] < Hold
    BY <1>2 DEF BreaksKnown, HoldsBack
  <1> QED  BY <1>1, <1>3 DEF BreaksKnown

LEMMA LinksKeep ==
    ASSUME HoldsBack, BreaksKnown, Links!Next \/ UNCHANGED linkVars
    PROVE  BreaksKnown'
  <1>1. ASSUME NEW x \in Probed, Links!ProbeFails(x) PROVE BreaksKnown'
    <2>1. x \in Links!Subjects
      BY DEF Links!Subjects
    <2>2. Links!GoesDown(x) \/ UNCHANGED <<link, heldBack, broken, said, downSince>>
      BY <1>1 DEF Links!ProbeFails
    <2> QED  BY <1>1, <2>1, <2>2, BreakIsHeld DEF Links!ProbeFails, BreaksKnown
  <1>2. ASSUME NEW x \in Probed, Links!ProbeAnswers(x) PROVE BreaksKnown'
    BY <1>2, RecoveryIsHeard DEF Links!ProbeAnswers, Links!Subjects
  <1>3. CASE Links!DatabaseLost
    BY <1>3, BreakIsHeld DEF Links!DatabaseLost, Links!Subjects
  <1>4. CASE Links!DatabaseBack
    BY <1>4, RecoveryIsHeard DEF Links!DatabaseBack, Links!Subjects
  <1>5. CASE Links!FlushOutages
    BY <1>5, FlushTellsLasting
  <1>6. CASE Links!Tick
    <2>1. clock' = clock + 1 /\ flushed' = FALSE /\ UNCHANGED <<link, heldBack, said, downSince>>
      BY <1>6 DEF Links!Tick
    <2> QED  BY <2>1 DEF BreaksKnown
  <1>7. CASE UNCHANGED <<clock, flushed, link, heldBack, said, downSince>>
    BY <1>7 DEF BreaksKnown
  <1> QED  BY <1>1, <1>2, <1>3, <1>4, <1>5, <1>6, <1>7
           DEF Links!Next, Links!ProbeWarmsUp, Links!NetworkChanges, linkVars

(* "A break that outlives the hold is a different thing" (notifier.py:47-53):
   once the outage loop has run, no break older than the hold is unsaid, at any
   hour, for every length of the hold and every number of links. *)
THEOREM LastingBreaksAreTold ==
    ASSUME HoldsBack
    PROVE  SpecAll => []LastingBreakIsTold
  <1>1. InitAll => BreaksKnown
    BY DEF InitAll, Links!Init, BreaksKnown
  <1>2. BreaksKnown /\ [NextAll]_allVars => BreaksKnown'
    <2>1. [NextAll]_allVars => Links!Next \/ UNCHANGED linkVars
      BY DEF NextAll, CatalogStep, PortfolioStep, GapStep, QueueStep, LinkStep, allVars
    <2> QED  BY <2>1, LinksKeep
  <1>3. BreaksKnown => LastingBreakIsTold
    BY DEF BreaksKnown, LastingBreakIsTold, Links!LastingBreakIsTold, HoldsBack
  <1> QED  BY <1>1, <1>2, <1>3, PTL DEF SpecAll

-------------------------------------------------------------------------------
(* The catalog of pairs *)

(* None is no record of a decision under way and no answer of an exchange, and  *)
(* there are finitely many exchanges.                                           *)
CatalogNone ==
    /\ \A k, v, f : None # [key |-> k, version |-> v, flags |-> f]
    /\ \A x \in Catalogs!Enabled : None \notin Catalogs!AnswersOf(x)
    /\ IsFiniteSet(Catalogs!Enabled)

KeysOf(assessed) == {Catalogs!KeyOf(a) : a \in assessed}

Shapes ==
    /\ \A k \in DOMAIN pairs :
          pairs[k] = [reason |-> pairs[k].reason, hasId |-> pairs[k].hasId, flags |-> pairs[k].flags]
    /\ refresh = [at |-> refresh.at, names |-> refresh.names, assessed |-> refresh.assessed, stored |-> refresh.stored]
    /\ refresh.at \in {"idle", "loading", "assessed", "saved"}
    /\ refresh.at # "saved" => refresh.stored = {}
    /\ version \in Nat

(* A record with an id, and a row a refresh read, are in the table. *)
Known ==
    /\ \A k \in DOMAIN pairs : pairs[k].hasId => k \in DOMAIN pairRows
    /\ \A r \in refresh.stored : r.key \in DOMAIN pairRows

(* The decision on pair k waits for the database. *)
Waits(k) == flagging # None /\ k = flagging.key

(* While every decision reached the table and met no refresh, the table, what   *)
(* a refresh read of it and the records agree, but for the decision that is on  *)
(* its way.                                                                     *)
TableRules ==
    sheltered =>
        /\ \A r \in refresh.stored : r.flags = pairRows[r.key]
        /\ flagging # None =>
              /\ refresh.at = "idle" /\ flagging.version = version
              /\ flagging.key \in DOMAIN pairRows /\ pairRows[flagging.key] = flagging.flags
        /\ \A k \in DOMAIN decided : k \in DOMAIN pairRows /\ (Waits(k) \/ pairRows[k] = decided[k])
        /\ \A k \in DOMAIN pairs : pairs[k].hasId => Waits(k) \/ pairs[k].flags = pairRows[k]

Decided == Shapes /\ Known /\ TableRules

LEMMA RefreshStarts ==
    ASSUME Decided, NEW names, Catalogs!StartRefresh(names)
    PROVE  Decided'
  <1>1. /\ refresh' = [at |-> "loading", names |-> names, assessed |-> {}, stored |-> {}]
        /\ sheltered' = (sheltered /\ flagging = None)
        /\ UNCHANGED <<pairs, version, flagging, pairRows, decided>>
    BY DEF Catalogs!StartRefresh, Catalogs!Resting
  <1> QED  BY <1>1 DEF Decided, Shapes, Known, TableRules, Waits

LEMMA AnswersKeepDecisions ==
    ASSUME Decided, Catalogs!LoadsArrive
    PROVE  Decided'
  <1>1. /\ refresh.at = "loading"
        /\ UNCHANGED <<pairs, version, flagging, pairRows, decided, sheltered>>
    BY DEF Catalogs!LoadsArrive
  <1>2. \/ refresh' = [at |-> "idle", names |-> {}, assessed |-> {}, stored |-> {}]
        \/ \E a : refresh' = [refresh EXCEPT !.at = "assessed", !.assessed = a]
    BY Zenon DEF Catalogs!LoadsArrive, Catalogs!Resting
  <1>3. refresh'.at \in {"idle", "assessed"} /\ refresh'.stored = {}
        /\ refresh' = [at |-> refresh'.at, names |-> refresh'.names, assessed |-> refresh'.assessed, stored |-> refresh'.stored]
    <2>1. CASE refresh' = [at |-> "idle", names |-> {}, assessed |-> {}, stored |-> {}]
      BY <2>1
    <2>2. ASSUME NEW a, refresh' = [refresh EXCEPT !.at = "assessed", !.assessed = a]
          PROVE  refresh' = [at |-> "assessed", names |-> refresh.names, assessed |-> a, stored |-> {}]
      BY <1>1, <2>2 DEF Decided, Shapes
    <2>3. ASSUME NEW a, refresh' = [refresh EXCEPT !.at = "assessed", !.assessed = a]
          PROVE  refresh'.at \in {"idle", "assessed"} /\ refresh'.stored = {}
                 /\ refresh' = [at |-> refresh'.at, names |-> refresh'.names, assessed |-> refresh'.assessed, stored |-> refresh'.stored]
      BY <2>2, <2>3
    <2> QED  BY <1>2, <2>1, <2>3
  <1>4. flagging # None => ~sheltered
    BY <1>1 DEF Decided, TableRules
  <1> QED  BY <1>1, <1>3, <1>4 DEF Decided, Shapes, Known, TableRules, Waits

(* The upsert leaves the rows of known pairs alone. *)
LEMMA SavingKeepsDecisions ==
    ASSUME Decided, Catalogs!SaveCatalog
    PROVE  Decided'
  <1>1. refresh.at = "assessed" /\ refresh.stored = {}
        /\ UNCHANGED <<pairs, version, flagging, decided, sheltered>>
    BY DEF Catalogs!SaveCatalog, Decided, Shapes
  <1>2. flagging # None => ~sheltered
    BY <1>1 DEF Decided, TableRules
  <1>3. CASE refresh' = [refresh EXCEPT !.at = "saved"] /\ UNCHANGED pairRows
    <2>1. refresh' = [at |-> "saved", names |-> refresh.names, assessed |-> refresh.assessed, stored |-> {}]
      BY <1>1, <1>3 DEF Decided, Shapes
    <2> QED  BY <1>1, <1>2, <1>3, <2>1 DEF Decided, Shapes, Known, TableRules, Waits
  <1>4. ASSUME NEW keys, pairRows' = Catalogs!Upsert(keys),
               refresh' = [refresh EXCEPT !.at = "saved",
                              !.stored = {[key |-> k, flags |-> Catalogs!Upsert(keys)[k]] : k \in keys}]
        PROVE  Decided'
    <2>1. refresh' = [at |-> "saved", names |-> refresh.names, assessed |-> refresh.assessed,
                      stored |-> {[key |-> k, flags |-> pairRows'[k]] : k \in keys}]
      BY <1>1, <1>4 DEF Decided, Shapes
    <2>2. DOMAIN pairRows' = DOMAIN pairRows \cup keys /\ \A k \in DOMAIN pairRows : pairRows'[k] = pairRows[k]
      BY <1>4 DEF Catalogs!Upsert
    <2>3. Shapes'
      BY <1>1, <2>1 DEF Decided, Shapes
    <2>4. \A r \in refresh'.stored : r.key \in keys /\ r.flags = pairRows'[r.key]
      BY <2>1
    <2>5. Known'
      BY <1>1, <2>2, <2>4 DEF Decided, Known
    <2>6. TableRules'
      BY <1>1, <1>2, <2>2, <2>4 DEF Decided, Known, TableRules, Waits
    <2> QED  BY <2>3, <2>5, <2>6 DEF Decided
  <1> QED  BY <1>3, <1>4, Zenon DEF Catalogs!SaveCatalog

(* A new record takes the flags the table returned, else those it had. *)
LEMMA SwapKeepsDecisions ==
    ASSUME Decided, Catalogs!SwapRecords
    PROVE  Decided'
  <1> DEFINE s(k) == {r \in refresh.stored : r.key = k}
             flagsOf(k) == IF s(k) # {} THEN (CHOOSE r \in s(k) : TRUE).flags
                           ELSE IF k \in DOMAIN pairs THEN pairs[k].flags ELSE Catalogs!NoFlags
             hasId(k) == (\E r \in refresh.stored : r.key = k) \/ (k \in DOMAIN pairs /\ pairs[k].hasId)
             reason(k) == (CHOOSE a \in refresh.assessed : a.key = k).reason
  <1>1. /\ refresh.at = "saved"
        /\ pairs' = [k \in KeysOf(refresh.assessed) |-> [reason |-> reason(k), hasId |-> hasId(k), flags |-> flagsOf(k)]]
        /\ version' = version + 1
        /\ refresh' = [at |-> "idle", names |-> {}, assessed |-> {}, stored |-> {}]
        /\ UNCHANGED <<flagging, pairRows, decided, sheltered>>
    BY Zenon DEF Catalogs!SwapRecords, Catalogs!Resting, KeysOf
  <1>2. \A k : s(k) # {} => (CHOOSE r \in s(k) : TRUE) \in refresh.stored /\ (CHOOSE r \in s(k) : TRUE).key = k
    OBVIOUS
  <1>3. ASSUME NEW k, hasId(k)
        PROVE  k \in DOMAIN pairRows /\ (sheltered => flagsOf(k) = pairRows[k])
    <2>1. flagging # None => ~sheltered
      BY <1>1 DEF Decided, TableRules
    <2>2. CASE s(k) # {}
      <3>1. PICK r \in refresh.stored : r.key = k /\ flagsOf(k) = r.flags
        BY <1>2, <2>2
      <3> QED  BY <3>1 DEF Decided, Known, TableRules
    <2>3. CASE s(k) = {}
      <3>1. k \in DOMAIN pairs /\ pairs[k].hasId /\ flagsOf(k) = pairs[k].flags
        BY <1>3, <2>3
      <3> QED  BY <2>1, <3>1 DEF Decided, Known, TableRules, Waits
    <2> QED  BY <2>2, <2>3
  <1> HIDE DEF s, flagsOf, hasId, reason
  <1>4. DOMAIN pairs' = KeysOf(refresh.assessed)
        /\ \A k \in DOMAIN pairs' : pairs'[k] = [reason |-> reason(k), hasId |-> hasId(k), flags |-> flagsOf(k)]
    BY <1>1
  <1>5. Shapes'
    BY <1>1, <1>4 DEF Decided, Shapes
  <1>6. Known'
    BY <1>1, <1>3, <1>4 DEF Known
  <1>7. flagging # None => ~sheltered
    BY <1>1 DEF Decided, TableRules
  <1>8. TableRules'
    BY <1>1, <1>3, <1>4, <1>7 DEF Decided, TableRules, Waits
  <1> QED  BY <1>5, <1>6, <1>8 DEF Decided

LEMMA WritingKeepsDecisions ==
    ASSUME CatalogNone, Decided, NEW k \in DOMAIN pairs, NEW flag, NEW value, Catalogs!WriteFlags(k, flag, value)
    PROVE  Decided'
  <1> DEFINE flags == Catalogs!With(pairRows[k], flag, value)
  <1>1. /\ flagging = None /\ k \in DOMAIN pairRows
        /\ pairRows' = [pairRows EXCEPT ![k] = flags]
        /\ flagging' = [key |-> k, version |-> version, flags |-> pairRows'[k]]
        /\ sheltered' = (sheltered /\ refresh.at = "idle")
        /\ UNCHANGED <<pairs, version, refresh, decided>>
    BY DEF Catalogs!WriteFlags, Decided, Known
  <1>2. DOMAIN pairRows' = DOMAIN pairRows /\ \A j \in DOMAIN pairRows \ {k} : pairRows'[j] = pairRows[j]
    BY <1>1
  <1>3. flagging' # None /\ flagging'.key = k /\ flagging'.version = version /\ flagging'.flags = pairRows'[k]
    BY <1>1 DEF CatalogNone
  <1> HIDE DEF flags
  <1>4. Shapes' /\ Known'
    BY <1>1, <1>2 DEF Decided, Shapes, Known
  <1>5. TableRules'
    <2>1. ASSUME sheltered' PROVE sheltered /\ refresh.stored = {} /\ refresh.at = "idle"
      BY <1>1, <2>1 DEF Decided, Shapes
    <2>2. \A j : Waits(j)' <=> j = k
      BY <1>3 DEF Waits
    <2>3. \A j : ~Waits(j)
      BY <1>1 DEF Waits
    <2> QED  BY <1>1, <1>2, <1>3, <2>1, <2>2, <2>3 DEF Decided, Known, TableRules
  <1> QED  BY <1>4, <1>5 DEF Decided

LEMMA AnswerKeepsDecisions ==
    ASSUME Decided, Catalogs!FlagsWritten
    PROVE  Decided'
  <1>1. /\ flagging # None /\ flagging' = None
        /\ pairs' = IF flagging.version = version THEN [pairs EXCEPT ![flagging.key].flags = flagging.flags] ELSE pairs
        /\ DOMAIN decided' = DOMAIN decided \cup {flagging.key}
        /\ decided'[flagging.key] = flagging.flags
        /\ \A k \in DOMAIN decided : k # flagging.key => decided'[k] = decided[k]
        /\ UNCHANGED <<version, refresh, pairRows, sheltered>>
    BY DEF Catalogs!FlagsWritten, Catalogs!Remember
  <1>2. DOMAIN pairs' = DOMAIN pairs
        /\ \A k \in DOMAIN pairs :
              /\ pairs'[k].hasId = pairs[k].hasId
              /\ k # flagging.key \/ flagging.version # version => pairs'[k].flags = pairs[k].flags
              /\ k = flagging.key /\ flagging.version = version => pairs'[k].flags = flagging.flags
              /\ pairs'[k] = [reason |-> pairs'[k].reason, hasId |-> pairs'[k].hasId, flags |-> pairs'[k].flags]
    BY <1>1 DEF Decided, Shapes
  <1>3. Shapes' /\ Known'
    BY <1>1, <1>2 DEF Decided, Shapes, Known
  <1>4. TableRules'
    BY <1>1, <1>2 DEF Decided, Known, TableRules, Waits
  <1> QED  BY <1>3, <1>4 DEF Decided

LEMMA MemoryKeepsDecisions ==
    ASSUME Decided, NEW k \in DOMAIN pairs, NEW flag, NEW value, Catalogs!SetInMemory(k, flag, value)
    PROVE  Decided'
  <1>1. /\ pairs' = [pairs EXCEPT ![k].flags = Catalogs!With(@, flag, value)]
        /\ sheltered' = FALSE
        /\ UNCHANGED <<version, refresh, pairRows, flagging>>
    BY DEF Catalogs!SetInMemory
  <1>2. DOMAIN pairs' = DOMAIN pairs
        /\ \A j \in DOMAIN pairs :
              /\ pairs'[j].hasId = pairs[j].hasId
              /\ pairs'[j] = [reason |-> pairs'[j].reason, hasId |-> pairs'[j].hasId, flags |-> pairs'[j].flags]
    BY <1>1 DEF Decided, Shapes
  <1> QED  BY <1>1, <1>2 DEF Decided, Shapes, Known, TableRules

LEMMA RestartKeepsDecisions ==
    ASSUME Decided, Catalogs!Restart
    PROVE  Decided'
  <1>1. /\ flagging = None /\ pairs' = << >> /\ version' = 0
        /\ refresh' = [at |-> "idle", names |-> {}, assessed |-> {}, stored |-> {}]
        /\ decided' = IF sheltered THEN decided ELSE << >>
        /\ UNCHANGED <<flagging, pairRows, sheltered>>
    BY DEF Catalogs!Restart, Catalogs!Resting
  <1>2. DOMAIN pairs' = {}
    BY <1>1
  <1> QED  BY <1>1, <1>2 DEF Decided, Shapes, Known, TableRules, Waits

LEMMA CatalogKeepsDecisions ==
    ASSUME CatalogNone, Decided, Catalogs!Next \/ UNCHANGED catalogVars
    PROVE  Decided'
  <1>1. CASE UNCHANGED <<pairs, version, refresh, flagging, pairRows, decided, sheltered>>
    BY <1>1 DEF Decided, Shapes, Known, TableRules, Waits
  <1>2. ASSUME NEW k \in DOMAIN pairs, NEW flag, NEW value,
               Catalogs!WriteFlags(k, flag, value) \/ Catalogs!SetInMemory(k, flag, value)
        PROVE  Decided'
    BY <1>2, WritingKeepsDecisions, MemoryKeepsDecisions
  <1> QED  BY <1>1, <1>2, RefreshStarts, AnswersKeepDecisions, SavingKeepsDecisions, SwapKeepsDecisions,
              AnswerKeepsDecisions, RestartKeepsDecisions
           DEF Catalogs!Next, Catalogs!DatabaseChanges, catalogVars

LEMMA CatalogSteps ==
    [NextAll]_allVars => Catalogs!Next \/ UNCHANGED catalogVars
  BY DEF NextAll, CatalogStep, PortfolioStep, GapStep, QueueStep, LinkStep, allVars

LEMMA DecidedAtFirst == InitAll => Decided
  BY DEF InitAll, Catalogs!Init, Catalogs!Resting, Decided, Shapes, Known, TableRules

(* "Losing manual decisions on refresh" (storage/catalog.py:5): decisions that  *)
(* reached the table while no refresh was on its way are in force through       *)
(* failing exchanges, delistings, outages of the database and restarts.         *)
THEOREM DecisionsStand ==
    ASSUME CatalogNone
    PROVE  SpecAll => []StoredDecisionsStand
  <1>1. InitAll => Decided
    BY DecidedAtFirst
  <1>2. Decided /\ [NextAll]_allVars => Decided'
    BY CatalogSteps, CatalogKeepsDecisions
  <1>3. Decided => StoredDecisionsStand
    BY DEF Decided, TableRules, Waits, StoredDecisionsStand, Catalogs!StoredDecisionsStand
  <1> QED  BY <1>1, <1>2, <1>3, PTL DEF SpecAll

(* The exchanges that ever answered. *)
Answered == {x \in Catalogs!Enabled : lastGood[x] # None}

(* What is assessed is the last good answers, of two exchanges at least once    *)
(* there are pairs; the pairs are those of these answers, unless the refresh    *)
(* under way learned something new.                                             *)
UpToDate ==
    /\ version \in Nat
    /\ lastGood = [x \in Catalogs!Enabled |-> lastGood[x]]
    /\ refresh.at \in {"idle", "loading", "assessed", "saved"}
    /\ refresh.at \in {"assessed", "saved"} => refresh.assessed = Catalogs!Assess(lastGood)
    /\ (version > 0 \/ refresh.at \in {"assessed", "saved"}) => ~(Cardinality(Answered) < 2)
    /\ version > 0 /\ (refresh.at \in {"idle", "loading"} \/ ~moved) =>
          DOMAIN pairs = KeysOf(Catalogs!Assess(lastGood))

LEMMA AnswersKeepUpToDate ==
    ASSUME CatalogNone, Decided, UpToDate, Catalogs!LoadsArrive
    PROVE  UpToDate'
  <1>1. PICK answered \in SUBSET refresh.names :
           \E answers \in [answered -> UNION {Catalogs!AnswersOf(x) : x \in Catalogs!Enabled}] :
              LET good == [x \in Catalogs!Enabled |-> IF x \in answered THEN answers[x] ELSE lastGood[x]]
                  nothingNew == refresh.names # Catalogs!Enabled /\ answered = {}
                  few == Cardinality({x \in Catalogs!Enabled : good[x] # None}) < 2
              IN  /\ \A x \in answered : answers[x] \in Catalogs!AnswersOf(x)
                  /\ lastGood' = good
                  /\ moved' = (good # lastGood)
                  /\ refresh' = IF nothingNew \/ few THEN Catalogs!Resting
                                ELSE [refresh EXCEPT !.at = "assessed", !.assessed = Catalogs!Assess(good)]
    BY Zenon DEF Catalogs!LoadsArrive, Catalogs!StandIn, Catalogs!Cardinality, Cardinality
  <1>2. PICK answers \in [answered -> UNION {Catalogs!AnswersOf(x) : x \in Catalogs!Enabled}] :
              LET good == [x \in Catalogs!Enabled |-> IF x \in answered THEN answers[x] ELSE lastGood[x]]
                  nothingNew == refresh.names # Catalogs!Enabled /\ answered = {}
                  few == Cardinality({x \in Catalogs!Enabled : good[x] # None}) < 2
              IN  /\ \A x \in answered : answers[x] \in Catalogs!AnswersOf(x)
                  /\ lastGood' = good
                  /\ moved' = (good # lastGood)
                  /\ refresh' = IF nothingNew \/ few THEN Catalogs!Resting
                                ELSE [refresh EXCEPT !.at = "assessed", !.assessed = Catalogs!Assess(good)]
    BY <1>1, Zenon
  <1>3. /\ \A x \in answered : answers[x] \in Catalogs!AnswersOf(x)
        /\ lastGood' = [x \in Catalogs!Enabled |-> IF x \in answered THEN answers[x] ELSE lastGood[x]]
        /\ moved' = (lastGood' # lastGood)
        /\ refresh' = IF (refresh.names # Catalogs!Enabled /\ answered = {}) \/ Cardinality(Answered') < 2
                      THEN Catalogs!Resting
                      ELSE [refresh EXCEPT !.at = "assessed", !.assessed = Catalogs!Assess(lastGood')]
    BY <1>2, Zenon DEF Answered
  <1>4. refresh.at = "loading" /\ UNCHANGED <<pairs, version>>
    BY DEF Catalogs!LoadsArrive
  <1>5. ~(Cardinality(Answered) < 2) => ~(Cardinality(Answered') < 2)
    <2>1. Answered \subseteq Answered'
      BY <1>3 DEF Answered, CatalogNone
    <2>2. IsFiniteSet(Answered')
      BY FS_Subset DEF Answered, CatalogNone
    <2>3. Cardinality(Answered) <= Cardinality(Answered') /\ Cardinality(Answered) \in Nat /\ Cardinality(Answered') \in Nat
      BY <2>1, <2>2, FS_Subset, FS_CardinalityType
    <2> QED  BY <2>3
  <1>6. lastGood' = [x \in Catalogs!Enabled |-> lastGood'[x]]
    BY <1>3
  <1>7. CASE (refresh.names # Catalogs!Enabled /\ answered = {}) \/ Cardinality(Answered') < 2
    <2>1. refresh'.at = "idle"
      BY <1>3, <1>7 DEF Catalogs!Resting
    <2>2. ASSUME version > 0 PROVE lastGood' = lastGood
      <3>1. ~(Cardinality(Answered) < 2)
        BY <2>2 DEF UpToDate
      <3>2. answered = {}
        BY <1>5, <1>7, <3>1
      <3> QED  BY <1>3, <3>2 DEF UpToDate
    <2>3. ASSUME version > 0 PROVE DOMAIN pairs = KeysOf(Catalogs!Assess(lastGood'))
      BY <1>4, <2>2, <2>3, Zenon DEF UpToDate
    <2> QED  BY <1>4, <1>5, <1>6, <2>1, <2>3 DEF UpToDate
  <1>8. CASE ~((refresh.names # Catalogs!Enabled /\ answered = {}) \/ Cardinality(Answered') < 2)
    <2>1. refresh' = [refresh EXCEPT !.at = "assessed", !.assessed = Catalogs!Assess(lastGood')]
      BY <1>3, <1>8, Zenon
    <2>2. refresh'.at = "assessed" /\ refresh'.assessed = Catalogs!Assess(lastGood')
      BY <2>1 DEF Decided, Shapes
    <2>3. ASSUME version > 0, ~moved' PROVE DOMAIN pairs = KeysOf(Catalogs!Assess(lastGood'))
      BY <1>3, <1>4, <2>3, Zenon DEF UpToDate
    <2> QED  BY <1>4, <1>6, <1>8, <2>2, <2>3 DEF UpToDate
  <1> QED  BY <1>7, <1>8

LEMMA CatalogKeepsUpToDate ==
    ASSUME CatalogNone, Decided, UpToDate, Catalogs!Next \/ UNCHANGED catalogVars
    PROVE  UpToDate'
  <1>1. CASE UNCHANGED <<lastGood, version, refresh, moved>> /\ DOMAIN pairs' = DOMAIN pairs
    BY <1>1 DEF UpToDate, Answered
  <1>2. ASSUME NEW names, Catalogs!StartRefresh(names) PROVE UpToDate'
    <2>1. refresh'.at = "loading" /\ refresh.at = "idle" /\ UNCHANGED <<lastGood, version, pairs, moved>>
      BY <1>2 DEF Catalogs!StartRefresh, Catalogs!Resting
    <2> QED  BY <2>1 DEF UpToDate, Answered
  <1>3. CASE Catalogs!SaveCatalog
    <2>1. refresh.at = "assessed" /\ UNCHANGED <<lastGood, version, pairs, moved>>
      BY <1>3 DEF Catalogs!SaveCatalog
    <2>2. refresh'.at = "saved" /\ refresh'.assessed = refresh.assessed
      BY <1>3 DEF Catalogs!SaveCatalog, Decided, Shapes
    <2> QED  BY <2>1, <2>2 DEF UpToDate, Answered
  <1>4. CASE Catalogs!SwapRecords
    <2>1. /\ refresh.at = "saved" /\ refresh'.at = "idle" /\ version' = version + 1 /\ UNCHANGED <<lastGood, moved>>
      BY <1>4, Zenon DEF Catalogs!SwapRecords, Catalogs!Resting
    <2>2. DOMAIN pairs' = KeysOf(refresh.assessed)
      BY <1>4 DEF Catalogs!SwapRecords, KeysOf
    <2> QED  BY <2>1, <2>2 DEF UpToDate, Answered
  <1>5. CASE Catalogs!Restart
    <2>1. /\ version' = 0 /\ refresh'.at = "idle" /\ lastGood' = [x \in Catalogs!Enabled |-> None]
      BY <1>5 DEF Catalogs!Restart, Catalogs!Resting
    <2> QED  BY <2>1 DEF UpToDate
  <1>6. ASSUME NEW k \in DOMAIN pairs, NEW flag, NEW value,
               Catalogs!WriteFlags(k, flag, value) \/ Catalogs!SetInMemory(k, flag, value)
        PROVE  UpToDate'
    BY <1>1, <1>6 DEF Catalogs!WriteFlags, Catalogs!SetInMemory
  <1>7. CASE Catalogs!FlagsWritten
    BY <1>1, <1>7 DEF Catalogs!FlagsWritten
  <1> QED  BY <1>1, <1>2, <1>3, <1>4, <1>5, <1>6, <1>7, AnswersKeepUpToDate
           DEF Catalogs!Next, Catalogs!DatabaseChanges, catalogVars

(* "Pairs vanishing because one exchange failed to answer" (instruments/        *)
(* service.py:5): the pairs change only after an answer that said something     *)
(* new, whichever exchanges fail and however often.                             *)
THEOREM PairsOutlive ==
    ASSUME CatalogNone
    PROVE  SpecAll => PairsOutliveFailures
  <1>1. InitAll => Decided /\ UpToDate
    BY DecidedAtFirst DEF InitAll, Catalogs!Init, Catalogs!Resting, UpToDate
  <1>2. Decided /\ UpToDate /\ [NextAll]_allVars => (Decided /\ UpToDate)'
    BY CatalogSteps, CatalogKeepsDecisions, CatalogKeepsUpToDate
  <1>3. ASSUME Decided, UpToDate, Catalogs!Next \/ UNCHANGED catalogVars, version' > version, ~moved, version > 0
        PROVE  DOMAIN pairs \subseteq DOMAIN pairs'
    <2>1. CASE version' = version \/ version' = 0
      BY <1>3, <2>1 DEF UpToDate
    <2>2. Catalogs!SwapRecords \/ version' = version \/ version' = 0
      BY <1>3 DEF Catalogs!Next, Catalogs!DatabaseChanges, catalogVars, Catalogs!WriteFlags, Catalogs!SetInMemory,
                  Catalogs!FlagsWritten, Catalogs!StartRefresh, Catalogs!LoadsArrive, Catalogs!SaveCatalog, Catalogs!Restart
    <2>3. CASE Catalogs!SwapRecords
      <3>1. DOMAIN pairs' = KeysOf(refresh.assessed) /\ refresh.at = "saved"
        BY <2>3 DEF Catalogs!SwapRecords, KeysOf
      <3> QED  BY <1>3, <3>1 DEF UpToDate
    <2> QED  BY <2>1, <2>2, <2>3
  <1>4. Decided /\ UpToDate /\ [NextAll]_allVars =>
            [version' > version /\ ~moved /\ version > 0 => DOMAIN pairs \subseteq DOMAIN pairs']_(Catalogs!vars)
    BY <1>3, CatalogSteps
  <1> QED  BY <1>1, <1>2, <1>4, PTL DEF SpecAll, PairsOutliveFailures, Catalogs!PairsOutliveFailures
===============================================================================
