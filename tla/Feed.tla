--------------------------------- MODULE Feed ---------------------------------
(***************************************************************************)
(* The price-gap engine and its recorder: which pairs get order books,     *)
(* the gap episodes measured on them, and the row of history each shown    *)
(* gap leaves (app/strategies/price_gap/engine.py and recorder.py).        *)
(*                                                                         *)
(* A tick has no await and is one step.  The clock is left out: every      *)
(* sample has time 0, so with EnterAfter = ExitAfter = 0 waits are over at *)
(* once, and whether it is time to choose books, and which books are still *)
(* in their minimum hold, is left open.  GapHistory has the timing.        *)
(***************************************************************************)
EXTENDS Episodes, FiniteSetsExt, SequencesExt

CONSTANTS
    Pairs,
    Directions,      \* which exchange of a pair is the long leg
    Readings, Exits, \* ROI and exit spread of a usable measurement
    BookLimit,       \* settings.book_limit
    TrackingLimit,   \* settings.tracking_limit
    Records,         \* what the catalog may say of a pair, "absent" included
    MaxPinned        \* bound: pairs with an open trade

ASSUME LimitsAssumption ==
    /\ {BookLimit, TrackingLimit, MaxPinned} \subseteq Nat
    /\ Records \subseteq {"absent", "tradable", "doubtful"}

Keys == Pairs \X Directions    \* episode_key: pair key and long exchange

VARIABLES
    stage,     \* "running", "stopped" by engine.close, or "crashed"
    catalog,   \* the record of every pair: its flags change on the record itself
    pinned,    \* portfolio.pinned_pair_keys
    books,     \* engine._books
    episodes,  \* engine._episodes
    open,      \* recorder._open: the gap whose row is being kept
    live,      \* rows of opportunity_episodes without ended_at
    gap        \* number of the key's gap: one that no unfinished row carries

memory == <<books, episodes, open>>
vars == <<stage, catalog, pinned, memory, live, gap>>

Listed == {p \in Pairs : catalog[p] # "absent"}

(* suspicious or blacklisted: not PairRecord.tradable *)
Doubtful(p) == catalog[p] # "tradable"

KeysIn(phase) == {k \in Keys : episodes[k] # None /\ episodes[k].phase = phase}

InPhase(phase) == {k[1] : k \in KeysIn(phase)}

Fresh(chosen, gaps, rows) ==
    chosen = {} /\ gaps = [k \in Keys |-> None] /\ rows = [k \in Keys |-> None]

Init ==
    /\ stage = "running"
    /\ catalog \in [Pairs -> Records]
    /\ pinned = {}
    /\ Fresh(books, episodes, open)
    /\ live = [k \in Keys |-> {}]
    /\ gap = [k \in Keys |-> 0]

-----------------------------------------------------------------------------
(* Choosing books *)

(* choose_books: every group is taken in full before the next gets a slot. *)
TakenInOrder(chosen, groups) ==
    /\ Cardinality(chosen) <= BookLimit
    /\ chosen \subseteq UNION Range(groups)
    /\ \A i \in DOMAIN groups :
          groups[i] \subseteq chosen \/
            /\ Cardinality(chosen) = BookLimit
            /\ chosen \subseteq UNION {groups[j] : j \in 1 .. i}

(* The followed gaps with the best peaks: any of them, peaks are left out. *)
Tracked ==
    LET all == KeysIn("tracking") IN
    {{k[1] : k \in best} : best \in kSubset(Min({TrackingLimit, Cardinality(all)}), all)}

(* Mutant: gaps still earning their wait go before gaps in the feed. *)
CandidatesFirst(tracking, rest) ==
    <<pinned \cap Listed, InPhase("candidate"), InPhase("in_feed"), tracking, rest>>

Priorities(tracking, rest) ==
    <<pinned \cap Listed, InPhase("in_feed"), InPhase("candidate"), tracking, rest>>

(* _choose, once a second and only when something is ranked or a pair is
   open.  The rest are books in their minimum hold and pairs ranked by best
   price, which any listed pair may or may not be among. *)
Chosen ==
    {chosen \in SUBSET Pairs :
        \E tracking \in Tracked, rest \in SUBSET (books \cup Listed) :
            /\ rest \cap Listed # {} \/ pinned # {}
            /\ TakenInOrder(chosen, Priorities(tracking, rest))}

-----------------------------------------------------------------------------
(* Measuring and advancing *)

NoMeasure == [dir |-> None, roi |-> None, exit |-> None]

(* Books too thin to fill the volume leave no reading, like no measurement. *)
Measures == {NoMeasure} \cup [dir : Directions, roi : Readings, exit : Exits \cup {None}]

(* The measured direction gets the sample, the other sees no gap. *)
SampleOf(k, measure) ==
    [ts |-> 0,
     roi |-> IF measure.dir = k[2] THEN measure.roi ELSE None,
     exit |-> IF measure.dir = k[2] THEN measure.exit ELSE None]

Evicted(e) == IF e = None THEN Result(None, "none") ELSE Result(None, "evicted")

Kept(r) == IF r.event = "ended" THEN [r EXCEPT !.episode = None] ELSE r

(* What the tick makes of each episode: measured, left alone without a
   record, or without a book and finished. *)
Outcome(k, chosen, measures) ==
    IF k[1] \notin chosen THEN Evicted(episodes[k])
    ELSE IF k[1] \notin Listed THEN Result(episodes[k], "none")
    ELSE Kept(Step(episodes[k], SampleOf(k, measures[k[1]])))

(* recorder.entered keeps the row it has and opens none for a doubtful pair;
   recorder.ended hears of a finished gap only while its record exists. *)
Begins(k, event) == event = "entered_feed" /\ open[k] = None /\ ~Doubtful(k[1])

(* Mutant: the recorder is not told of evicted gaps. *)
EndsUnlessEvicted(k, event) ==
    open[k] # None /\ event \in {"ended", "app_stop"} /\ k[1] \in Listed

(* Mutant: the recorder is not told of gaps ended by the shutdown. *)
EndsUnlessStopped(k, event) ==
    open[k] # None /\ event \in {"ended", "evicted"} /\ k[1] \in Listed

Ends(k, event) ==
    /\ open[k] # None
    /\ event \in {"ended", "evicted", "app_stop"}
    /\ k[1] \in Listed

FirstShown(k, event) ==
    event = "entered_feed" /\ (episodes[k] = None \/ episodes[k].entered = None)

Numbered(event) ==
    [k \in Keys |-> IF ~FirstShown(k, event[k]) THEN gap[k]
                    ELSE IF 0 \in live[k] THEN 1 ELSE 0]

OpenRows(event, number) ==
    [k \in Keys |-> IF Begins(k, event[k]) THEN number[k]
                    ELSE IF Ends(k, event[k]) THEN None ELSE open[k]]

LiveRows(event, number) ==
    [k \in Keys |-> IF Begins(k, event[k]) THEN live[k] \cup {number[k]}
                    ELSE IF Ends(k, event[k]) THEN live[k] \ {open[k]} ELSE live[k]]

(* tick: an empty catalog ends it before anything is chosen or ended. *)
TickWith(choices) ==
    /\ stage = "running"
    /\ Listed # {}
    /\ \E chosen \in choices :
       \E measures \in [chosen \cap Listed -> Measures] :
       \E outcome \in {[k \in Keys |-> Outcome(k, chosen, measures)]} :
       \E event \in {[k \in Keys |-> outcome[k].event]} :
         /\ books' = chosen
         /\ episodes' = [k \in Keys |-> outcome[k].episode]
         /\ gap' = Numbered(event)
         /\ open' = OpenRows(event, gap')
         /\ live' = LiveRows(event, gap')
    /\ UNCHANGED <<stage, catalog, pinned>>

Tick == TickWith({books} \cup Chosen)

-----------------------------------------------------------------------------
(* The rest of the terminal *)

(* A refresh of the catalog, or set_flags on one record. *)
CatalogChanges ==
    /\ stage = "running"
    /\ \E p \in Pairs, r \in Records : catalog' = [catalog EXCEPT ![p] = r]
    /\ UNCHANGED <<stage, pinned, memory, live, gap>>

(* A pair of the catalog is opened, or its trade ends. *)
TradesChange ==
    /\ stage = "running"
    /\ \/ \E p \in Listed \ pinned : Cardinality(pinned) < MaxPinned /\ pinned' = pinned \cup {p}
       \/ \E p \in pinned : pinned' = pinned \ {p}
    /\ UNCHANGED <<stage, catalog, memory, live, gap>>

Gone == /\ Fresh(books', episodes', open')
        /\ gap' = [k \in Keys |-> 0]

(* engine.close: every gap is finished with app_stop before the process ends. *)
Close ==
    /\ stage = "running"
    /\ stage' = "stopped"
    /\ live' = LiveRows([k \in Keys |-> IF episodes[k] = None THEN "none" ELSE "app_stop"], gap)
    /\ Gone
    /\ UNCHANGED <<catalog, pinned>>

Crash ==
    /\ stage = "running"
    /\ stage' = "crashed"
    /\ Gone
    /\ UNCHANGED <<catalog, pinned, live>>

(* The next start closes the rows left open (history.close_dangling_episodes);
   until the first refresh its ticks find no catalog and do nothing. *)
Restart ==
    /\ stage # "running"
    /\ stage' = "running"
    /\ catalog' \in [Pairs -> Records]
    /\ live' = [k \in Keys |-> {}]
    /\ UNCHANGED <<pinned, memory, gap>>

Next == Tick \/ CatalogChanges \/ TradesChange \/ Close \/ Crash \/ Restart

Spec == Init /\ [][Next]_vars

(* engine.run ticks for ever and chooses books again and again. *)
FairSpec == Spec /\ WF_vars(TickWith(Chosen))

-----------------------------------------------------------------------------
(* Properties *)

(* recorder.py: one row per gap that reached the feed.  While the engine
   runs, an open row belongs to the gap its key has now, and no other row of
   that key is unfinished. *)
OneRowPerGap ==
    stage = "running" =>
        \A k \in Keys :
            /\ open[k] # None =>
                 /\ episodes[k] # None /\ episodes[k].phase \in Shown
                 /\ open[k] = gap[k]
            /\ live[k] = IF open[k] = None THEN {} ELSE {open[k]}

(* engine.close: after an orderly stop every row of history is complete. *)
StoppedRowsAreComplete == stage = "stopped" => \A k \in Keys : live[k] = {}

(* _choose: "open pairs come first: their exit spread and PnL depend on these
   books", and gaps in the feed next.  Whatever is chosen, one of them goes
   without books, and its gap ends as evicted, only when there are more of
   these than books. *)
FirstKeepBooks ==
    LET open_pairs == pinned \cap Listed
        first      == open_pairs \cup InPhase("in_feed")
    IN  \A chosen \in Chosen :
            /\ open_pairs \subseteq chosen \/ Cardinality(open_pairs) > BookLimit
            /\ first \subseteq chosen \/ Cardinality(first) > BookLimit

(* docs/PLAN.md:506, core/episodes.py:207: a delisted pair ends its gap,
   unless the pair comes back or the terminal goes down first. *)
DelistedGapEnds ==
    \A k \in Keys :
        episodes[k] # None /\ k[1] \notin Listed
            ~> episodes[k] = None \/ k[1] \in Listed
=============================================================================
