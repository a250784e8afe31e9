------------------------------ MODULE FeedProofs ------------------------------
(***************************************************************************)
(* The rows of history and the choice of books, for every number of pairs, *)
(* directions and books, every rule of the episodes and every measurement: *)
(* as long as the catalog keeps its pairs, each shown gap has one row.     *)
(***************************************************************************)
EXTENDS Feed, FiniteSetTheorems, TLAPS

-------------------------------------------------------------------------------
(* One call of step *)

Reading == Int \cup {None}

Samples == [ts : {0}, roi : Reading, exit : Reading]

(* A gap that is not over, and has a time of entry once it was in the feed. *)
Gap ==
    {e \in [phase : {"candidate"} \cup Shown, detected : Int, aboveSince : Reading, aboveSamples : Nat,
            belowSince : Reading, entered : Reading, roiAtEntry : Reading, peak : Reading,
            missed : Reading, reason : {None}] :
        e.phase \in Shown <=> e.entered # None}

(* What the recorder and the engine rely on: a shown gap stays shown until it
   ends, and only a gap that is in the feed entered it. *)
Lawful(e, r) ==
    /\ r = Result(r.episode, r.event)
    /\ r.event \in {"none", "entered_feed", "left_feed", "ended"}
    /\ r.event # "ended" => r.episode = None \/ r.episode \in Gap
    /\ r.event = "entered_feed" => r.episode \in Gap /\ r.episode.phase \in Shown
    /\ e # None /\ e.phase \in Shown /\ r.event # "ended" => r.episode \in Gap /\ r.episode.phase \in Shown

LEMMA Results ==
    ASSUME NEW e, NEW event
    PROVE  /\ Result(e, event).episode = e /\ Result(e, event).event = event
           /\ Result(e, event) = Result(Result(e, event).episode, Result(e, event).event)
  BY DEF Result

LEMMA Sinces ==
    ASSUME NEW since \in Reading, NEW s \in Samples
    PROVE  SinceOr(since, s) \in Int
  BY DEF SinceOr, Samples, Reading

LEMMA EnterFeedIsGap ==
    ASSUME NEW e \in Gap, NEW s \in Samples
    PROVE  EnterFeed(e, s) \in Gap /\ EnterFeed(e, s).phase = "in_feed"
  <1> DEFINE entered == IF e.entered = None THEN s.ts ELSE e.entered
             roi     == IF e.entered = None THEN s.roi ELSE e.roiAtEntry
  <1>1. EnterFeed(e, s) = [e EXCEPT !.phase = "in_feed", !.belowSince = None, !.entered = entered, !.roiAtEntry = roi]
    BY DEF EnterFeed, Gap
  <1>2. entered \in Int /\ roi \in Reading
    BY DEF Gap, Samples, Reading
  <1>3. entered # None
    BY <1>2, NoneAssumption
  <1> HIDE DEF entered, roi
  <1> QED  BY <1>1, <1>2, <1>3, ZenonT(40) DEF Gap, Shown, Reading

LEMMA PeakIsGap ==
    ASSUME NEW e \in Gap, NEW s \in Samples
    PROVE  TrackPeak(e, s) \in Gap /\ TrackPeak(e, s).phase = e.phase
  BY DEF TrackPeak, Gap, Samples, Reading

LEMMA MissedIsGap ==
    ASSUME NEW e \in Gap, NEW s \in Samples
    PROVE  TrackMissed(e, s) \in Gap /\ TrackMissed(e, s).phase = e.phase
  <1> DEFINE pnl == e.roiAtEntry - s.exit
  <1>1. CASE e.roiAtEntry = None \/ s.exit = None \/ (e.missed # None /\ pnl <= e.missed)
    BY <1>1 DEF TrackMissed
  <1>2. CASE ~(e.roiAtEntry = None \/ s.exit = None \/ (e.missed # None /\ pnl <= e.missed))
    <2>1. pnl \in Reading
      BY <1>2 DEF Gap, Samples, Reading
    <2>2. TrackMissed(e, s) = [e EXCEPT !.missed = pnl]
      BY <1>2 DEF TrackMissed
    <2> HIDE DEF pnl
    <2> QED  BY <2>1, <2>2 DEF Gap
  <1> QED  BY <1>1, <1>2

LEMMA CandidateIsLawful ==
    ASSUME NEW e \in Gap, NEW s \in Samples, e.phase = "candidate"
    PROVE  Lawful(e, CandidateStep(e, s))
  <1> DEFINE c == CountReading(e, s)
  <1>1. c \in Gap /\ c.phase = "candidate"
    <2> DEFINE n == IF Above(s, MinRoi) THEN e.aboveSamples + 1 ELSE e.aboveSamples
    <2>1. c = [e EXCEPT !.belowSince = None, !.aboveSamples = n]
      BY DEF CountReading, Gap
    <2>2. n \in Nat
      BY DEF Gap
    <2> HIDE DEF n
    <2> QED  BY <2>1, <2>2 DEF Gap, Reading, Shown
  <1>2. BelowAgain(e, s) \in Gap
    BY Sinces DEF BelowAgain, Gap, Reading
  <1> HIDE DEF c
  <1>3. TrackPeak(EnterFeed(c, s), s) \in Gap /\ TrackPeak(EnterFeed(c, s), s).phase = "in_feed"
    BY <1>1, EnterFeedIsGap, PeakIsGap
  <1>4. \/ CandidateStep(e, s) = Result(None, "none")
        \/ CandidateStep(e, s) = Result(BelowAgain(e, s), "none")
        \/ CandidateStep(e, s) = Result(TrackPeak(EnterFeed(c, s), s), "entered_feed")
        \/ CandidateStep(e, s) = Result(c, "none")
    BY Zenon DEF CandidateStep, c
  <1> QED  BY <1>1, <1>2, <1>3, <1>4, Results DEF Lawful, Shown

LEMMA InFeedIsLawful ==
    ASSUME NEW e \in Gap, NEW s \in Samples, e.phase = "in_feed"
    PROVE  Lawful(e, InFeedStep(e, s))
  <1>1. [e EXCEPT !.belowSince = None] \in Gap /\ [e EXCEPT !.belowSince = None].phase \in Shown
    BY DEF Gap, Reading, Shown
  <1>2. BelowAgain(e, s) \in Gap /\ BelowAgain(e, s).phase \in Shown
    BY Sinces DEF BelowAgain, Gap, Reading, Shown
  <1>3. LeaveFeed(e) \in Gap /\ LeaveFeed(e).phase \in Shown
    BY DEF LeaveFeed, Gap, Reading, Shown
  <1>4. \/ InFeedStep(e, s) = Result([e EXCEPT !.belowSince = None], "none")
        \/ InFeedStep(e, s) = Result(LeaveFeed(e), "left_feed")
        \/ InFeedStep(e, s) = Result(BelowAgain(e, s), "none")
    BY Zenon DEF InFeedStep
  <1>5. \A g \in Gap, event \in {"none", "left_feed"} : g.phase \in Shown => Lawful(e, Result(g, event))
    BY Results DEF Lawful
  <1> QED  BY <1>1, <1>2, <1>3, <1>4, <1>5

LEMMA EndIsLawful ==
    ASSUME NEW e \in Gap, NEW reason
    PROVE  End(e, reason).event = "ended" /\ End(e, reason) = Result(End(e, reason).episode, "ended")
  <1>1. End(e, reason) = Result([e EXCEPT !.phase = "ended", !.reason = reason], "ended")
    BY DEF End, Gap, Shown
  <1> QED  BY <1>1, Results

LEMMA TrackingIsLawful ==
    ASSUME NEW e \in Gap, NEW s \in Samples, e.phase = "tracking"
    PROVE  Lawful(e, TrackingStep(e, s))
  <1> DEFINE since   == SinceOr(e.aboveSince, s)
             samples == e.aboveSamples + 1
             reset   == [e EXCEPT !.aboveSince = None, !.aboveSamples = 0]
             counted == [e EXCEPT !.aboveSince = since, !.aboveSamples = samples]
  <1>1. since \in Int /\ samples \in Nat
    BY Sinces DEF Gap
  <1>2. reset \in Gap /\ reset.phase \in Shown
    BY DEF Gap, Reading, Shown
  <1>3. counted \in Gap /\ counted.phase \in Shown
    <2> HIDE DEF since, samples
    <2> QED  BY <1>1 DEF Gap, Reading, Shown
  <1>4. \/ TrackingStep(e, s) = End(e, "converged")
        \/ TrackingStep(e, s) = Result(reset, "none")
        \/ TrackingStep(e, s) = Result(EnterFeed(e, s), "entered_feed")
        \/ TrackingStep(e, s) = Result(counted, "none")
    BY Zenon DEF TrackingStep
  <1>5. EnterFeed(e, s) \in Gap /\ EnterFeed(e, s).phase \in Shown
    BY EnterFeedIsGap DEF Shown
  <1> HIDE DEF reset, counted
  <1> QED  BY <1>2, <1>3, <1>4, <1>5, Results, EndIsLawful DEF Lawful

LEMMA StepIsLawful ==
    ASSUME None \notin Gap, NEW e, e = None \/ e \in Gap, NEW s \in Samples
    PROVE  Lawful(e, Step(e, s))
  <1>1. CASE e = None
    <2>1. Detect(s) \in Gap /\ Detect(s).phase = "candidate"
      BY DEF Detect, Gap, Samples, Reading, Shown
    <2>2. Step(e, s) = CandidateStep(Detect(s), s) \/ Step(e, s) = Result(None, "none")
      BY <1>1, Zenon DEF Step
    <2>3. Lawful(Detect(s), CandidateStep(Detect(s), s))
      BY <2>1, CandidateIsLawful
    <2> QED  BY <1>1, <2>2, <2>3, Results DEF Lawful
  <1>2. CASE e \in Gap /\ e.phase = "candidate"
    BY <1>2, CandidateIsLawful DEF Step
  <1>3. CASE e \in Gap /\ e.phase \in Shown
    <2> DEFINE t == TrackMissed(TrackPeak(e, s), s)
    <2>1. t \in Gap /\ t.phase = e.phase
      BY <1>3, PeakIsGap, MissedIsGap
    <2>2. Step(e, s) = ShownStep(e, s)
      BY <1>3 DEF Step, Shown
    <2>3. \/ ShownStep(e, s) = End(e, "timeout")
          \/ ShownStep(e, s) = InFeedStep(t, s) /\ e.phase = "in_feed"
          \/ ShownStep(e, s) = TrackingStep(t, s) /\ e.phase # "in_feed"
      BY Zenon DEF ShownStep
    <2> HIDE DEF t
    <2>4. CASE ShownStep(e, s) = End(e, "timeout")
      BY <1>3, <2>2, <2>4, EndIsLawful DEF Lawful
    <2>5. CASE ShownStep(e, s) = InFeedStep(t, s) /\ e.phase = "in_feed"
      <3>1. Lawful(t, InFeedStep(t, s))
        BY <2>1, <2>5, InFeedIsLawful
      <3> QED  BY <2>1, <2>2, <2>5, <3>1 DEF Lawful
    <2>6. CASE ShownStep(e, s) = TrackingStep(t, s) /\ e.phase # "in_feed"
      <3>1. t.phase = "tracking"
        BY <1>3, <2>1, <2>6 DEF Shown
      <3>2. Lawful(t, TrackingStep(t, s))
        BY <2>1, <3>1, TrackingIsLawful
      <3> QED  BY <2>1, <2>2, <2>6, <3>2 DEF Lawful
    <2> QED  BY <2>3, <2>4, <2>5, <2>6
  <1>4. e \in Gap => e.phase = "candidate" \/ e.phase \in Shown
    BY DEF Gap
  <1> QED  BY <1>1, <1>2, <1>3, <1>4

-------------------------------------------------------------------------------
(* One row per gap *)

(* What a key's gap, its row kept by the recorder, its unfinished rows of
   history and its number say of each other while the engine runs. *)
Agree(e, row, rows, number) ==
    /\ e = None \/ e \in Gap
    /\ number \in {0, 1}
    /\ row # None => e # None /\ e.phase \in Shown /\ row = number
    /\ rows = IF row = None THEN {} ELSE {row}

(* When it does not, nothing is followed, and a stop has left no row unfinished. *)
RowsMatch ==
    /\ stage \in {"running", "stopped", "crashed"}
    /\ catalog \in [Pairs -> Records]
    /\ \A k \in Keys :
          /\ stage = "running" => Agree(episodes[k], open[k], live[k], gap[k])
          /\ stage # "running" => episodes[k] = None /\ open[k] = None /\ gap[k] = 0
          /\ stage = "stopped" => live[k] = {}

(* What is assumed of the constants: readings are numbers, None is neither a
   number nor a gap, and no pair leaves the catalog: a gap that is evicted
   after its pair left keeps its row open until the next start. *)
Stays ==
    /\ Readings \subseteq Reading /\ Exits \subseteq Reading
    /\ None \notin Gap
    /\ "absent" \notin Records

LEMMA AllListed ==
    ASSUME Stays, RowsMatch
    PROVE  Listed = Pairs
  BY DEF Stays, RowsMatch, Listed

(* What a tick makes of one gap. *)
LEMMA OutcomeIsLawful ==
    ASSUME Stays, RowsMatch, stage = "running", NEW k \in Keys, NEW chosen,
           NEW measures \in [chosen \cap Listed -> Measures]
    PROVE  LET o == Outcome(k, chosen, measures)
           IN  /\ o.event \in {"none", "entered_feed", "left_feed", "ended", "evicted"}
               /\ o.episode = None \/ o.episode \in Gap
               /\ o.event = "entered_feed" => o.episode \in Gap /\ o.episode.phase \in Shown
               /\ o.event \in {"ended", "evicted"} => o.episode = None
               /\ /\ episodes[k] # None /\ episodes[k].phase \in Shown
                  /\ o.event \notin {"ended", "evicted"}
                  => o.episode \in Gap /\ o.episode.phase \in Shown
  <1> DEFINE e == episodes[k]
             o == Outcome(k, chosen, measures)
  <1>1. e = None \/ e \in Gap
    BY DEF RowsMatch, Agree
  <1>2. k[1] \in Pairs /\ k[1] \in Listed
    BY AllListed DEF Keys
  <1>3. CASE k[1] \notin chosen
    <2>1. o = Evicted(e)
      BY <1>3 DEF Outcome
    <2>2. /\ o.episode = None
          /\ o.event = IF e = None THEN "none" ELSE "evicted"
      BY <2>1, Results DEF Evicted
    <2> HIDE DEF o, e
    <2> QED  BY <2>2 DEF o, e
  <1>4. CASE k[1] \in chosen
    <2> DEFINE s == SampleOf(k, measures[k[1]])
               r == Step(e, s)
    <2>1. o = Kept(r)
      BY <1>2, <1>4 DEF Outcome
    <2>2. measures[k[1]] \in Measures
      BY <1>2, <1>4
    <2>3. measures[k[1]].roi \in Reading /\ measures[k[1]].exit \in Reading
      <3>1. \A m \in [dir : Directions, roi : Readings, exit : Exits \cup {None}] :
              m.roi \in Reading /\ m.exit \in Reading
        BY DEF Stays, Reading
      <3>2. NoMeasure.roi \in Reading /\ NoMeasure.exit \in Reading
        BY DEF NoMeasure, Reading
      <3> QED  BY <2>2, <3>1, <3>2 DEF Measures
    <2>4. s \in Samples
      BY <2>3 DEF SampleOf, Samples, Reading
    <2> HIDE DEF s
    <2>5. Lawful(e, r)
      BY <1>1, <2>4, StepIsLawful DEF Stays
    <2> HIDE DEF r, o, e
    <2>6. r = [episode |-> r.episode, event |-> r.event]
      BY <2>5 DEF Lawful, Result
    <2>7. o.event = r.event /\ o.episode = IF r.event = "ended" THEN None ELSE r.episode
      BY <2>1, <2>6 DEF Kept
    <2>8. CASE r.event = "ended"
      BY <2>7, <2>8 DEF o, e
    <2>9. CASE r.event # "ended"
      BY <2>5, <2>7, <2>9 DEF Lawful, o, e
    <2> QED  BY <2>8, <2>9
  <1> QED  BY <1>3, <1>4

LEMMA TickMatches ==
    ASSUME Stays, RowsMatch, NEW choices, TickWith(choices)
    PROVE  RowsMatch'
  <1>1. PICK chosen \in choices :
          \E measures \in [chosen \cap Listed -> Measures] :
          \E outcome \in {[k \in Keys |-> Outcome(k, chosen, measures)]} :
          \E event \in {[k \in Keys |-> outcome[k].event]} :
            /\ books' = chosen
            /\ episodes' = [k \in Keys |-> outcome[k].episode]
            /\ gap' = Numbered(event)
            /\ open' = OpenRows(event, gap')
            /\ live' = LiveRows(event, gap')
    BY Zenon DEF TickWith
  <1>3. PICK measures \in [chosen \cap Listed -> Measures] :
          \E outcome \in {[k \in Keys |-> Outcome(k, chosen, measures)]} :
          \E event \in {[k \in Keys |-> outcome[k].event]} :
            /\ episodes' = [k \in Keys |-> outcome[k].episode]
            /\ gap' = Numbered(event)
            /\ open' = OpenRows(event, gap')
            /\ live' = LiveRows(event, gap')
    BY <1>1, Zenon
  <1> DEFINE outcome == [k \in Keys |-> Outcome(k, chosen, measures)]
             event   == [k \in Keys |-> outcome[k].event]
  <1>4. /\ episodes' = [k \in Keys |-> outcome[k].episode]
        /\ gap' = Numbered(event)
        /\ open' = OpenRows(event, gap')
        /\ live' = LiveRows(event, gap')
    BY <1>3, Zenon
  <1>2. stage = "running" /\ stage' = stage /\ catalog' = catalog
    BY DEF TickWith
  <1>5. ASSUME NEW k \in Keys PROVE Agree(episodes[k], open[k], live[k], gap[k])'
    <2> DEFINE e == episodes[k]
               o == Outcome(k, chosen, measures)
               ev == event[k]
    <2>1. /\ Agree(e, open[k], live[k], gap[k]) /\ k[1] \in Listed
      BY <1>2, AllListed DEF RowsMatch, Keys
    <2>2. episodes'[k] = o.episode /\ ev = o.event
      BY <1>4
    <2>3. /\ gap'[k] = IF ~FirstShown(k, ev) THEN gap[k] ELSE IF 0 \in live[k] THEN 1 ELSE 0
          /\ open'[k] = IF Begins(k, ev) THEN gap'[k] ELSE IF Ends(k, ev) THEN None ELSE open[k]
          /\ live'[k] = IF Begins(k, ev) THEN live[k] \cup {gap'[k]}
                        ELSE IF Ends(k, ev) THEN live[k] \ {open[k]} ELSE live[k]
      BY <1>4 DEF Numbered, OpenRows, LiveRows
    <2>4. /\ ev \in {"none", "entered_feed", "left_feed", "ended", "evicted"}
          /\ episodes'[k] = None \/ episodes'[k] \in Gap
          /\ ev = "entered_feed" => episodes'[k] \in Gap /\ episodes'[k].phase \in Shown
          /\ e # None /\ e.phase \in Shown /\ ev \notin {"ended", "evicted"}
                => episodes'[k] \in Gap /\ episodes'[k].phase \in Shown
      <3>1. measures \in [chosen \cap Listed -> Measures]
        OBVIOUS
      <3> HIDE DEF ev
      <3> QED  BY <1>2, <2>2, <3>1, OutcomeIsLawful, Zenon DEF o, e
    <2>5. gap'[k] \in {0, 1}
      BY <2>1, <2>3 DEF Agree
    <2> HIDE DEF e, o, ev
    <2>6. CASE open[k] # None
      <3>1. e \in Gap /\ e.phase \in Shown /\ e # None /\ open[k] = gap[k] /\ live[k] = {open[k]}
        BY <2>1, <2>6 DEF Agree
      <3>2. ~Begins(k, ev) /\ (Ends(k, ev) <=> ev \in {"ended", "evicted", "app_stop"})
        BY <2>1, <2>6 DEF Begins, Ends
      <3>3. e.entered # None
        BY <3>1 DEF Gap
      <3>4. ~FirstShown(k, ev)
        BY <3>1, <3>3 DEF FirstShown, e
      <3>5. CASE Ends(k, ev)
        BY <2>3, <2>4, <2>5, <3>1, <3>2, <3>5 DEF Agree
      <3>6. CASE ~Ends(k, ev)
        BY <2>3, <2>4, <2>5, <2>6, <3>1, <3>2, <3>4, <3>6 DEF Agree, Stays
      <3> QED  BY <3>5, <3>6
    <2>7. CASE open[k] = None
      <3>1. live[k] = {} /\ ~Ends(k, ev)
        BY <2>1, <2>7 DEF Agree, Ends
      <3>2. CASE Begins(k, ev)
        <4>1. ev = "entered_feed"
          BY <3>2 DEF Begins
        <4>2. open'[k] = gap'[k] /\ live'[k] = {gap'[k]} /\ gap'[k] # None
          BY <2>3, <2>5, <3>1, <3>2, NoneAssumption
        <4> QED  BY <2>4, <2>5, <4>1, <4>2 DEF Agree, Stays
      <3>3. CASE ~Begins(k, ev)
        BY <2>3, <2>4, <2>5, <2>7, <3>1, <3>3 DEF Agree
      <3> QED  BY <3>2, <3>3
    <2> QED  BY <2>6, <2>7
  <1> QED  BY <1>2, <1>5 DEF RowsMatch

LEMMA NextMatches ==
    ASSUME Stays, RowsMatch, [Next]_vars
    PROVE  RowsMatch'
  <1>1. CASE Tick
    BY <1>1, TickMatches DEF Tick
  <1>2. CASE CatalogChanges
    <2>1. /\ UNCHANGED <<stage, memory, live, gap>>
          /\ \E p \in Pairs, r \in Records : catalog' = [catalog EXCEPT ![p] = r]
      BY <1>2 DEF CatalogChanges
    <2>2. catalog' \in [Pairs -> Records]
      BY <2>1 DEF RowsMatch
    <2> QED  BY <2>1, <2>2 DEF RowsMatch, memory, Agree
  <1>3. CASE TradesChange
    BY <1>3 DEF TradesChange, RowsMatch, memory, Agree
  <1>4. ASSUME Gone, NEW k \in Keys PROVE episodes'[k] = None /\ open'[k] = None /\ gap'[k] = 0
    BY <1>4 DEF Gone, Fresh
  <1>5. CASE Close
    <2>1. /\ stage = "running" /\ stage' = "stopped" /\ Gone /\ catalog' = catalog
          /\ live' = LiveRows([k \in Keys |-> IF episodes[k] = None THEN "none" ELSE "app_stop"], gap)
      BY <1>5 DEF Close
    <2>2. ASSUME NEW k \in Keys PROVE live'[k] = {}
      <3> DEFINE event == IF episodes[k] = None THEN "none" ELSE "app_stop"
      <3>1. live'[k] = IF Begins(k, event) THEN live[k] \cup {gap[k]}
                       ELSE IF Ends(k, event) THEN live[k] \ {open[k]} ELSE live[k]
        BY <2>1 DEF LiveRows
      <3>2. ~Begins(k, event)
        BY DEF Begins
      <3>3. Agree(episodes[k], open[k], live[k], gap[k]) /\ k[1] \in Listed
        BY <2>1, AllListed DEF RowsMatch, Keys
      <3>4. open[k] # None => Ends(k, event)
        BY <3>3 DEF Ends, Agree
      <3> HIDE DEF event
      <3> QED  BY <3>1, <3>2, <3>3, <3>4 DEF Agree
    <2> QED  BY <1>4, <2>1, <2>2 DEF RowsMatch
  <1>6. CASE Crash
    BY <1>4, <1>6 DEF Crash, RowsMatch
  <1>7. CASE Restart
    <2>1. /\ stage # "running" /\ stage' = "running" /\ catalog' \in [Pairs -> Records]
          /\ live' = [k \in Keys |-> {}] /\ UNCHANGED <<memory, gap>>
      BY <1>7 DEF Restart
    <2> QED  BY <2>1 DEF RowsMatch, memory, Agree
  <1>8. CASE UNCHANGED vars
    BY <1>8 DEF vars, memory, RowsMatch, Agree
  <1> QED  BY <1>1, <1>2, <1>3, <1>5, <1>6, <1>7, <1>8 DEF Next

LEMMA InitMatches == Init => RowsMatch
  BY DEF Init, Fresh, RowsMatch, Agree

LEMMA AlwaysMatch == ASSUME Stays PROVE Spec => []RowsMatch
  <1>1. RowsMatch /\ [Next]_vars => RowsMatch'
    BY NextMatches
  <1> QED  BY <1>1, InitMatches, PTL DEF Spec

(* recorder.py: a row belongs to the gap its key has now and is the only one
   unfinished, whatever is measured, chosen, opened, stopped or killed. *)
THEOREM EveryGapHasOneRow ==
    ASSUME Stays
    PROVE  Spec => []OneRowPerGap
  <1>1. RowsMatch => OneRowPerGap
    BY DEF RowsMatch, OneRowPerGap, Agree
  <1> QED  BY <1>1, AlwaysMatch, PTL

(* engine.close: an orderly stop leaves no row of history unfinished. *)
THEOREM StopsComplete ==
    ASSUME Stays
    PROVE  Spec => []StoppedRowsAreComplete
  <1>1. RowsMatch => StoppedRowsAreComplete
    BY DEF RowsMatch, StoppedRowsAreComplete
  <1> QED  BY <1>1, AlwaysMatch, PTL

-------------------------------------------------------------------------------
(* Who gets the books *)

(* All books are taken, by no more than the first ones and not by all of them. *)
LEMMA TooMany ==
    ASSUME IsFiniteSet(Pairs), NEW first \in SUBSET Pairs, NEW chosen \in SUBSET first,
           Cardinality(chosen) = BookLimit, first # chosen
    PROVE  Cardinality(first) > BookLimit
  <1>1. IsFiniteSet(first) /\ Cardinality(first) \in Nat /\ IsFiniteSet(chosen) /\ Cardinality(chosen) \in Nat
    BY FS_Subset, FS_CardinalityType
  <1>2. Cardinality(chosen) <= Cardinality(first) /\ (Cardinality(first) = Cardinality(chosen) => first = chosen)
    BY <1>1, FS_Subset
  <1> QED  BY <1>1, <1>2

(* _choose: open pairs and then gaps in the feed get their books first; one of
   them goes without only when there are more of them than books. *)
THEOREM FirstGetBooks ==
    ASSUME IsFiniteSet(Pairs)
    PROVE  Spec => []FirstKeepBooks
  <1> DEFINE first  == pinned \cap Listed
             second == InPhase("in_feed")
  <1>1. ASSUME NEW chosen \in Chosen
        PROVE  /\ first \subseteq chosen \/ Cardinality(first) > BookLimit
               /\ first \cup second \subseteq chosen \/ Cardinality(first \cup second) > BookLimit
    <2>1. PICK tracking, rest : TakenInOrder(chosen, Priorities(tracking, rest))
      BY DEF Chosen
    <2> DEFINE groups == Priorities(tracking, rest)
    <2>2. DOMAIN groups = 1 .. 5 /\ groups[1] = first /\ groups[2] = second
      BY DEF Priorities
    <2>3. first \in SUBSET Pairs /\ second \in SUBSET Pairs
      BY DEF Listed, InPhase, KeysIn, Keys
    <2> HIDE DEF groups, first, second
    <2>4. \A i \in 1 .. 5 : groups[i] \subseteq chosen \/
             (Cardinality(chosen) = BookLimit /\ chosen \subseteq UNION {groups[j] : j \in 1 .. i})
      <3>1. TakenInOrder(chosen, groups)
        BY <2>1 DEF groups
      <3>2. \A i \in DOMAIN groups : groups[i] \subseteq chosen \/
               (Cardinality(chosen) = BookLimit /\ chosen \subseteq UNION {groups[j] : j \in 1 .. i})
        BY <3>1, Zenon DEF TakenInOrder
      <3> QED  BY <2>2, <3>2, Zenon
    <2>5. \/ first \subseteq chosen
          \/ Cardinality(chosen) = BookLimit /\ chosen \subseteq first
      <3>1. UNION {groups[j] : j \in 1 .. 1} = first
        BY <2>2
      <3> QED  BY <2>2, <2>4, <3>1
    <2>6. \/ second \subseteq chosen
          \/ Cardinality(chosen) = BookLimit /\ chosen \subseteq first \cup second
      <3>1. UNION {groups[j] : j \in 1 .. 2} = first \cup second
        <4>1. \A j : j \in 1 .. 2 <=> j = 1 \/ j = 2
          OBVIOUS
        <4> QED  BY <2>2, <4>1
      <3> QED  BY <2>2, <2>4, <3>1
    <2>7. first \subseteq chosen \/ Cardinality(first) > BookLimit
      BY <2>3, <2>5, TooMany
    <2>8. first \cup second \subseteq chosen \/ Cardinality(first \cup second) > BookLimit
      BY <2>3, <2>5, <2>6, TooMany
    <2> QED  BY <2>7, <2>8
  <1>2. FirstKeepBooks
    BY <1>1 DEF FirstKeepBooks
  <1> QED  BY <1>2, PTL
===============================================================================
