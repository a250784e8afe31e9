------------------------------- MODULE GapProofs -------------------------------
(***************************************************************************)
(* What a gap's record remembers of its samples, for every rule, every     *)
(* sequence of readings and every length of history: it is shown at the    *)
(* first sample that earns it, and leaves with the first long dip.         *)
(***************************************************************************)
EXTENDS GapHistory, FiniteSetTheorems, TLAPS

Reading == Int \cup {None}

Sample == [ts : Int, roi : Reading, exit : Reading]

Records ==
    [phase : {"candidate"} \cup Shown, detected : Int, aboveSince : Reading, aboveSamples : Nat,
     belowSince : Reading, entered : Reading, roiAtEntry : Reading, peak : Reading,
     missed : Reading, reason : {None}]

(* What is assumed of the constants: readings are numbers, time does not go
   back, and None is no record. *)
Numbers ==
    /\ Readings \subseteq Int /\ Exits \subseteq Int /\ Delays \subseteq Nat
    /\ None \notin Records

-------------------------------------------------------------------------------
(* What a step does to the fields that tell how long a gap lasted *)

(* The fields that have no part in it may change as they like. *)
SameWatch(e, f) ==
    /\ f \in Records
    /\ f.phase = e.phase /\ f.belowSince = e.belowSince
    /\ f.aboveSince = e.aboveSince /\ f.aboveSamples = e.aboveSamples

LEMMA Results == \A e, event : Result(e, event).episode = e /\ Result(e, event).event = event
  BY DEF Result

LEMMA SinceIsTime ==
    ASSUME NEW since \in Reading, NEW s \in Sample
    PROVE  SinceOr(since, s) \in Int
  BY DEF SinceOr, Sample, Reading

LEMMA PeakKeepsWatch ==
    ASSUME NEW e \in Records, NEW s \in Sample
    PROVE  SameWatch(e, TrackPeak(e, s))
  BY DEF TrackPeak, SameWatch, Records, Sample, Reading

LEMMA MissedKeepsWatch ==
    ASSUME NEW e \in Records, NEW s \in Sample
    PROVE  SameWatch(e, TrackMissed(e, s))
  <1> DEFINE pnl == e.roiAtEntry - s.exit
  <1>1. CASE e.roiAtEntry = None \/ s.exit = None \/ (e.missed # None /\ pnl <= e.missed)
    BY <1>1 DEF TrackMissed, SameWatch
  <1>2. CASE ~(e.roiAtEntry = None \/ s.exit = None \/ (e.missed # None /\ pnl <= e.missed))
    <2>1. pnl \in Reading
      BY <1>2 DEF Records, Sample, Reading
    <2>2. TrackMissed(e, s) = [e EXCEPT !.missed = pnl]
      BY <1>2 DEF TrackMissed
    <2> HIDE DEF pnl
    <2> QED  BY <2>1, <2>2 DEF Records, SameWatch
  <1> QED  BY <1>1, <1>2

LEMMA EnterFeedWatches ==
    ASSUME NEW e \in Records, NEW s \in Sample
    PROVE  /\ EnterFeed(e, s) \in Records
           /\ EnterFeed(e, s).phase = "in_feed" /\ EnterFeed(e, s).belowSince = None
  <1> DEFINE entered == IF e.entered = None THEN s.ts ELSE e.entered
             roi     == IF e.entered = None THEN s.roi ELSE e.roiAtEntry
  <1>1. EnterFeed(e, s) = [e EXCEPT !.phase = "in_feed", !.belowSince = None, !.entered = entered, !.roiAtEntry = roi]
    BY DEF EnterFeed, Records
  <1>2. entered \in Reading /\ roi \in Reading
    BY DEF Records, Sample, Reading
  <1> HIDE DEF entered, roi
  <1> QED  BY <1>1, <1>2, ZenonT(40) DEF Records, Shown, Reading

(* A dip of the record e under sample s: it goes on, and is long or is not. *)
Dip(e, s) == [e EXCEPT !.belowSince = SinceOr(e.belowSince, s)]

LEMMA DipIsRecord ==
    ASSUME NEW e \in Records, NEW s \in Sample
    PROVE  /\ BelowAgain(e, s) = Dip(e, s) /\ Dip(e, s) \in Records
           /\ Dip(e, s).belowSince = SinceOr(e.belowSince, s)
           /\ Dip(e, s).phase = e.phase
           /\ Dip(e, s).aboveSince = e.aboveSince /\ Dip(e, s).aboveSamples = e.aboveSamples
  <1> DEFINE since == SinceOr(e.belowSince, s)
  <1>1. since \in Reading
    BY SinceIsTime DEF Records, Reading
  <1>2. BelowAgain(e, s) = [e EXCEPT !.belowSince = since] /\ Dip(e, s) = [e EXCEPT !.belowSince = since]
    BY DEF BelowAgain, Dip, Records
  <1> HIDE DEF since
  <1>3. /\ [e EXCEPT !.belowSince = since] \in Records
        /\ [e EXCEPT !.belowSince = since].belowSince = since
        /\ [e EXCEPT !.belowSince = since].phase = e.phase
        /\ [e EXCEPT !.belowSince = since].aboveSince = e.aboveSince
        /\ [e EXCEPT !.belowSince = since].aboveSamples = e.aboveSamples
    BY <1>1 DEF Records
  <1> QED  BY <1>2, <1>3 DEF since

(* What becomes of a candidate: lost, dipping, shown, or counted. *)
LEMMA CandidateCourse ==
    ASSUME NEW e \in Records, NEW s \in Sample, e.phase = "candidate"
    PROVE  LET r == CandidateStep(e, s)
               samples == e.aboveSamples + (IF Above(s, MinRoi) THEN 1 ELSE 0)
               enough == Above(s, MinRoi) /\ Earned(e.aboveSince, samples, s)
           IN  /\ ~Above(s, ExitLevel) =>
                    /\ r.event = "none"
                    /\ r.episode = IF DippedOut(e, s) THEN None ELSE Dip(e, s)
               /\ Above(s, ExitLevel) /\ ~enough =>
                    /\ r.event = "none"
                    /\ r.episode \in Records /\ r.episode.phase = "candidate"
                    /\ r.episode.aboveSince = e.aboveSince /\ r.episode.aboveSamples = samples
                    /\ r.episode.belowSince = None
               /\ Above(s, ExitLevel) /\ enough =>
                    /\ r.event = "entered_feed"
                    /\ r.episode \in Records /\ r.episode.phase = "in_feed"
                    /\ r.episode.belowSince = None
  <1> DEFINE r == CandidateStep(e, s)
             samples == e.aboveSamples + (IF Above(s, MinRoi) THEN 1 ELSE 0)
             enough == Above(s, MinRoi) /\ Earned(e.aboveSince, samples, s)
             c == CountReading(e, s)
  <1>1. /\ c \in Records /\ c.phase = "candidate" /\ c.belowSince = None
        /\ c.aboveSince = e.aboveSince /\ c.aboveSamples = samples
    <2> DEFINE k == IF Above(s, MinRoi) THEN e.aboveSamples + 1 ELSE e.aboveSamples
    <2>1. c = [e EXCEPT !.belowSince = None, !.aboveSamples = k]
      BY DEF CountReading, Records
    <2>2. k \in Nat /\ k = samples
      BY DEF Records
    <2> HIDE DEF k, samples
    <2> QED  BY <2>1, <2>2 DEF Records, Reading, Shown
  <1>2. CASE ~Above(s, ExitLevel)
    <2>1. r = Result(IF DippedOut(e, s) THEN None ELSE BelowAgain(e, s), "none")
      BY <1>2, Zenon DEF CandidateStep
    <2> QED  BY <1>2, <2>1, DipIsRecord DEF Result
  <1>3. ASSUME Above(s, ExitLevel), ~enough
        PROVE  /\ r.event = "none"
               /\ r.episode \in Records /\ r.episode.phase = "candidate"
               /\ r.episode.aboveSince = e.aboveSince /\ r.episode.aboveSamples = samples
               /\ r.episode.belowSince = None
    <2> HIDE DEF c, samples
    <2>1. ~(Above(s, MinRoi) /\ Earned(c.aboveSince, c.aboveSamples, s))
      BY <1>1, <1>3
    <2>2. r = Result(c, "none")
      BY <1>3, <2>1, Zenon DEF CandidateStep, c
    <2> HIDE DEF r
    <2> QED  BY <1>1, <2>2, Results
  <1>4. ASSUME Above(s, ExitLevel), enough
        PROVE  /\ r.event = "entered_feed"
               /\ r.episode \in Records /\ r.episode.phase = "in_feed"
               /\ r.episode.belowSince = None
    <2> HIDE DEF c, samples
    <2>1. Above(s, MinRoi) /\ Earned(c.aboveSince, c.aboveSamples, s)
      BY <1>1, <1>4
    <2>2. r = Result(TrackPeak(EnterFeed(c, s), s), "entered_feed")
      BY <1>4, <2>1, Zenon DEF CandidateStep, c
    <2>3. SameWatch(EnterFeed(c, s), TrackPeak(EnterFeed(c, s), s))
      BY <1>1, EnterFeedWatches, PeakKeepsWatch
    <2>4. EnterFeed(c, s).phase = "in_feed" /\ EnterFeed(c, s).belowSince = None
      BY <1>1, EnterFeedWatches
    <2> HIDE DEF r
    <2> QED  BY <2>2, <2>3, <2>4, Results DEF SameWatch
  <1> HIDE DEF r, samples, enough
  <1> QED  BY <1>2, <1>3, <1>4 DEF r, samples, enough

(* What becomes of a gap in the feed: over, back to following, dipping, or well. *)
LEMMA InFeedCourse ==
    ASSUME Numbers, NEW e \in Records, NEW s \in Sample, e.phase = "in_feed"
    PROVE  LET r == Step(e, s)
           IN  \/ r.event = "ended"
               \/ /\ Above(s, ExitLevel) /\ r.event = "none"
                  /\ r.episode \in Records /\ r.episode.phase = "in_feed" /\ r.episode.belowSince = None
               \/ /\ ~Above(s, ExitLevel) /\ DippedOut(e, s) /\ r.event = "left_feed"
                  /\ r.episode \in Records /\ r.episode.phase = "tracking"
               \/ /\ ~Above(s, ExitLevel) /\ ~DippedOut(e, s) /\ r.event = "none"
                  /\ r.episode \in Records /\ r.episode.phase = "in_feed"
                  /\ r.episode.belowSince = SinceOr(e.belowSince, s)
  <1> DEFINE r == Step(e, s)
             t == TrackMissed(TrackPeak(e, s), s)
  <1>1. r = ShownStep(e, s)
    BY DEF Step, Records, Shown, Numbers
  <1>2. SameWatch(e, t)
    <2>1. SameWatch(e, TrackPeak(e, s))
      BY PeakKeepsWatch
    <2>2. SameWatch(TrackPeak(e, s), t)
      BY <2>1, MissedKeepsWatch DEF SameWatch
    <2> HIDE DEF t
    <2> QED  BY <2>1, <2>2 DEF SameWatch
  <1>3. CASE Expired(e, s)
    <2>1. r = End(e, "timeout")
      BY <1>1, <1>3, Zenon DEF ShownStep
    <2> QED  BY <2>1 DEF End, Result
  <1>4. CASE ~Expired(e, s)
    <2>1. r = InFeedStep(t, s)
      BY <1>1, <1>4, Zenon DEF ShownStep
    <2> HIDE DEF t
    <2>2. t \in Records /\ t.phase = "in_feed" /\ t.belowSince = e.belowSince
      BY <1>2 DEF SameWatch
    <2>3. DippedOut(t, s) <=> DippedOut(e, s)
      BY <2>2 DEF DippedOut
    <2>4. CASE Above(s, ExitLevel)
      <3>1. r = Result([t EXCEPT !.belowSince = None], "none")
        BY <2>1, <2>4, Zenon DEF InFeedStep
      <3>2. /\ [t EXCEPT !.belowSince = None] \in Records
            /\ [t EXCEPT !.belowSince = None].phase = "in_feed"
            /\ [t EXCEPT !.belowSince = None].belowSince = None
        BY <2>2 DEF Records, Reading
      <3>3. r.event = "none" /\ r.episode = [t EXCEPT !.belowSince = None]
        BY <3>1, Results
      <3>4. r.episode \in Records /\ r.episode.phase = "in_feed" /\ r.episode.belowSince = None
        BY <3>2, <3>3
      <3> HIDE DEF r
      <3> QED  BY <2>4, <3>3, <3>4 DEF r
    <2>5. CASE ~Above(s, ExitLevel) /\ DippedOut(e, s)
      <3>1. r = Result(LeaveFeed(t), "left_feed")
        BY <2>1, <2>3, <2>5, Zenon DEF InFeedStep
      <3>2. LeaveFeed(t) \in Records /\ LeaveFeed(t).phase = "tracking"
        BY <2>2 DEF LeaveFeed, Records, Reading, Shown
      <3> HIDE DEF r
      <3> QED  BY <2>5, <3>1, <3>2, Results DEF r
    <2>6. CASE ~Above(s, ExitLevel) /\ ~DippedOut(e, s)
      <3>1. r = Result(BelowAgain(t, s), "none")
        BY <2>1, <2>3, <2>6, Zenon DEF InFeedStep
      <3>2. /\ BelowAgain(t, s) \in Records /\ BelowAgain(t, s).phase = "in_feed"
            /\ BelowAgain(t, s).belowSince = SinceOr(e.belowSince, s)
        BY <2>2, DipIsRecord
      <3> HIDE DEF r
      <3> QED  BY <2>6, <3>1, <3>2, Results DEF r
    <2> QED  BY <2>4, <2>5, <2>6
  <1> QED  BY <1>3, <1>4

(* What becomes of a gap that is followed: over, shown again, or followed on. *)
LEMMA TrackingCourse ==
    ASSUME Numbers, NEW e \in Records, NEW s \in Sample, e.phase = "tracking"
    PROVE  LET r == Step(e, s)
           IN  \/ r.event = "ended"
               \/ /\ Above(s, MinRoi) /\ r.event = "entered_feed"
                  /\ r.episode \in Records /\ r.episode.phase = "in_feed" /\ r.episode.belowSince = None
               \/ r.event = "none" /\ r.episode \in Records /\ r.episode.phase = "tracking"
  <1> DEFINE r == Step(e, s)
             t == TrackMissed(TrackPeak(e, s), s)
             since   == SinceOr(t.aboveSince, s)
             samples == t.aboveSamples + 1
             reset   == [t EXCEPT !.aboveSince = None, !.aboveSamples = 0]
             counted == [t EXCEPT !.aboveSince = since, !.aboveSamples = samples]
  <1>1. r = ShownStep(e, s)
    BY DEF Step, Records, Shown, Numbers
  <1>2. SameWatch(e, t)
    <2>1. SameWatch(e, TrackPeak(e, s))
      BY PeakKeepsWatch
    <2>2. SameWatch(TrackPeak(e, s), t)
      BY <2>1, MissedKeepsWatch DEF SameWatch
    <2> HIDE DEF t
    <2> QED  BY <2>1, <2>2 DEF SameWatch
  <1>3. \/ r = End(e, "timeout")
        \/ r = TrackingStep(t, s)
    BY <1>1, Zenon DEF ShownStep
  <1>4. \/ TrackingStep(t, s) = End(t, "converged")
        \/ TrackingStep(t, s) = Result(reset, "none")
        \/ TrackingStep(t, s) = Result(EnterFeed(t, s), "entered_feed") /\ Above(s, MinRoi)
        \/ TrackingStep(t, s) = Result(counted, "none")
    BY Zenon DEF TrackingStep
  <1> HIDE DEF t
  <1>5. t \in Records /\ t.phase = "tracking"
    BY <1>2 DEF SameWatch
  <1>6. reset \in Records /\ reset.phase = "tracking"
    BY <1>5 DEF Records, Reading
  <1>7. counted \in Records /\ counted.phase = "tracking"
    <2>1. t.aboveSince \in Reading /\ samples \in Nat
      BY <1>5 DEF Records
    <2>2. since \in Reading
      BY <2>1, SinceIsTime DEF Reading
    <2> HIDE DEF since, samples
    <2> QED  BY <1>5, <2>1, <2>2 DEF Records
  <1>8. EnterFeed(t, s) \in Records /\ EnterFeed(t, s).phase = "in_feed" /\ EnterFeed(t, s).belowSince = None
    BY <1>5, EnterFeedWatches
  <1>9. \A reason : \A f \in Records : f.phase = "tracking" => End(f, reason).event = "ended"
    BY DEF End, Result
  <1> HIDE DEF reset, counted
  <1>10. \A f, event : Result(f, event).episode = f /\ Result(f, event).event = event
    BY DEF Result
  <1>11. e \in Records /\ e.phase = "tracking"
    OBVIOUS
  <1> HIDE DEF r
  <1> QED  BY <1>3, <1>4, <1>5, <1>6, <1>7, <1>8, <1>9, <1>10, <1>11 DEF r

-------------------------------------------------------------------------------
(* One more sample *)

TimesGrow == \A i, j \in 1 .. n : i <= j => history[i].ts <= history[j].ts

(* Sample s comes as number m + 1. *)
Grown(m, s) ==
    /\ history \in Seq(Sample) /\ n = m
    /\ TimesGrow
    /\ s \in Sample
    /\ \A i \in 1 .. m : history[i].ts <= s.ts
    /\ history' = Append(history, s)

LEMMA HistoryGrows ==
    ASSUME NEW m \in Nat, NEW s, Grown(m, s)
    PROVE  /\ n' = m + 1 /\ history' \in Seq(Sample) /\ TimesGrow'
           /\ \A i \in 1 .. m : history[i] \in Sample /\ history'[i] = history[i]
           /\ history'[m + 1] = s
           /\ \A i \in 1 .. m + 1 : history'[i] \in Sample /\ history'[i].ts \in Int
  <1>1. /\ n' = m + 1 /\ history' \in Seq(Sample)
        /\ \A i \in 1 .. m : history[i] \in Sample /\ history'[i] = history[i]
        /\ history'[m + 1] = s
    BY DEF Grown, n
  <1>2. TimesGrow'
    <2> SUFFICES ASSUME NEW i \in 1 .. m + 1, NEW j \in 1 .. m + 1, i <= j
                 PROVE  history'[i].ts <= history'[j].ts
      BY <1>1 DEF TimesGrow
    <2>1. CASE j \in 1 .. m
      <3>1. i \in 1 .. m /\ history'[i] = history[i] /\ history'[j] = history[j]
        BY <1>1, <2>1
      <3>2. n = m /\ TimesGrow
        BY DEF Grown
      <3> QED  BY <2>1, <3>1, <3>2 DEF TimesGrow
    <2>2. CASE j = m + 1 /\ i \in 1 .. m
      BY <1>1, <2>2 DEF Grown
    <2>3. CASE j = m + 1 /\ i = m + 1
      <3>1. s.ts \in Int
        BY DEF Grown, Sample
      <3> QED  BY <1>1, <2>3, <3>1
    <2> QED  BY <2>1, <2>2, <2>3
  <1>3. ASSUME NEW i \in 1 .. m + 1 PROVE history'[i] \in Sample
    <2>1. i \in 1 .. m \/ i = m + 1
      OBVIOUS
    <2>2. s \in Sample
      BY DEF Grown
    <2> QED  BY <1>1, <2>1, <2>2
  <1>4. \A r \in Sample : r.ts \in Int
    BY DEF Sample
  <1> QED  BY <1>1, <1>2, <1>3, <1>4

(* What was said of the samples so far stays true. *)
LEMMA PastStays ==
    ASSUME NEW m \in Nat, NEW s, Grown(m, s)
    PROVE  /\ \A i \in 1 .. m : (AboveAt(i)' <=> AboveAt(i)) /\ (BelowAt(i)' <=> BelowAt(i))
           /\ AboveAt(m + 1)' <=> Above(s, MinRoi)
           /\ BelowAt(m + 1)' <=> ~Above(s, ExitLevel)
           /\ \A i, j \in 1 .. m : Elapsed(i, j)' = Elapsed(i, j)
           /\ \A i \in 1 .. m, j \in 0 .. m : LongDip(i, j)' <=> LongDip(i, j)
           /\ \A j \in 1 .. m : EarnedAt(j)' <=> EarnedAt(j)
  <1>1. \A i \in 1 .. m : (AboveAt(i)' <=> AboveAt(i)) /\ (BelowAt(i)' <=> BelowAt(i))
    BY HistoryGrows DEF AboveAt, BelowAt
  <1>2. (AboveAt(m + 1)' <=> Above(s, MinRoi)) /\ (BelowAt(m + 1)' <=> ~Above(s, ExitLevel))
    BY HistoryGrows DEF AboveAt, BelowAt
  <1>3. \A i, j \in 1 .. m : Elapsed(i, j)' = Elapsed(i, j)
    BY HistoryGrows DEF Elapsed
  <1>4. ASSUME NEW i \in 1 .. m, NEW j \in 0 .. m PROVE LongDip(i, j)' <=> LongDip(i, j)
    <2>1. \A first, last \in i .. j :
             /\ Elapsed(first, last)' = Elapsed(first, last)
             /\ (\A k \in first .. last : BelowAt(k)') <=> (\A k \in first .. last : BelowAt(k))
      BY <1>1, <1>3
    <2> QED  BY <2>1 DEF LongDip
  <1>5. ASSUME NEW j \in 1 .. m PROVE EarnedAt(j)' <=> EarnedAt(j)
    <2>1. history'[j] = history[j]
      BY HistoryGrows
    <2>2. ASSUME NEW i \in 1 .. j
          PROVE  /\ AboveAt(i)' <=> AboveAt(i)
                 /\ LongDip(i, j)' <=> LongDip(i, j)
                 /\ Elapsed(i, j)' = Elapsed(i, j)
                 /\ {k \in i .. j : AboveAt(k)'} = {k \in i .. j : AboveAt(k)}
      BY <1>1, <1>3, <1>4
    <2> QED  BY <1>1, <2>1, <2>2 DEF EarnedAt
  <1> QED  BY <1>1, <1>2, <1>3, <1>4, <1>5

LEMMA AboveIsNotBelow ==
    ASSUME NEW s \in Sample, Above(s, MinRoi)
    PROVE  Above(s, ExitLevel)
  BY RulesAssumption DEF Above, ExitLevel, Sample, Reading

LEMMA DipsLast ==
    ASSUME NEW m \in Nat, NEW s, Grown(m, s), NEW i \in 1 .. m, LongDip(i, m)
    PROVE  LongDip(i, m + 1)'
  <1>1. LongDip(i, m)'
    BY PastStays
  <1> QED  BY <1>1 DEF LongDip

(* A reading above the exit level ends no dip that was not long already. *)
LEMMA NoNewDip ==
    ASSUME NEW m \in Nat, NEW s, Grown(m, s), Above(s, ExitLevel)
    PROVE  /\ ~LongDip(m + 1, m + 1)'
           /\ \A i \in 1 .. m : LongDip(i, m + 1)' => LongDip(i, m)
  <1>1. ~BelowAt(m + 1)'
    BY PastStays
  <1>2. ASSUME NEW i \in 1 .. m + 1, LongDip(i, m + 1)' PROVE i <= m /\ LongDip(i, m)'
    <2>1. PICK first \in i .. m + 1, last \in i .. m + 1 :
             /\ first <= last
             /\ \A k \in first .. last : BelowAt(k)'
             /\ Elapsed(first, last)' >= ExitAfter
      BY <1>2 DEF LongDip
    <2>2. last # m + 1
      BY <1>1, <2>1
    <2> QED  BY <2>1, <2>2 DEF LongDip
  <1>3. \A i \in 1 .. m : LongDip(i, m)' => LongDip(i, m)
    BY PastStays
  <1> QED  BY <1>2, <1>3

(* Below it, the dip under way began with sample b: it is long for all that
   came up to there, or nothing became of it yet. *)
LEMMA DipUnderWay ==
    ASSUME NEW m \in Nat, NEW s, Grown(m, s), NEW b \in 2 .. m + 1,
           ~BelowAt(b - 1), \A k \in b .. m : BelowAt(k), ~Above(s, ExitLevel)
    PROVE  LET long == s.ts - history'[b].ts >= ExitAfter
           IN  /\ long => \A i \in 1 .. b : LongDip(i, m + 1)'
               /\ ~long => \A i \in 1 .. b - 1 : LongDip(i, m + 1)' => LongDip(i, m)
  <1>1. \A k \in b .. m + 1 : BelowAt(k)'
    BY PastStays
  <1>2. history'[m + 1] = s /\ n' = m + 1 /\ TimesGrow'
    BY HistoryGrows
  <1>3. ASSUME s.ts - history'[b].ts >= ExitAfter, NEW i \in 1 .. b PROVE LongDip(i, m + 1)'
    BY <1>1, <1>2, <1>3 DEF LongDip, Elapsed
  <1>4. ASSUME ~(s.ts - history'[b].ts >= ExitAfter), NEW i \in 1 .. b - 1, LongDip(i, m + 1)'
        PROVE  LongDip(i, m)
    <2>1. PICK first \in i .. m + 1, last \in i .. m + 1 :
             /\ first <= last
             /\ \A k \in first .. last : BelowAt(k)'
             /\ Elapsed(first, last)' >= ExitAfter
      BY <1>4 DEF LongDip
    <2>2. CASE last = m + 1
      <3>1. ~BelowAt(b - 1)'
        BY PastStays
      <3>2. first >= b
        BY <2>1, <2>2, <3>1
      <3>3. history'[b].ts <= history'[first].ts
        BY <1>2, <3>2 DEF TimesGrow
      <3>4. s.ts - history'[first].ts >= ExitAfter
        BY <1>2, <2>1, <2>2 DEF Elapsed
      <3>5. s.ts \in Int /\ history'[b].ts \in Int /\ history'[first].ts \in Int /\ ExitAfter \in Int
        <4>1. m + 1 \in 1 .. m + 1 /\ b \in 1 .. m + 1 /\ first \in 1 .. m + 1
          BY <3>2
        <4>2. history' \in Seq(Sample) /\ n' = m + 1 /\ s \in Sample
          BY HistoryGrows DEF Grown
        <4>3. \A j \in 1 .. m + 1 : history'[j] \in Sample
          BY <4>2 DEF n
        <4>4. \A x \in Sample : x.ts \in Int
          BY DEF Sample
        <4> QED  BY <4>1, <4>2, <4>3, <4>4, RulesAssumption
      <3> QED  BY <1>4, <3>3, <3>4, <3>5
    <2>3. CASE last # m + 1
      <3>1. LongDip(i, m)'
        BY <2>1, <2>3 DEF LongDip
      <3> QED  BY <3>1, PastStays
    <2> QED  BY <2>2, <2>3
  <1> QED  BY <1>3, <1>4

-------------------------------------------------------------------------------
(* What a record says of its history *)

(* The gap came up at start and had no long dip since; belowSince is where the
   dip under way began. *)
Watches(start) ==
    /\ start \in 1 .. n
    /\ AboveAt(start)
    /\ ~LongDip(start, n)
    /\ \/ episode.belowSince = None /\ ~BelowAt(n)
       \/ \E b \in start + 1 .. n :
             /\ episode.belowSince = history[b].ts
             /\ ~BelowAt(b - 1)
             /\ \A k \in b .. n : BelowAt(k)

LEMMA WatchBegins ==
    ASSUME NEW m \in Nat, NEW s, Grown(m, s), Above(s, MinRoi), episode'.belowSince = None
    PROVE  Watches(m + 1)'
  <1>1. n' = m + 1 /\ AboveAt(m + 1)' /\ ~LongDip(m + 1, m + 1)'
    BY HistoryGrows, PastStays, NoNewDip, AboveIsNotBelow DEF Grown
  <1>2. ~BelowAt(m + 1)'
    BY PastStays, AboveIsNotBelow DEF Grown
  <1>3. ~BelowAt(n)'
    BY <1>1, <1>2 DEF BelowAt
  <1>4. ~LongDip(m + 1, n)'
    BY <1>1 DEF LongDip
  <1> QED  BY <1>1, <1>3, <1>4 DEF Watches

LEMMA WatchGoesOn ==
    ASSUME NEW m \in Nat, NEW s, Grown(m, s), NEW i \in 1 .. m, Watches(i),
           Above(s, ExitLevel), episode'.belowSince = None
    PROVE  Watches(i)' /\ ~LongDip(i, m + 1)'
  <1>1. n' = m + 1 /\ n = m
    BY HistoryGrows DEF Grown
  <1>2. AboveAt(i)' /\ ~BelowAt(m + 1)' /\ ~LongDip(i, m + 1)'
    BY <1>1, PastStays, NoNewDip DEF Watches
  <1>3. ~BelowAt(n)' /\ ~LongDip(i, n)'
    BY <1>1, <1>2 DEF BelowAt, LongDip
  <1> QED  BY <1>1, <1>2, <1>3 DEF Watches

(* A reading below the exit level: the dip goes on, or it was the last straw. *)
LEMMA WatchDips ==
    ASSUME NEW m \in Nat, NEW s, Grown(m, s), NEW i \in 1 .. m, Watches(i), ~Above(s, ExitLevel)
    PROVE  /\ DippedOut(episode, s) =>
                /\ LongDip(i, m + 1)'
                /\ \A j \in 1 .. m : AboveAt(j) => LongDip(j, m + 1)'
           /\ ~DippedOut(episode, s) /\ episode'.belowSince = SinceOr(episode.belowSince, s) =>
                Watches(i)'
  <1>1. n' = m + 1 /\ n = m
    BY HistoryGrows DEF Grown
  <1>2. AboveAt(i)' /\ BelowAt(m + 1)' /\ AboveAt(i) /\ ~LongDip(i, m)
    BY <1>1, PastStays DEF Watches
  <1>3. PICK b \in i + 1 .. m + 1 :
           /\ SinceOr(episode.belowSince, s) = history'[b].ts
           /\ ~BelowAt(b - 1) /\ \A k \in b .. m : BelowAt(k)
    <2>1. CASE episode.belowSince = None /\ ~BelowAt(m)
      <3>1. SinceOr(episode.belowSince, s) = history'[m + 1].ts
        BY <2>1, HistoryGrows DEF SinceOr
      <3>2. ~BelowAt((m + 1) - 1)
        BY <2>1 DEF BelowAt
      <3> QED  BY <3>1, <3>2
    <2>2. ASSUME NEW b \in i + 1 .. m, episode.belowSince = history[b].ts,
                 ~BelowAt(b - 1), \A k \in b .. m : BelowAt(k)
          PROVE  /\ SinceOr(episode.belowSince, s) = history'[b].ts
                 /\ ~BelowAt(b - 1) /\ \A k \in b .. m : BelowAt(k)
      <3>1. history'[b] = history[b] /\ history[b].ts \in Int
        <4>1. b \in 1 .. m /\ b \in 1 .. m + 1
          OBVIOUS
        <4> QED  BY <4>1, HistoryGrows
      <3> QED  BY <2>2, <3>1, NoneAssumption DEF SinceOr
    <2>3. \/ episode.belowSince = None /\ ~BelowAt(m)
          \/ \E b \in i + 1 .. m :
               episode.belowSince = history[b].ts /\ ~BelowAt(b - 1) /\ \A k \in b .. m : BelowAt(k)
      BY <1>1 DEF Watches
    <2> QED  BY <2>1, <2>2, <2>3
  <1> DEFINE long == s.ts - history'[b].ts >= ExitAfter
  <1>4. long <=> DippedOut(episode, s)
    BY <1>3 DEF DippedOut, LastsFrom
  <1>5. /\ long => \A j \in 1 .. b : LongDip(j, m + 1)'
        /\ ~long => \A j \in 1 .. b - 1 : LongDip(j, m + 1)' => LongDip(j, m)
    BY <1>3, DipUnderWay
  <1> HIDE DEF long
  <1>6. ASSUME long PROVE LongDip(i, m + 1)' /\ \A j \in 1 .. m : AboveAt(j) => LongDip(j, m + 1)'
    <2>1. ASSUME NEW j \in 1 .. m, AboveAt(j) PROVE j < b
      <3>1. ~BelowAt(j)
        <4>1. history[j] \in Sample
          BY HistoryGrows
        <4> QED  BY <2>1, <4>1, AboveIsNotBelow DEF AboveAt, BelowAt
      <3> QED  BY <1>3, <3>1
    <2> QED  BY <1>5, <1>6, <2>1
  <1>7. ASSUME ~long, episode'.belowSince = SinceOr(episode.belowSince, s) PROVE Watches(i)'
    <2>1. ~LongDip(i, m + 1)'
      BY <1>2, <1>5, <1>7
    <2>2. ~LongDip(i, n)'
      BY <1>1, <2>1 DEF LongDip
    <2>3. ~BelowAt(b - 1)' /\ \A k \in b .. m + 1 : BelowAt(k)'
      BY <1>2, <1>3, PastStays
    <2> QED  BY <1>1, <1>2, <1>3, <1>7, <2>2, <2>3 DEF Watches
  <1> QED  BY <1>4, <1>6, <1>7

-------------------------------------------------------------------------------
(* When a gap has earned its place *)

CountFrom(i) == Cardinality({k \in i .. n : AboveAt(k)})

LEMMA Counts ==
    ASSUME history \in Seq(Sample), NEW i \in 1 .. n, NEW j \in i .. n
    PROVE  /\ CountFrom(i) \in Nat /\ CountFrom(j) \in Nat
           /\ CountFrom(j) <= CountFrom(i)
  <1> DEFINE A == {k \in i .. n : AboveAt(k)}
             B == {k \in j .. n : AboveAt(k)}
  <1>1. n \in Nat
    BY DEF n
  <1>2. IsFiniteSet(i .. n)
    BY <1>1, FS_Interval
  <1>3. A \in SUBSET (i .. n) /\ B \in SUBSET A
    OBVIOUS
  <1>4. IsFiniteSet(A) /\ IsFiniteSet(B) /\ Cardinality(B) <= Cardinality(A)
    BY <1>2, <1>3, FS_Subset
  <1> HIDE DEF A, B
  <1>5. Cardinality(A) \in Nat /\ Cardinality(B) \in Nat
    BY <1>4, FS_CardinalityType
  <1> QED  BY <1>4, <1>5 DEF CountFrom, A, B

LEMMA CountGrows ==
    ASSUME NEW m \in Nat, NEW s, Grown(m, s), NEW i \in 1 .. m
    PROVE  CountFrom(i)' = CountFrom(i) + (IF Above(s, MinRoi) THEN 1 ELSE 0)
  <1> DEFINE A == {k \in i .. m : AboveAt(k)}
             B == {k \in i .. m + 1 : AboveAt(k)'}
  <1>1. IsFiniteSet(A)
    <2>1. IsFiniteSet(i .. m) /\ A \in SUBSET (i .. m)
      BY FS_Interval
    <2> QED  BY <2>1, FS_Subset
  <1>2. B = IF Above(s, MinRoi) THEN A \cup {m + 1} ELSE A
    <2>1. \A k : k \in i .. m + 1 <=> k \in i .. m \/ k = m + 1
      OBVIOUS
    <2> QED  BY <2>1, PastStays
  <1>3. m + 1 \notin A
    OBVIOUS
  <1> HIDE DEF A, B
  <1>4. Cardinality(A) \in Nat
    BY <1>1, FS_CardinalityType
  <1>5. Cardinality(A \cup {m + 1}) = Cardinality(A) + 1
    BY <1>1, <1>3, FS_AddElement
  <1>6. Cardinality(B) = Cardinality(A) + (IF Above(s, MinRoi) THEN 1 ELSE 0)
    BY <1>2, <1>4, <1>5
  <1>7. n' = m + 1 /\ n = m
    BY HistoryGrows DEF Grown
  <1>8. CountFrom(i) = Cardinality(A)
    BY <1>7 DEF CountFrom, A
  <1>9. CountFrom(i)' = Cardinality(B)
    BY <1>7 DEF CountFrom, B
  <1> QED  BY <1>6, <1>8, <1>9

LEMMA CountBegins ==
    ASSUME NEW m \in Nat, NEW s, Grown(m, s), Above(s, MinRoi)
    PROVE  CountFrom(m + 1)' = 1
  <1>1. n' = m + 1 /\ AboveAt(m + 1)'
    BY HistoryGrows, PastStays
  <1>2. \A k : k \in m + 1 .. m + 1 <=> k = m + 1
    OBVIOUS
  <1>3. {k \in m + 1 .. n' : AboveAt(k)'} = {m + 1}
    BY <1>1, <1>2
  <1> QED  BY <1>3, FS_Singleton DEF CountFrom

(* The sample at i began the gap that is there at the end of the history:
   earlier readings are cut off by long dips. *)
Begun(i) ==
    /\ i \in 1 .. n
    /\ AboveAt(i)
    /\ ~LongDip(i, n)
    /\ \A j \in 1 .. i - 1 : AboveAt(j) => LongDip(j, n)

(* Then time and count from i decide: no later start is better. *)
BeginningDecides ==
    history \in Seq(Sample) /\ TimesGrow =>
        \A i \in 1 .. n :
            Begun(i) => (EarnedAt(n) <=> AboveAt(n) /\ Earned(history[i].ts, CountFrom(i), history[n]))

LEMMA BeginDecides == BeginningDecides
  <1> SUFFICES ASSUME history \in Seq(Sample), TimesGrow, NEW i \in 1 .. n, Begun(i)
               PROVE  EarnedAt(n) <=> AboveAt(n) /\ Earned(history[i].ts, CountFrom(i), history[n])
    BY DEF BeginningDecides
  <1> DEFINE wait == WaitBeforeFeed(history[n].roi)
  <1>1. n \in Nat /\ n \in 1 .. n /\ wait \in Int /\ MinSamples \in Int
    BY RulesAssumption DEF n, WaitBeforeFeed
  <1>2. \A j \in 1 .. n : history[j].ts \in Int
    <2>1. \A j \in 1 .. n : history[j] \in Sample
      BY DEF n
    <2>2. \A r \in Sample : r.ts \in Int
      BY DEF Sample
    <2> QED  BY <2>1, <2>2
  <1>3. \A j \in 1 .. n : Elapsed(j, n) = history[n].ts - history[j].ts
    BY DEF Elapsed
  <1>4. Earned(history[i].ts, CountFrom(i), history[n]) <=> Elapsed(i, n) >= wait /\ CountFrom(i) >= MinSamples
    BY <1>1, <1>3 DEF Earned, LastsFrom
  <1>5. EarnedAt(n) <=> AboveAt(n) /\ \E j \in 1 .. n : AboveAt(j) /\ ~LongDip(j, n)
                                      /\ Elapsed(j, n) >= wait /\ CountFrom(j) >= MinSamples
    BY DEF EarnedAt, CountFrom
  <1>6. ASSUME NEW j \in 1 .. n, AboveAt(j), ~LongDip(j, n), Elapsed(j, n) >= wait, CountFrom(j) >= MinSamples
        PROVE  Elapsed(i, n) >= wait /\ CountFrom(i) >= MinSamples
    <2>1. j \in i .. n
      BY <1>6 DEF Begun
    <2>2. history[i].ts <= history[j].ts
      BY <2>1 DEF TimesGrow
    <2>3. CountFrom(i) \in Nat /\ CountFrom(j) \in Nat /\ CountFrom(j) <= CountFrom(i)
      BY <2>1, Counts
    <2>4. Elapsed(i, n) = history[n].ts - history[i].ts /\ Elapsed(j, n) = history[n].ts - history[j].ts
      BY <1>3
    <2>5. history[n].ts \in Int /\ history[i].ts \in Int /\ history[j].ts \in Int
      BY <1>1, <1>2
    <2> HIDE DEF wait
    <2>6. Elapsed(i, n) >= wait
      BY <1>1, <1>6, <2>2, <2>4, <2>5
    <2>7. CountFrom(i) >= MinSamples
      BY <1>1, <1>6, <2>3
    <2> QED  BY <2>6, <2>7
  <1> HIDE DEF wait
  <1> QED  BY <1>4, <1>5, <1>6 DEF Begun

LEMMA BeginDecidesNext ==
    ASSUME NEW m \in Nat, NEW s, Grown(m, s), NEW i \in 1 .. m + 1, Begun(i)'
    PROVE  EarnedAt(m + 1)' <=> Above(s, MinRoi) /\ Earned(history'[i].ts, CountFrom(i)', s)
  <1>1. history' \in Seq(Sample) /\ TimesGrow' /\ n' = m + 1 /\ history'[m + 1] = s
    BY HistoryGrows
  <1>2. BeginningDecides'
    BY BeginDecides, PTL
  <1>3. EarnedAt(n)' <=> AboveAt(n)' /\ Earned(history'[i].ts, CountFrom(i)', s)
    BY <1>1, <1>2 DEF BeginningDecides
  <1>4. AboveAt(n)' <=> Above(s, MinRoi)
    BY <1>1 DEF AboveAt
  <1>5. EarnedAt(n)' <=> EarnedAt(m + 1)'
    BY <1>1 DEF EarnedAt
  <1> QED  BY <1>3, <1>4, <1>5

-------------------------------------------------------------------------------
(* The inductive invariant *)

Typed ==
    /\ history \in Seq(Sample) /\ TimesGrow
    /\ episode = None \/ episode \in Records
    /\ shownAt \in Nat /\ backAt \in Nat /\ leftAt \in Nat

(* No reading above the threshold counts any more. *)
NoGapYet == episode = None /\ \A i \in 1 .. n : AboveAt(i) => LongDip(i, n)

(* The record of a gap that is not shown yet knows when it began. *)
Waiting ==
    /\ episode \in Records /\ episode.phase = "candidate"
    /\ \E i \in 1 .. n :
          /\ episode.aboveSince = history[i].ts
          /\ episode.aboveSamples = CountFrom(i)
          /\ Watches(i) /\ Begun(i)

Unshown ==
    /\ shownAt = 0
    /\ \A j \in 1 .. n : ~EarnedAt(j)
    /\ NoGapYet \/ Waiting

ShownOnce ==
    /\ episode \in Records /\ episode.phase \in Shown
    /\ shownAt \in 1 .. n /\ EarnedAt(shownAt)
    /\ \A j \in 1 .. shownAt - 1 : ~EarnedAt(j)
    /\ episode.phase = "in_feed" => Watches(backAt)
    /\ episode.phase = "tracking" =>
          /\ backAt \in 1 .. n /\ leftAt \in 1 .. n
          /\ LongDip(backAt, leftAt) /\ ~LongDip(backAt, leftAt - 1)

IInv == Typed /\ (Unshown \/ ShownOnce)

(* A sample of the engine comes later than those before it. *)
LEMMA SamplesGrow ==
    ASSUME Numbers, Typed, NEW s \in Samples, history' = Append(history, s)
    PROVE  n \in Nat /\ Grown(n, s)
  <1>1. n \in Nat /\ \A i \in 1 .. n : history[i] \in Sample /\ history[i].ts \in Int
    <2>1. \A r \in Sample : r.ts \in Int
      BY DEF Sample
    <2> QED  BY <2>1 DEF Typed, n
  <1>2. Times \subseteq Int /\ \A t \in Times, i \in 1 .. n : history[i].ts <= t
    <2>1. CASE n = 0
      BY <2>1 DEF Times
    <2>2. CASE n # 0
      <3>1. n \in 1 .. n /\ Now = history[n].ts /\ Now \in Int
        BY <1>1, <2>2 DEF Now
      <3>2. \A i \in 1 .. n : history[i].ts <= Now
        BY <3>1 DEF Typed, TimesGrow
      <3>3. Times = {Now + d : d \in Delays}
        BY <2>2 DEF Times
      <3>4. \A d \in Delays : d \in Nat
        BY DEF Numbers
      <3> HIDE DEF Now
      <3>5. \A t \in Times : t \in Int /\ t >= Now
        BY <3>1, <3>3, <3>4
      <3> QED  BY <1>1, <3>1, <3>2, <3>5
    <2> QED  BY <2>1, <2>2
  <1>3. s \in Sample /\ s.ts \in Times
    <2>1. KnownExits \subseteq Reading
      BY DEF KnownExits, Reading, Numbers
    <2>2. Readings \subseteq Reading /\ {None} \subseteq Reading
      BY DEF Reading, Numbers
    <2> QED  BY <1>2, <2>1, <2>2 DEF Samples, Sample
  <1> QED  BY <1>1, <1>2, <1>3 DEF Grown, Typed

(* No gap, and one more sample. *)
LEMMA NoGapGoesOn ==
    ASSUME Numbers, NEW m \in Nat, NEW s, Grown(m, s), Unshown, NoGapYet,
           episode' = Step(episode, s).episode,
           shownAt' = (IF Step(episode, s).event = "entered_feed" THEN m + 1 ELSE 0),
           Step(episode, s).event = "entered_feed" => backAt' = m + 1
    PROVE  (Unshown \/ ShownOnce)'
  <1> DEFINE r == Step(episode, s)
  <1>1. n' = m + 1 /\ n = m /\ history'[m + 1] = s /\ s \in Sample
    BY HistoryGrows DEF Grown
  <1>2. /\ \A j \in 1 .. m : ~EarnedAt(j)'
        /\ \A j \in 1 .. m : AboveAt(j)' => LongDip(j, m + 1)'
    <2>1. \A j \in 1 .. m : AboveAt(j) => LongDip(j, m)
      BY <1>1 DEF NoGapYet
    <2>2. \A j \in 1 .. m : ~EarnedAt(j)
      BY <1>1 DEF Unshown
    <2> QED  BY <2>1, <2>2, PastStays, DipsLast
  <1>3. \A j : j \in 1 .. m + 1 <=> j \in 1 .. m \/ j = m + 1
    OBVIOUS
  <1>4. CASE ~Above(s, MinRoi)
    <2>1. r = Result(None, "none")
      BY <1>4, Zenon DEF Step, NoGapYet
    <2>2. episode' = None /\ shownAt' = 0
      BY <2>1, Results
    <2>3. ~AboveAt(m + 1)' /\ ~EarnedAt(m + 1)'
      <3>1. ~AboveAt(m + 1)'
        BY <1>4, PastStays
      <3> QED  BY <3>1 DEF EarnedAt
    <2> QED  BY <1>1, <1>2, <1>3, <2>2, <2>3 DEF Unshown, NoGapYet, LongDip
  <1>5. CASE Above(s, MinRoi)
    <2> DEFINE d == Detect(s)
               enough == Earned(s.ts, 1, s)
    <2>1. r = CandidateStep(d, s)
      BY <1>5, Zenon DEF Step, NoGapYet
    <2>2. d \in Records /\ d.phase = "candidate" /\ d.aboveSince = s.ts /\ d.aboveSamples = 0
      BY <1>1 DEF Detect, Records, Reading, Sample
    <2>3. Above(s, ExitLevel)
      BY <1>1, <1>5, AboveIsNotBelow
    <2> HIDE DEF d
    <2>4. /\ ~enough => /\ r.event = "none" /\ r.episode \in Records /\ r.episode.phase = "candidate"
                        /\ r.episode.aboveSince = s.ts /\ r.episode.aboveSamples = 1
                        /\ r.episode.belowSince = None
          /\ enough => /\ r.event = "entered_feed" /\ r.episode \in Records
                       /\ r.episode.phase = "in_feed" /\ r.episode.belowSince = None
      <3>1. d.aboveSamples + (IF Above(s, MinRoi) THEN 1 ELSE 0) = 1
        BY <1>5, <2>2
      <3> QED  BY <1>1, <1>5, <2>1, <2>2, <2>3, <3>1, CandidateCourse
    <2> HIDE DEF r
    <2>5. episode' = r.episode
      BY DEF r
    <2>6. episode'.belowSince = None
      BY <2>4, <2>5
    <2>7. Watches(m + 1)'
      BY <1>5, <2>6, WatchBegins
    <2>8. Begun(m + 1)'
      <3>1. AboveAt(m + 1)' /\ ~LongDip(m + 1, n)'
        BY <2>7 DEF Watches
      <3>2. \A j \in 1 .. (m + 1) - 1 : AboveAt(j)' => LongDip(j, n)'
        BY <1>1, <1>2 DEF LongDip
      <3> QED  BY <1>1, <3>1, <3>2 DEF Begun
    <2>9. CountFrom(m + 1)' = 1
      BY <1>5, CountBegins
    <2>10. EarnedAt(m + 1)' <=> enough
      BY <1>1, <1>5, <2>8, <2>9, BeginDecidesNext
    <2>11. CASE ~enough
      <3>1. Waiting'
        BY <1>1, <2>4, <2>5, <2>7, <2>8, <2>9, <2>11 DEF Waiting
      <3>2. shownAt' = 0
        BY <2>4, <2>11 DEF r
      <3> QED  BY <1>1, <1>2, <1>3, <2>10, <2>11, <3>1, <3>2 DEF Unshown
    <2>12. CASE enough
      <3>1. shownAt' = m + 1 /\ backAt' = m + 1
        BY <2>4, <2>12 DEF r
      <3>2. EarnedAt(m + 1)' /\ \A j \in 1 .. (m + 1) - 1 : ~EarnedAt(j)'
        BY <1>2, <2>10, <2>12
      <3>3. episode' \in Records /\ episode'.phase = "in_feed"
        BY <2>4, <2>5, <2>12
      <3>4. EarnedAt(shownAt)'
        BY <3>1, <3>2 DEF EarnedAt
      <3>5. Watches(backAt)'
        BY <2>7, <3>1 DEF Watches
      <3> QED  BY <1>1, <3>1, <3>2, <3>3, <3>4, <3>5 DEF ShownOnce, Shown
    <2> QED  BY <2>11, <2>12
  <1> QED  BY <1>4, <1>5

(* A candidate, and one more sample. *)
LEMMA CandidateGoesOn ==
    ASSUME Numbers, NEW m \in Nat, NEW s, Grown(m, s), Unshown, Waiting,
           episode' = Step(episode, s).episode,
           shownAt' = (IF Step(episode, s).event = "entered_feed" THEN m + 1 ELSE 0),
           Step(episode, s).event = "entered_feed" => backAt' = m + 1
    PROVE  (Unshown \/ ShownOnce)'
  <1> DEFINE r == Step(episode, s)
             more == IF Above(s, MinRoi) THEN 1 ELSE 0
             enough == Above(s, MinRoi) /\ Earned(episode.aboveSince, episode.aboveSamples + more, s)
  <1>1. n' = m + 1 /\ n = m /\ history'[m + 1] = s /\ s \in Sample
    BY HistoryGrows DEF Grown
  <1>2. PICK i \in 1 .. m :
           /\ episode.aboveSince = history[i].ts
           /\ episode.aboveSamples = CountFrom(i)
           /\ Watches(i) /\ Begun(i)
    BY <1>1 DEF Waiting
  <1>3. episode \in Records /\ episode # None /\ r = CandidateStep(episode, s)
    BY DEF Waiting, Numbers, Step
  <1>4. /\ \A j \in 1 .. m : ~EarnedAt(j)'
        /\ \A j \in 1 .. i - 1 : AboveAt(j)' => LongDip(j, m + 1)'
    <2>1. \A j \in 1 .. i - 1 : j \in 1 .. m /\ (AboveAt(j) => LongDip(j, m))
      BY <1>1, <1>2 DEF Begun
    <2>2. \A j \in 1 .. m : ~EarnedAt(j)
      BY <1>1 DEF Unshown
    <2> QED  BY <2>1, <2>2, PastStays, DipsLast
  <1>5. \A j : j \in 1 .. m + 1 <=> j \in 1 .. m \/ j = m + 1
    OBVIOUS
  <1>6. history'[i].ts = episode.aboveSince /\ CountFrom(i)' = episode.aboveSamples + more
    BY <1>2, HistoryGrows, CountGrows
  <1>7. ASSUME Watches(i)' PROVE Begun(i)'
    <2>1. n' = m + 1 /\ \A j \in 1 .. i - 1 : AboveAt(j)' => LongDip(j, n)'
      BY <1>1, <1>4 DEF LongDip
    <2> QED  BY <1>7, <2>1 DEF Begun, Watches
  <1>8. CASE ~Above(s, ExitLevel)
    <2>1. ~AboveAt(m + 1)' /\ ~EarnedAt(m + 1)' /\ more = 0
      <3>1. ~AboveAt(m + 1)' /\ ~Above(s, MinRoi)
        BY <1>1, <1>8, PastStays, AboveIsNotBelow
      <3> QED  BY <3>1 DEF EarnedAt
    <2>2. r.event = "none" /\ r.episode = IF DippedOut(episode, s) THEN None ELSE Dip(episode, s)
      BY <1>1, <1>3, <1>8, CandidateCourse DEF Waiting
    <2>3. shownAt' = 0
      BY <2>2
    <2>4. CASE DippedOut(episode, s)
      <3>1. episode' = None
        BY <2>2, <2>4
      <3>2. \A j \in 1 .. m : AboveAt(j)' => LongDip(j, m + 1)'
        BY <1>2, <1>8, <2>4, WatchDips, PastStays
      <3>3. NoGapYet'
        BY <1>1, <1>5, <2>1, <3>1, <3>2 DEF NoGapYet, LongDip
      <3> QED  BY <1>1, <1>4, <1>5, <2>1, <2>3, <3>3 DEF Unshown
    <2>5. CASE ~DippedOut(episode, s)
      <3>1. episode' = Dip(episode, s)
        BY <2>2, <2>5
      <3>2. /\ episode' \in Records /\ episode'.phase = "candidate"
            /\ episode'.aboveSince = episode.aboveSince /\ episode'.aboveSamples = episode.aboveSamples
            /\ episode'.belowSince = SinceOr(episode.belowSince, s)
        BY <1>1, <1>3, <3>1, DipIsRecord DEF Waiting
      <3>3. Watches(i)'
        BY <1>2, <1>8, <2>5, <3>2, WatchDips
      <3>4. CountFrom(i)' = episode.aboveSamples
        <4>1. episode.aboveSamples \in Nat
          BY <1>3 DEF Records
        <4> QED  BY <1>6, <2>1, <4>1
      <3>5. Waiting'
        BY <1>1, <1>6, <1>7, <3>2, <3>3, <3>4 DEF Waiting
      <3> QED  BY <1>1, <1>4, <1>5, <2>1, <2>3, <3>5 DEF Unshown
    <2> QED  BY <2>4, <2>5
  <1>9. CASE Above(s, ExitLevel)
    <2>1. /\ ~enough => /\ r.event = "none" /\ r.episode \in Records /\ r.episode.phase = "candidate"
                        /\ r.episode.aboveSince = episode.aboveSince
                        /\ r.episode.aboveSamples = episode.aboveSamples + more
                        /\ r.episode.belowSince = None
          /\ enough => /\ r.event = "entered_feed" /\ r.episode \in Records
                       /\ r.episode.phase = "in_feed" /\ r.episode.belowSince = None
      BY <1>1, <1>3, <1>9, CandidateCourse DEF Waiting
    <2> HIDE DEF r
    <2>2. episode' = r.episode /\ episode'.belowSince = None
      BY <2>1 DEF r
    <2>3. Watches(i)' /\ Begun(i)'
      BY <1>2, <1>7, <1>9, <2>2, WatchGoesOn
    <2>4. EarnedAt(m + 1)' <=> enough
      BY <1>6, <2>3, BeginDecidesNext
    <2> HIDE DEF enough, more
    <2>5. CASE ~enough
      <3>1. Waiting'
        BY <1>1, <1>6, <2>1, <2>2, <2>3, <2>5 DEF Waiting
      <3>2. shownAt' = 0
        BY <2>1, <2>5 DEF r
      <3> QED  BY <1>1, <1>4, <1>5, <2>4, <2>5, <3>1, <3>2 DEF Unshown
    <2>6. CASE enough
      <3>1. shownAt' = m + 1 /\ backAt' = m + 1
        BY <2>1, <2>6 DEF r
      <3>2. EarnedAt(m + 1)' /\ \A j \in 1 .. (m + 1) - 1 : ~EarnedAt(j)'
        BY <1>4, <2>4, <2>6
      <3>3. episode' \in Records /\ episode'.phase = "in_feed"
        BY <2>1, <2>2, <2>6
      <3>4. EarnedAt(shownAt)'
        BY <3>1, <3>2 DEF EarnedAt
      <3>5. Watches(backAt)'
        <4>1. Watches(m + 1)'
          BY <2>2, <2>6, WatchBegins DEF enough
        <4> QED  BY <3>1, <4>1 DEF Watches
      <3> QED  BY <1>1, <3>1, <3>2, <3>3, <3>4, <3>5 DEF ShownOnce, Shown
    <2> QED  BY <2>5, <2>6
  <1> QED  BY <1>8, <1>9

(* A shown gap that is not over, and one more sample. *)
LEMMA ShownGoesOn ==
    ASSUME Numbers, NEW m \in Nat, NEW s, Grown(m, s), ShownOnce,
           Step(episode, s).event # "ended", episode' = Step(episode, s).episode, shownAt' = shownAt,
           backAt' = (IF Step(episode, s).event = "entered_feed" THEN m + 1 ELSE backAt),
           leftAt' = (IF Step(episode, s).event = "left_feed" THEN m + 1 ELSE leftAt)
    PROVE  ShownOnce'
  <1> DEFINE r == Step(episode, s)
  <1>1. n' = m + 1 /\ n = m /\ s \in Sample
    BY HistoryGrows DEF Grown
  <1>2. shownAt' \in 1 .. n' /\ EarnedAt(shownAt)' /\ \A j \in 1 .. shownAt' - 1 : ~EarnedAt(j)'
    <2>1. shownAt \in 1 .. m /\ EarnedAt(shownAt) /\ \A j \in 1 .. shownAt - 1 : j \in 1 .. m /\ ~EarnedAt(j)
      BY <1>1 DEF ShownOnce
    <2>2. PICK at \in 1 .. m : at = shownAt
      BY <2>1
    <2>3. EarnedAt(at)
      BY <2>1, <2>2 DEF EarnedAt
    <2>4. EarnedAt(at)' /\ \A j \in 1 .. shownAt - 1 : ~EarnedAt(j)'
      BY <2>1, <2>3, PastStays
    <2>5. EarnedAt(shownAt)'
      BY <2>2, <2>4 DEF EarnedAt
    <2> QED  BY <1>1, <2>1, <2>4, <2>5
  <1>3. SUFFICES /\ episode' \in Records /\ episode'.phase \in Shown
                 /\ episode'.phase = "in_feed" => Watches(backAt)'
                 /\ episode'.phase = "tracking" =>
                       /\ backAt' \in 1 .. n' /\ leftAt' \in 1 .. n'
                       /\ LongDip(backAt, leftAt)' /\ ~LongDip(backAt, leftAt - 1)'
    BY <1>2 DEF ShownOnce
  <1>4. CASE episode.phase = "in_feed"
    <2>1. PICK back \in 1 .. m : back = backAt /\ Watches(back)
      BY <1>1, <1>4 DEF ShownOnce, Watches
    <2>2. \/ /\ Above(s, ExitLevel) /\ r.event = "none"
             /\ r.episode \in Records /\ r.episode.phase = "in_feed" /\ r.episode.belowSince = None
          \/ /\ ~Above(s, ExitLevel) /\ DippedOut(episode, s) /\ r.event = "left_feed"
             /\ r.episode \in Records /\ r.episode.phase = "tracking"
          \/ /\ ~Above(s, ExitLevel) /\ ~DippedOut(episode, s) /\ r.event = "none"
             /\ r.episode \in Records /\ r.episode.phase = "in_feed"
             /\ r.episode.belowSince = SinceOr(episode.belowSince, s)
      BY <1>1, <1>4, InFeedCourse DEF ShownOnce
    <2>3. ASSUME r.event = "none", Watches(back)' PROVE Watches(backAt)'
      BY <2>1, <2>3 DEF Watches
    <2>4. CASE /\ Above(s, ExitLevel) /\ r.event = "none"
               /\ r.episode \in Records /\ r.episode.phase = "in_feed" /\ r.episode.belowSince = None
      <3>1. Watches(back)'
        BY <2>1, <2>4, WatchGoesOn
      <3> QED  BY <2>3, <2>4, <3>1 DEF Shown
    <2>5. CASE /\ ~Above(s, ExitLevel) /\ DippedOut(episode, s) /\ r.event = "left_feed"
               /\ r.episode \in Records /\ r.episode.phase = "tracking"
      <3>1. LongDip(back, m + 1)'
        BY <2>1, <2>5, WatchDips
      <3>2. ~LongDip(back, m)'
        BY <1>1, <2>1, PastStays DEF Watches
      <3>3. backAt' = back /\ leftAt' = m + 1
        BY <2>1, <2>5
      <3>4. LongDip(backAt, leftAt)' /\ ~LongDip(backAt, leftAt - 1)'
        <4>1. (m + 1) - 1 = m
          OBVIOUS
        <4> QED  BY <3>1, <3>2, <3>3, <4>1 DEF LongDip
      <3> QED  BY <1>1, <2>5, <3>3, <3>4 DEF Shown
    <2>6. CASE /\ ~Above(s, ExitLevel) /\ ~DippedOut(episode, s) /\ r.event = "none"
               /\ r.episode \in Records /\ r.episode.phase = "in_feed"
               /\ r.episode.belowSince = SinceOr(episode.belowSince, s)
      <3>1. Watches(back)'
        BY <2>1, <2>6, WatchDips
      <3> QED  BY <2>3, <2>6, <3>1 DEF Shown
    <2> QED  BY <2>2, <2>4, <2>5, <2>6
  <1>5. CASE episode.phase = "tracking"
    <2>1. \/ /\ Above(s, MinRoi) /\ r.event = "entered_feed"
             /\ r.episode \in Records /\ r.episode.phase = "in_feed" /\ r.episode.belowSince = None
          \/ r.event = "none" /\ r.episode \in Records /\ r.episode.phase = "tracking"
      BY <1>1, <1>5, TrackingCourse DEF ShownOnce
    <2>2. CASE /\ Above(s, MinRoi) /\ r.event = "entered_feed"
               /\ r.episode \in Records /\ r.episode.phase = "in_feed" /\ r.episode.belowSince = None
      <3>1. Watches(m + 1)' /\ backAt' = m + 1
        BY <2>2, WatchBegins
      <3>2. Watches(backAt)'
        BY <3>1 DEF Watches
      <3> QED  BY <2>2, <3>2 DEF Shown
    <2>3. CASE r.event = "none" /\ r.episode \in Records /\ r.episode.phase = "tracking"
      <3>1. PICK back \in 1 .. m, left \in 1 .. m :
               back = backAt /\ left = leftAt /\ LongDip(back, left) /\ ~LongDip(back, left - 1)
        BY <1>1, <1>5 DEF ShownOnce
      <3>2. LongDip(back, left)' /\ ~LongDip(back, left - 1)'
        <4>1. left \in 0 .. m /\ left - 1 \in 0 .. m
          OBVIOUS
        <4> QED  BY <3>1, <4>1, PastStays
      <3>3. backAt' = back /\ leftAt' = left
        BY <2>3, <3>1
      <3>4. LongDip(backAt, leftAt)' /\ ~LongDip(backAt, leftAt - 1)'
        BY <3>2, <3>3 DEF LongDip
      <3> QED  BY <1>1, <2>3, <3>3, <3>4 DEF Shown
    <2> QED  BY <2>1, <2>2, <2>3
  <1> QED  BY <1>4, <1>5 DEF ShownOnce, Shown

LEMMA AdvanceKeeps ==
    ASSUME Numbers, IInv, NEW s \in Samples, Advance(s)
    PROVE  IInv'
  <1>1. history' = Append(history, s) /\ episode' = Step(episode, s).episode
    BY DEF Advance
  <1>2. PICK m \in Nat : m = n /\ Grown(m, s)
    BY <1>1, SamplesGrow DEF IInv
  <1>3. /\ Step(episode, s).event # "ended"
        /\ shownAt' = (IF Step(episode, s).event = "entered_feed" /\ shownAt = 0 THEN m + 1 ELSE shownAt)
        /\ backAt' = (IF Step(episode, s).event = "entered_feed" THEN m + 1 ELSE backAt)
        /\ leftAt' = (IF Step(episode, s).event = "left_feed" THEN m + 1 ELSE leftAt)
    BY <1>2 DEF Advance
  <1>4. (Unshown \/ ShownOnce)'
    <2>1. CASE Unshown
      <3>1. shownAt' = (IF Step(episode, s).event = "entered_feed" THEN m + 1 ELSE 0)
        BY <1>3, <2>1 DEF Unshown
      <3> QED  BY <1>1, <1>2, <1>3, <2>1, <3>1, NoGapGoesOn, CandidateGoesOn DEF Unshown
    <2>2. CASE ShownOnce
      <3>1. shownAt' = shownAt
        BY <1>2, <1>3, <2>2 DEF ShownOnce
      <3> QED  BY <1>1, <1>2, <1>3, <2>2, <3>1, ShownGoesOn
    <2> QED  BY <2>1, <2>2 DEF IInv
  <1>5. Typed'
    <2>1. history' \in Seq(Sample) /\ TimesGrow'
      BY <1>2, HistoryGrows
    <2>2. shownAt' \in Nat /\ backAt' \in Nat /\ leftAt' \in Nat
      BY <1>3 DEF IInv, Typed
    <2>3. episode' = None \/ episode' \in Records
      BY <1>4 DEF Unshown, NoGapYet, Waiting, ShownOnce
    <2> QED  BY <2>1, <2>2, <2>3 DEF Typed
  <1> QED  BY <1>4, <1>5 DEF IInv

LEMMA NothingIsSound ==
    Nothing(episode, history, shownAt, backAt, leftAt) => IInv
  <1> SUFFICES ASSUME Nothing(episode, history, shownAt, backAt, leftAt) PROVE IInv
    OBVIOUS
  <1>1. n = 0 /\ history \in Seq(Sample)
    BY DEF Nothing, n
  <1> QED  BY <1>1 DEF Nothing, IInv, Typed, TimesGrow, Unshown, NoGapYet

LEMMA NextKeeps ==
    ASSUME Numbers, IInv, [Next]_vars
    PROVE  IInv'
  <1>1. CASE \E s \in Samples : Advance(s)
    BY <1>1, AdvanceKeeps
  <1>2. CASE Nothing(episode', history', shownAt', backAt', leftAt')
    <2>1. (Nothing(episode, history, shownAt, backAt, leftAt) => IInv)'
      BY NothingIsSound, PTL
    <2>2. Nothing(episode, history, shownAt, backAt, leftAt)'
      BY <1>2 DEF Nothing
    <2> QED  BY <2>1, <2>2
  <1>3. CASE UNCHANGED vars
    <2>1. /\ history' = history /\ episode' = episode
          /\ shownAt' = shownAt /\ backAt' = backAt /\ leftAt' = leftAt
      BY <1>3 DEF vars
    <2>2. n' = n /\ (TimesGrow' <=> TimesGrow)
      BY <2>1 DEF TimesGrow, n
    <2>3. \A i : (AboveAt(i)' <=> AboveAt(i)) /\ (BelowAt(i)' <=> BelowAt(i))
      BY <2>1 DEF AboveAt, BelowAt
    <2>4. \A i, j : Elapsed(i, j)' = Elapsed(i, j)
      BY <2>1 DEF Elapsed
    <2>5. \A i, j : LongDip(i, j)' <=> LongDip(i, j)
      BY <2>3, <2>4 DEF LongDip
    <2>6. \A j : EarnedAt(j)' <=> EarnedAt(j)
      <3>1. \A i, j : {k \in i .. j : AboveAt(k)'} = {k \in i .. j : AboveAt(k)}
        BY <2>3
      <3> QED  BY <2>1, <2>3, <2>4, <2>5, <3>1 DEF EarnedAt
    <2>7. \A i : CountFrom(i)' = CountFrom(i)
      <3>1. \A i : {k \in i .. n' : AboveAt(k)'} = {k \in i .. n : AboveAt(k)}
        BY <2>2, <2>3
      <3> QED  BY <3>1 DEF CountFrom
    <2>8. LongDip(backAt, leftAt)' /\ ~LongDip(backAt, leftAt - 1)' <=> LongDip(backAt, leftAt) /\ ~LongDip(backAt, leftAt - 1)
      BY <2>1, <2>5 DEF LongDip
    <2>9. \A i : (Watches(i)' <=> Watches(i)) /\ (Begun(i)' <=> Begun(i))
      <3>1. \A i : (LongDip(i, n)' <=> LongDip(i, n)) /\ (BelowAt(n)' <=> BelowAt(n))
        BY <2>1, <2>2, <2>5 DEF LongDip, BelowAt
      <3> QED  BY <2>1, <2>2, <2>3, <2>5, <3>1 DEF Watches, Begun
    <2>10. (Unshown' <=> Unshown) /\ (Typed' <=> Typed)
      BY <2>1, <2>2, <2>5, <2>3, <2>6, <2>7, <2>9 DEF Unshown, NoGapYet, Waiting, Typed, LongDip
    <2>11. ShownOnce' <=> ShownOnce
      <3>1. (EarnedAt(shownAt)' <=> EarnedAt(shownAt)) /\ (Watches(backAt)' <=> Watches(backAt))
        BY <2>1, <2>6, <2>9 DEF EarnedAt, Watches
      <3> QED  BY <2>1, <2>2, <2>6, <2>8, <3>1 DEF ShownOnce
    <2> QED  BY <2>10, <2>11 DEF IInv
  <1> QED  BY <1>1, <1>2, <1>3 DEF Next, EndedBy, Finish, StartOver

LEMMA AlwaysSound == ASSUME Numbers PROVE Spec => []IInv
  <1>1. Init => IInv
    BY NothingIsSound DEF Init
  <1>2. IInv /\ [Next]_vars => IInv'
    BY NextKeeps
  <1> QED  BY <1>1, <1>2, PTL DEF Spec

-------------------------------------------------------------------------------
(* What follows of it *)

LEMMA SoundIsShownWhenEarned == IInv => ShownWhenEarned
  <1> DEFINE earned == {j \in 1 .. n : EarnedAt(j)}
  <1>1. CASE Unshown
    BY <1>1 DEF Unshown, ShownWhenEarned
  <1>2. CASE IInv /\ ShownOnce
    <2>1. n \in Nat
      BY <1>2 DEF IInv, Typed, n
    <2>2. shownAt \in earned /\ \A j \in earned : shownAt <= j
      BY <1>2, <2>1 DEF ShownOnce
    <2>3. \A j \in earned : (\A k \in earned : j <= k) => j = shownAt
      BY <2>1, <2>2
    <2> HIDE DEF earned
    <2>4. Min(earned) = shownAt
      BY <2>2, <2>3 DEF Min
    <2> QED  BY <2>2, <2>4 DEF ShownWhenEarned, earned
  <1> QED  BY <1>1, <1>2 DEF IInv

LEMMA SoundLeavesAfterLongDip == IInv => LeavesAfterLongDip
  <1>1. CASE Unshown
    BY <1>1 DEF Unshown, NoGapYet, Waiting, LeavesAfterLongDip, IsShown, Shown
  <1>2. CASE ShownOnce
    BY <1>2 DEF ShownOnce, LeavesAfterLongDip, IsShown, Shown, Watches
  <1> QED  BY <1>1, <1>2 DEF IInv

(* EpisodeRules: a gap comes into the feed at the very first sample at which
   the whole history says that it has lasted long enough with enough readings,
   though its record keeps one time, one count and the start of one dip. *)
THEOREM ShownAtFirstEarned == ASSUME Numbers PROVE Spec => []ShownWhenEarned
  BY SoundIsShownWhenEarned, AlwaysSound, PTL

(* It leaves the feed at the end of the first long dip since it came in, not
   before and not after, however many short dips there were. *)
THEOREM LeavesAtFirstLongDip == ASSUME Numbers PROVE Spec => []LeavesAfterLongDip
  BY SoundLeavesAfterLongDip, AlwaysSound, PTL
===============================================================================
