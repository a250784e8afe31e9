------------------------------- MODULE Episodes -------------------------------
(***************************************************************************)
(* The life of one gap between two exchanges as app/core/episodes.py       *)
(* decides it: candidate -> in_feed <-> tracking -> ended.  Step is the    *)
(* pure function the engine applies to every sample of the pair.           *)
(*                                                                         *)
(* Times are integers of one unit, ROI and exit spread integers of one     *)
(* unit; None is a missing reading or a field not set yet.                 *)
(***************************************************************************)
EXTENDS Integers

CONSTANTS
    None,
    MinRoi,         \* rules.min_roi_net_pct
    Hysteresis,     \* rules.exit_hysteresis_pct
    FastMultiple,   \* rules.fast_enter_multiple
    EnterAfter,     \* rules.enter_after_ms
    FastAfter,      \* rules.fast_enter_after_ms
    MinSamples,     \* rules.enter_min_samples
    ExitAfter,      \* rules.exit_after_ms
    MaxLifetime     \* rules.max_lifetime_ms

ASSUME NoneAssumption == None \notin Int

ASSUME RulesAssumption ==
    /\ MinRoi \in Int
    /\ Hysteresis \in Nat
    /\ FastMultiple \in Int
    /\ {EnterAfter, FastAfter, MinSamples, ExitAfter, MaxLifetime} \subseteq Nat

Shown  == {"in_feed", "tracking"}

(* What one call of step returns: the state to keep and the event to report. *)
Result(episode, event) == [episode |-> episode, event |-> event]

-----------------------------------------------------------------------------
(* Readings *)

ExitLevel == MinRoi - Hysteresis

Above(sample, level) == sample.roi # None /\ sample.roi >= level

LastsFrom(since, sample, ms) == sample.ts - since >= ms

SinceOr(since, sample) == IF since = None THEN sample.ts ELSE since

(* A gap far above the threshold waits less, never more. *)
WaitBeforeFeed(roi) ==
    IF /\ roi # None /\ FastMultiple > 0 /\ MinRoi > 0
       /\ roi >= MinRoi * FastMultiple /\ FastAfter < EnterAfter
    THEN FastAfter ELSE EnterAfter

Earned(since, samples, sample) ==
    /\ LastsFrom(since, sample, WaitBeforeFeed(sample.roi))
    /\ samples >= MinSamples

-----------------------------------------------------------------------------
(* The episode record *)

Detect(sample) ==
    [phase |-> "candidate", detected |-> sample.ts, aboveSince |-> sample.ts,
     aboveSamples |-> 0, belowSince |-> None, entered |-> None, roiAtEntry |-> None,
     peak |-> None, missed |-> None, reason |-> None]

TrackPeak(e, sample) ==
    IF sample.roi = None \/ (e.peak # None /\ sample.roi <= e.peak)
    THEN e ELSE [e EXCEPT !.peak = sample.roi]

(* The best result of entering at the first feed entry and leaving later. *)
TrackMissed(e, sample) ==
    LET pnl == e.roiAtEntry - sample.exit IN
    IF \/ e.roiAtEntry = None \/ sample.exit = None
       \/ e.missed # None /\ pnl <= e.missed
    THEN e ELSE [e EXCEPT !.missed = pnl]

EnterFeed(e, sample) ==
    LET first == e.entered = None IN
    [e EXCEPT !.phase = "in_feed", !.belowSince = None,
              !.entered = IF first THEN sample.ts ELSE @,
              !.roiAtEntry = IF first THEN sample.roi ELSE @]

(* end: for an outside reason too, and only once. *)
End(e, reason) ==
    IF e.phase = "ended" THEN Result(e, "none")
    ELSE Result([e EXCEPT !.phase = "ended", !.reason = reason], "ended")

-----------------------------------------------------------------------------
(* step, one operator per phase *)

BelowAgain(e, sample) == [e EXCEPT !.belowSince = SinceOr(@, sample)]

DippedOut(e, sample) == LastsFrom(SinceOr(e.belowSince, sample), sample, ExitAfter)

(* Mutant: two short dips add up to a long one. *)
CountReadingNoReset(e, sample) ==
    [e EXCEPT !.aboveSamples = IF Above(sample, MinRoi) THEN @ + 1 ELSE @]

CountReading(e, sample) ==
    [e EXCEPT !.belowSince = None,
              !.aboveSamples = IF Above(sample, MinRoi) THEN @ + 1 ELSE @]

CandidateStep(e, sample) ==
    LET counted == CountReading(e, sample) IN
    IF ~Above(sample, ExitLevel)
    THEN Result(IF DippedOut(e, sample) THEN None ELSE BelowAgain(e, sample), "none")
    ELSE IF Above(sample, MinRoi) /\ Earned(counted.aboveSince, counted.aboveSamples, sample)
    THEN Result(TrackPeak(EnterFeed(counted, sample), sample), "entered_feed")
    ELSE Result(counted, "none")

LeaveFeed(e) == [e EXCEPT !.phase = "tracking", !.belowSince = None, !.aboveSince = None]

(* Mutant: two short dips add up to a long one. *)
InFeedStepNoReset(e, sample) ==
    IF Above(sample, ExitLevel) THEN Result(e, "none")
    ELSE IF DippedOut(e, sample) THEN Result(LeaveFeed(e), "left_feed")
    ELSE Result(BelowAgain(e, sample), "none")

InFeedStep(e, sample) ==
    IF Above(sample, ExitLevel) THEN Result([e EXCEPT !.belowSince = None], "none")
    ELSE IF DippedOut(e, sample) THEN Result(LeaveFeed(e), "left_feed")
    ELSE Result(BelowAgain(e, sample), "none")

TrackingStep(e, sample) ==
    LET since   == SinceOr(e.aboveSince, sample)
        samples == e.aboveSamples + 1
    IN  IF sample.exit # None /\ sample.exit <= 0 THEN End(e, "converged")
        ELSE IF ~Above(sample, MinRoi)
        THEN Result([e EXCEPT !.aboveSince = None, !.aboveSamples = 0], "none")
        ELSE IF Earned(since, samples, sample)
        THEN Result(EnterFeed(e, sample), "entered_feed")
        ELSE Result([e EXCEPT !.aboveSince = since, !.aboveSamples = samples], "none")

Expired(e, sample) == LastsFrom(e.detected, sample, MaxLifetime)

ShownStep(e, sample) ==
    LET tracked == TrackMissed(TrackPeak(e, sample), sample) IN
    IF Expired(e, sample) THEN End(e, "timeout")
    ELSE IF e.phase = "in_feed" THEN InFeedStep(tracked, sample)
    ELSE TrackingStep(tracked, sample)

Step(e, sample) ==
    IF e = None
    THEN IF Above(sample, MinRoi) THEN CandidateStep(Detect(sample), sample)
                                  ELSE Result(None, "none")
    ELSE IF e.phase = "ended" THEN Result(e, "none")
    ELSE IF e.phase = "candidate" THEN CandidateStep(e, sample)
    ELSE ShownStep(e, sample)
=============================================================================
