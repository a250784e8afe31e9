------------------------------ MODULE GapHistory ------------------------------
(***************************************************************************)
(* One direction of one pair sampled over and over, with every sample      *)
(* kept, so that what Step decides from a few fields of its record can be  *)
(* held against what the whole history says.  A gap that ends takes its    *)
(* history with it: the next one starts from nothing.                      *)
(***************************************************************************)
EXTENDS Episodes, Sequences, FiniteSetsExt

CONSTANTS
    Readings,      \* ROI of a sample whose books were deep and fresh enough
    Exits,         \* exit spread of such a sample
    Delays,        \* time between two samples
    MaxSamples     \* bound: samples in the life of one gap

VARIABLES
    episode,   \* engine._episodes[key], None when the pair has no gap
    history,   \* every sample since the previous gap of this pair ended
    shownAt,   \* index of the sample that first brought the gap into the feed
    backAt,    \* index of the sample that last brought it into the feed
    leftAt     \* index of the sample at which it last left the feed

vars == <<episode, history, shownAt, backAt, leftAt>>

Nothing(e, h, s, b, l) == e = None /\ h = <<>> /\ s = 0 /\ b = 0 /\ l = 0

Init == Nothing(episode, history, shownAt, backAt, leftAt)

n == Len(history)
Now == IF n = 0 THEN 0 ELSE history[n].ts

IsShown == episode # None /\ episode.phase \in Shown

(* Only time that went by counts, so the first sample is at time 0. *)
Times == IF n = 0 THEN {0} ELSE {Now + d : d \in Delays}

(* Nothing looks at the exit spread of a gap that is not shown yet. *)
KnownExits == {None} \cup IF IsShown THEN Exits ELSE {}

Samples ==
    [ts : Times, roi : {None}, exit : {None}] \cup
    [ts : Times, roi : Readings, exit : KnownExits]

(* engine._measure and _advance *)
Advance(sample) ==
    LET r == Step(episode, sample) IN
    /\ n < MaxSamples
    /\ r.event # "ended"
    /\ episode' = r.episode
    /\ history' = Append(history, sample)
    /\ shownAt' = IF r.event = "entered_feed" /\ shownAt = 0 THEN n + 1 ELSE shownAt
    /\ backAt'  = IF r.event = "entered_feed" THEN n + 1 ELSE backAt
    /\ leftAt'  = IF r.event = "left_feed" THEN n + 1 ELSE leftAt

EndedBy(sample) ==
    /\ n < MaxSamples
    /\ Step(episode, sample).event = "ended"
    /\ Nothing(episode', history', shownAt', backAt', leftAt')

(* engine._finish: evicted or app_stop *)
Finish ==
    /\ episode # None
    /\ Nothing(episode', history', shownAt', backAt', leftAt')

(* A pair without a gap keeps no state: the window may start anew. *)
StartOver ==
    /\ episode = None
    /\ n = MaxSamples
    /\ Nothing(episode', history', shownAt', backAt', leftAt')

Next ==
    \/ \E sample \in Samples : Advance(sample) \/ EndedBy(sample)
    \/ Finish
    \/ StartOver

Spec == Init /\ [][Next]_vars

-----------------------------------------------------------------------------
(* What the history says *)

AboveAt(i) == Above(history[i], MinRoi)
BelowAt(i) == ~Above(history[i], ExitLevel)
Elapsed(i, j) == history[j].ts - history[i].ts

(* Somewhere in i .. j the readings stayed below the exit level for ExitAfter. *)
LongDip(i, j) ==
    \E first, last \in i .. j :
        /\ first <= last
        /\ \A k \in first .. last : BelowAt(k)
        /\ Elapsed(first, last) >= ExitAfter

(* A gap that has been there since some reading long enough, with enough
   readings above the threshold, and has it now. *)
EarnedAt(j) ==
    /\ AboveAt(j)
    /\ \E i \in 1 .. j :
        /\ AboveAt(i)
        /\ ~LongDip(i, j)
        /\ Elapsed(i, j) >= WaitBeforeFeed(history[j].roi)
        /\ Cardinality({k \in i .. j : AboveAt(k)}) >= MinSamples

-----------------------------------------------------------------------------
(* Properties *)

(* EpisodeRules: a gap comes into the feed at the very first sample at which
   it has lasted long enough with enough readings above the threshold, dips
   shorter than exit_after_ms notwithstanding - not earlier and not later. *)
ShownWhenEarned ==
    LET earned == {j \in 1 .. n : EarnedAt(j)}
    IN  shownAt = IF earned = {} THEN 0 ELSE Min(earned)

(* It leaves the feed at the end of the first dip of exit_after_ms since it came in. *)
LeavesAfterLongDip ==
    IsShown => IF episode.phase = "in_feed" THEN ~LongDip(backAt, n)
               ELSE LongDip(backAt, leftAt) /\ ~LongDip(backAt, leftAt - 1)
=============================================================================
