------------------------------- MODULE MCRecords ------------------------------
(***************************************************************************)
(* What the terminal keeps a record of and has to get right: the catalog   *)
(* of pairs, the open pairs, the life of a gap, the rows of a queue whose  *)
(* process may end, and the breaks of its links.  The five do not share    *)
(* state, so a behaviour follows one of them while the others rest in one  *)
(* of their initial states.                                                *)
(***************************************************************************)
EXTENDS Portfolio, Sequences

CONSTANTS
    Order, Listings, Quotes, MaxPriceGapPct, MaxIndexGapPct, RenamePerMille, Affixes,
    MaxRefreshes, MaxDecisions, MaxRestarts,                    \* of the catalog
    MaxSamples,                         \* of one gap
    Bad, MaxBatch, MaxRows, MaxOutages, MaxEnds,    \* of the queue
    Probed, FailuresBeforeDown, Hold, QuietStart, QuietEnd, Day, MaxTime    \* of the link monitor

VARIABLES
    focus,                                                                  \* the part followed
    lastGood, pairs, version, refresh, flagging, dbReady, activeRows, pairRows, decided, sheltered,
    moved, budget,                                                          \* Catalog
    episode, history, shownAt, backAt, leftAt,                              \* GapHistory
    sent, pending, files, spooled, ready, task, stage, stored, newest, refused, reachable, outages,
    ends,                                                                   \* WriteQueue
    clock, flushed, linkReachable, link, failures, warming, heldBack, broken, said,
    downSince                                                               \* OutageAlarms

catalogVars == <<lastGood, pairs, version, refresh, flagging, dbReady, activeRows, pairRows, decided, sheltered, moved, budget>>
gapVars == <<episode, history, shownAt, backAt, leftAt>>
queueVars == <<sent, pending, files, spooled, ready, task, stage, stored, newest, refused, reachable, outages, ends>>
linkVars == <<clock, flushed, linkReachable, link, failures, warming, heldBack, broken, said, downSince>>
allVars == <<focus, vars, catalogVars, gapVars, queueVars, linkVars>>

(* Two exchanges name one coin differently, a third counts it in thousands. *)
Listing(x, token, unit) == [exchange |-> x, symbol |-> token, token |-> token, unit |-> unit]

EnabledOrder == <<"a", "b", "c">>

Contracts == {Listing("a", "RAY", 1), Listing("b", "RAYSOL", 1), Listing("c", "RAY", 1000)}

LongNames == [RAY |-> {"RAYSOL"}, RAYSOL |-> {}]

QuotesOfToken == {[mid |-> 1000, mark |-> 1000, index |-> 1000], None}

OneLegEach == {<<"a", "long">>, <<"b", "short">>}

Catalogs == INSTANCE Catalog

Gaps == INSTANCE GapHistory WITH
    MinRoi <- 2, Hysteresis <- 1, FastMultiple <- 2, EnterAfter <- 3, FastAfter <- 1, MinSamples <- 2, ExitAfter <- 1,
    MaxLifetime <- 7, Readings <- {1, 2, 4}, Exits <- {0, 1}, Delays <- {1, 2}

Queue == INSTANCE WriteQueue WITH Ends <- {"shutdown", "crash"}

Links == INSTANCE OutageAlarms WITH
    now <- clock, reachable <- linkReachable, pending <- heldBack, Exchanges <- Probed, Db <- "db"

Parts == {"catalog", "portfolio", "gap", "queue", "links"}

(* The initial state a part rests in. *)
RestOf(part) ==
    CASE part = "catalog" -> dbReady = TRUE
      [] part = "queue" -> reachable = TRUE
      [] part = "links" -> linkReachable = Links!Subjects
      [] OTHER -> TRUE

Begin(part) == IF focus = part THEN TRUE ELSE RestOf(part)

InitAll ==
    /\ focus \in Parts
    /\ \A part \in Parts : Begin(part)
    /\ Catalogs!Init /\ Init /\ Gaps!Init /\ Queue!Init /\ Links!Init

CatalogStep ==
    /\ focus = "catalog" /\ Catalogs!Next
    /\ UNCHANGED <<focus, vars, gapVars, queueVars, linkVars>>

PortfolioStep ==
    /\ focus = "portfolio" /\ Next
    /\ UNCHANGED <<focus, catalogVars, gapVars, queueVars, linkVars>>

GapStep ==
    /\ focus = "gap" /\ Gaps!Next
    /\ UNCHANGED <<focus, vars, catalogVars, queueVars, linkVars>>

QueueStep ==
    /\ focus = "queue" /\ Queue!Next
    /\ UNCHANGED <<focus, vars, catalogVars, gapVars, linkVars>>

LinkStep ==
    /\ focus = "links" /\ Links!Next
    /\ UNCHANGED <<focus, vars, catalogVars, gapVars, queueVars>>

NextAll == CatalogStep \/ PortfolioStep \/ GapStep \/ QueueStep \/ LinkStep

SpecAll == InitAll /\ [][NextAll]_allVars
-----------------------------------------------------------------------------
(* The properties of the parts, stated in their modules; those of the pairs *)
(* come with Portfolio.                                                     *)
StoredDecisionsStand == Catalogs!StoredDecisionsStand

PairsOutliveFailures == Catalogs!PairsOutliveFailures

ShownWhenEarned == Gaps!ShownWhenEarned

LeavesAfterLongDip == Gaps!LeavesAfterLongDip

SpooledIsCounted == Queue!SpooledIsCounted

SpooledIsKept == Queue!SpooledIsKept

LastingBreakIsTold == Links!LastingBreakIsTold
=============================================================================
