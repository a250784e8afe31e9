------------------------------ MODULE LegsProofs ------------------------------
(* What decide_open's plans do, for every quantity, step and minimum.          *)
EXTENDS Legs, SequenceTheorems, TLAPS

LEMMA FloorToStepRange ==
    ASSUME NEW qty \in Nat, NEW step \in Nat \ {0}
    PROVE  FloorToStep(qty, step) \in 0 .. qty
  BY Z3 DEF FloorToStep

(* The target of a partly filled pair is a natural, no larger than either leg. *)
LEMMA TargetRange ==
    ASSUME NEW a \in Nat, NEW b \in Nat, NEW step \in Nat \ {0}
    PROVE  /\ FloorToStep(Lesser(a, b), step) \in Nat
           /\ FloorToStep(Lesser(a, b), step) <= a
           /\ FloorToStep(Lesser(a, b), step) <= b
  <1>1. Lesser(a, b) \in Nat /\ Lesser(a, b) <= a /\ Lesser(a, b) <= b
    BY DEF Lesser
  <1>2. FloorToStep(Lesser(a, b), step) \in 0 .. Lesser(a, b)
    BY <1>1, FloorToStepRange
  <1> QED  BY <1>1, <1>2

LEMMA TrimType ==
    ASSUME NEW side \in Sides, NEW qty \in Nat
    PROVE  Trim(side, qty) \in [side : Sides, qty : Nat]
  BY DEF Trim

LEMMA ReduceType ==
    ASSUME NEW side \in Sides, NEW leg, leg.filled \in Nat, NEW target \in Nat
    PROVE  ReduceToTarget(side, leg, target) \in Seq([side : Sides, qty : Nat])
  <1>1. CASE leg.filled > target
    <2>1. leg.filled - target \in Nat
      BY <1>1
    <2>2. Trim(side, leg.filled - target) \in [side : Sides, qty : Nat]
      BY <2>1, TrimType
    <2>3. ReduceToTarget(side, leg, target) = <<Trim(side, leg.filled - target)>>
      BY <1>1 DEF ReduceToTarget
    <2> QED  BY <2>2, <2>3
  <1>2. CASE ~(leg.filled > target)
    BY <1>2 DEF ReduceToTarget
  <1> QED  BY <1>1, <1>2

(* Every plan of decide_open is a list of positive-or-zero trims, a mark and an alert. *)
LEMMA DecideOpenType ==
    ASSUME NEW long, NEW short, long.filled \in Nat, short.filled \in Nat,
           NEW requested \in Nat, NEW step \in Nat \ {0}, NEW min \in Nat
    PROVE  DecideOpen(long, short, requested, step, min) \in Plans
  <1> DEFINE target == FloorToStep(Lesser(long.filled, short.filled), step)
  <1> DEFINE T == [side : Sides, qty : Nat]
  <1>0. long.filled \in Nat /\ short.filled \in Nat /\ "long" \in Sides /\ "short" \in Sides
    BY DEF Sides
  <1>1. target \in Nat
    BY <1>0, TargetRange
  <1>2. /\ Trim("long", long.filled) \in T
        /\ Trim("short", short.filled) \in T
        /\ Trim("long", short.filled) \in T
        /\ Trim("short", long.filled) \in T
    BY <1>0, TrimType
  <1>3. /\ ReduceToTarget("long", long, target) \in Seq(T)
        /\ ReduceToTarget("short", short, target) \in Seq(T)
    BY <1>0, <1>1, ReduceType
  <1>4. ReduceToTarget("long", long, target) \o ReduceToTarget("short", short, target) \in Seq(T)
    BY <1>3
  <1>5. /\ <<>> \in Seq(T)
        /\ <<Trim("long", long.filled)>> \in Seq(T)
        /\ <<Trim("short", short.filled)>> \in Seq(T)
        /\ <<Trim("long", short.filled)>> \in Seq(T)
        /\ <<Trim("short", long.filled)>> \in Seq(T)
        /\ <<Trim("long", long.filled), Trim("short", short.filled)>> \in Seq(T)
    BY <1>2
  <1> HIDE DEF target, T
  <1>6. ASSUME NEW f \in Seq(T), NEW m \in {"query", "open", "failed"}, NEW q \in Nat,
               NEW a \in {"none", "warning", "critical"}
        PROVE  Plan(f, m, q, a) \in Plans
    BY DEF Plan, Plans, T
  <1> QED
    BY <1>0, <1>1, <1>4, <1>5, <1>6 DEF DecideOpen, QueryPlan, target

(* One leg holds too much, the other what is kept: one trim makes them equal. *)
LEMMA OneTrimHedges ==
    ASSUME NEW plan, NEW filled \in [Sides -> Nat], Kept(plan) \in Nat,
           NEW side \in Sides, NEW other \in Sides, side # other,
           filled[side] > Kept(plan), filled[other] = Kept(plan),
           plan.fixes = <<Trim(side, filled[side] - Kept(plan))>>
    PROVE  Hedges(plan, filled)
  <1>1. /\ DOMAIN plan.fixes = {1}
        /\ plan.fixes[1] = Trim(side, filled[side] - Kept(plan))
        /\ plan.fixes[1].side = side
    BY DEF Trim
  <1>2. \A s \in Sides : s = side \/ s = other
    BY DEF Sides
  <1> QED  BY <1>1, <1>2 DEF Hedges

(* Both legs hold too much: one trim each. *)
LEMMA TwoTrimsHedge ==
    ASSUME NEW plan, NEW filled \in [Sides -> Nat], Kept(plan) \in Nat,
           filled["long"] > Kept(plan), filled["short"] > Kept(plan),
           plan.fixes = <<Trim("long", filled["long"] - Kept(plan)),
                          Trim("short", filled["short"] - Kept(plan))>>
    PROVE  Hedges(plan, filled)
  <1>1. /\ DOMAIN plan.fixes = {1, 2}
        /\ plan.fixes[1] = Trim("long", filled["long"] - Kept(plan))
        /\ plan.fixes[2] = Trim("short", filled["short"] - Kept(plan))
        /\ plan.fixes[1].side = "long" /\ plan.fixes[2].side = "short"
    BY DEF Trim
  <1>2. \A s \in Sides : s = "long" \/ s = "short"
    BY DEF Sides
  <1> QED  BY <1>1, <1>2 DEF Hedges

LEMMA JoinTrims ==
    ASSUME NEW a, NEW b
    PROVE  /\ <<a>> \o <<b>> = <<a, b>>
           /\ <<a>> \o <<>> = <<a>>
           /\ <<>> \o <<b>> = <<b>>
  <1> DEFINE S == {a, b}
  <1>1. <<a>> \in Seq(S) /\ <<b>> \in Seq(S) /\ <<a, b>> \in Seq(S)
    OBVIOUS
  <1>2. <<a>> \o <<>> = <<a>> /\ <<>> \o <<b>> = <<b>>
    BY <1>1, ConcatEmptySeq
  <1>3. /\ <<a>> \o <<b>> \in Seq(S)
        /\ Len(<<a>> \o <<b>>) = 2
        /\ \A i \in 1 .. 2 : (<<a>> \o <<b>>)[i] = IF i <= 1 THEN <<a>>[i] ELSE <<b>>[i - 1]
    BY <1>1, ConcatProperties
  <1>4. \A i \in 1 .. 2 : (<<a>> \o <<b>>)[i] = <<a, b>>[i]
    BY <1>3
  <1>5. <<a>> \o <<b>> = <<a, b>>
    BY <1>1, <1>3, <1>4, SeqEqual
  <1> QED  BY <1>2, <1>5

(* decide_open never plans to leave the legs unequal: whatever was filled on
   either side, a plan that is not a query trims each leg once, by exactly
   what it holds too much. *)
THEOREM DecideOpenHedges ==
    ASSUME NEW long, NEW short, long.filled \in Nat, short.filled \in Nat,
           NEW requested \in Nat, NEW step \in Nat \ {0}, NEW min \in Nat,
           NEW filled, filled = [s \in Sides |-> IF s = "long" THEN long.filled ELSE short.filled],
           NEW plan, plan = DecideOpen(long, short, requested, step, min),
           plan.mark # "query"
    PROVE  Hedges(plan, filled)
  <1> DEFINE target == FloorToStep(Lesser(long.filled, short.filled), step)
  <1> DEFINE cutL == ReduceToTarget("long", long, target)
  <1> DEFINE cutS == ReduceToTarget("short", short, target)
  <1>0. /\ long.filled \in Nat /\ short.filled \in Nat
        /\ filled["long"] = long.filled /\ filled["short"] = short.filled
        /\ Sides = {"long", "short"} /\ filled \in [Sides -> Nat]
    BY DEF Sides
  <1>1. target \in Nat /\ target <= long.filled /\ target <= short.filled
    BY <1>0, TargetRange
  <1> HIDE DEF target
  <1>2. ~("unknown" \in {long.outcome, short.outcome})
    BY DEF DecideOpen, QueryPlan, Plan
  <1>3. CASE long.filled = requested /\ short.filled = requested
    <2>1. plan = Plan(<<>>, "open", requested, "none")
      BY <1>2, <1>3 DEF DecideOpen
    <2> QED  BY <1>0, <1>3, <2>1 DEF Hedges, Kept, Plan
  <1>4. CASE /\ ~(long.filled = requested /\ short.filled = requested)
             /\ long.filled = 0 /\ short.filled = 0
    <2>1. plan = Plan(<<>>, "failed", 0, "warning")
      BY <1>2, <1>4 DEF DecideOpen
    <2> QED  BY <1>0, <1>4, <2>1 DEF Hedges, Kept, Plan
  <1>5. CASE /\ ~(long.filled = requested /\ short.filled = requested)
             /\ long.filled > 0 /\ short.filled = 0
    <2>1. plan = Plan(<<Trim("long", long.filled)>>, "failed", 0, "critical")
      BY <1>0, <1>2, <1>5 DEF DecideOpen
    <2>2. Kept(plan) = 0 /\ plan.fixes = <<Trim("long", filled["long"] - 0)>>
      BY <1>0, <2>1 DEF Kept, Plan
    <2> QED  BY <1>0, <1>5, <2>2, OneTrimHedges
  <1>6. CASE /\ ~(long.filled = requested /\ short.filled = requested)
             /\ long.filled = 0 /\ short.filled > 0
    <2>1. plan = Plan(<<Trim("short", short.filled)>>, "failed", 0, "critical")
      BY <1>0, <1>2, <1>6 DEF DecideOpen
    <2>2. Kept(plan) = 0 /\ plan.fixes = <<Trim("short", filled["short"] - 0)>>
      BY <1>0, <2>1 DEF Kept, Plan
    <2> QED  BY <1>0, <1>6, <2>2, OneTrimHedges
  <1>7. CASE /\ ~(long.filled = requested /\ short.filled = requested)
             /\ long.filled > 0 /\ short.filled > 0
             /\ target < min \/ target = 0
    <2>1. plan = Plan(<<Trim("long", long.filled), Trim("short", short.filled)>>,
                      "failed", 0, "critical")
      BY <1>0, <1>2, <1>7 DEF DecideOpen, target
    <2>2. /\ Kept(plan) = 0
          /\ plan.fixes = <<Trim("long", filled["long"] - 0), Trim("short", filled["short"] - 0)>>
      BY <1>0, <2>1 DEF Kept, Plan
    <2> QED  BY <1>0, <1>7, <2>2, TwoTrimsHedge
  <1>8. CASE /\ ~(long.filled = requested /\ short.filled = requested)
             /\ long.filled > 0 /\ short.filled > 0
             /\ ~(target < min \/ target = 0)
    <2>1. plan = Plan(cutL \o cutS, "open", target, "warning")
      BY <1>0, <1>2, <1>8 DEF DecideOpen, target
    <2>2. cutL = IF long.filled > target THEN <<Trim("long", long.filled - target)>> ELSE <<>>
      BY DEF ReduceToTarget
    <2>3. cutS = IF short.filled > target THEN <<Trim("short", short.filled - target)>> ELSE <<>>
      BY DEF ReduceToTarget
    <2> HIDE DEF cutL, cutS
    <2>a. Kept(plan) = target /\ plan.fixes = cutL \o cutS
      BY <2>1 DEF Kept, Plan
    <2>4. CASE long.filled > target /\ short.filled > target
      <3>1. plan.fixes = <<Trim("long", long.filled - target), Trim("short", short.filled - target)>>
        BY <2>a, <2>2, <2>3, <2>4, JoinTrims
      <3> QED  BY <1>0, <1>1, <2>a, <2>4, <3>1, TwoTrimsHedge
    <2>5. CASE long.filled > target /\ ~(short.filled > target)
      <3>1. plan.fixes = <<Trim("long", long.filled - target)>>
        BY <2>a, <2>2, <2>3, <2>5, JoinTrims
      <3>2. short.filled = target
        BY <1>0, <1>1, <2>5
      <3> QED  BY <1>0, <1>1, <2>a, <2>5, <3>1, <3>2, OneTrimHedges
    <2>6. CASE ~(long.filled > target) /\ short.filled > target
      <3>1. plan.fixes = <<Trim("short", short.filled - target)>>
        BY <2>a, <2>2, <2>3, <2>6, JoinTrims
      <3>2. long.filled = target
        BY <1>0, <1>1, <2>6
      <3> QED  BY <1>0, <1>1, <2>a, <2>6, <3>1, <3>2, OneTrimHedges
    <2>7. CASE ~(long.filled > target) /\ ~(short.filled > target)
      <3>1. plan.fixes = <<>>
        BY <2>a, <2>2, <2>3, <2>7
      <3>2. long.filled = target /\ short.filled = target
        BY <1>0, <1>1, <2>7
      <3> QED  BY <1>0, <2>a, <3>1, <3>2 DEF Hedges
    <2> QED  BY <2>4, <2>5, <2>6, <2>7
  <1> QED  BY <1>0, <1>3, <1>4, <1>5, <1>6, <1>7, <1>8

(* Nothing is sent and nothing is left undecided without an alert, and only a
   pair that stays open gets away with a warning. *)
THEOREM DecideOpenAlerts ==
    ASSUME NEW long, NEW short, long.filled \in Nat, short.filled \in Nat,
           NEW requested \in Nat, NEW step \in Nat \ {0}, NEW min \in Nat
    PROVE  Alerts(DecideOpen(long, short, requested, step, min))
  BY DEF Alerts, DecideOpen, QueryPlan, Plan
=============================================================================
