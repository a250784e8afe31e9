------------------------------- MODULE MCLegs --------------------------------
(* Every pair of answers up to MaxQty tokens is put to decide_open once.      *)
EXTENDS Legs

CONSTANT MaxQty     \* bound: tokens requested, step and minimum

VARIABLES longLeg, shortLeg, wanted, lot, least, plan

planVars == <<longLeg, shortLeg, wanted, lot, least, plan>>

NotAsked == [mark |-> "none"]

(* What an exchange can answer to an order of qty tokens. *)
Answers(qty) ==
    {[outcome |-> "unknown", filled |-> f] : f \in 0 .. qty}
        \cup {[outcome |-> IF f = qty THEN "filled" ELSE IF f > 0 THEN "partial" ELSE "rejected",
               filled |-> f] : f \in 0 .. qty}

PlanInit ==
    /\ wanted \in 1 .. MaxQty
    /\ lot \in 1 .. MaxQty
    /\ least \in 0 .. MaxQty
    /\ longLeg \in Answers(wanted)
    /\ shortLeg \in Answers(wanted)
    /\ plan = NotAsked

Ask ==
    /\ plan = NotAsked
    /\ plan' = DecideOpen(longLeg, shortLeg, wanted, lot, least)
    /\ UNCHANGED <<longLeg, shortLeg, wanted, lot, least>>

PlanSpec == PlanInit /\ [][Ask]_planVars

(* decide_open, whatever was filled: a resolved pair of legs ends equal. *)
PlanHedges ==
    plan.mark \in {"open", "failed"} =>
        /\ Hedges(plan, [s \in Sides |-> IF s = "long" THEN longLeg.filled ELSE shortLeg.filled])
        /\ plan.mark = "open" => plan.qty > 0 /\ (plan.qty >= least \/ plan.qty = wanted)

(* decide_open: no repair and no unknown leg goes unreported. *)
PlanAlerts == plan # NotAsked => Alerts(plan)
=============================================================================
