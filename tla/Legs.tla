-------------------------------- MODULE Legs --------------------------------
(***************************************************************************)
(* The pure decision table of app/core/legs.py: what to do once both legs  *)
(* of an opening pair were answered, and once a close attempt was          *)
(* answered.  Quantities are naturals: tokens counted in the smallest unit *)
(* both exchanges can represent.                                           *)
(*                                                                         *)
(* The Python functions return a list of actions that always has the shape *)
(*     orders to send, then one Mark..., then at most one RaiseAlert,      *)
(* so a plan here is a record with those three parts; the dispatcher       *)
(* (module Execution) performs them in that order.                         *)
(***************************************************************************)
EXTENDS Integers, Sequences

Sides == {"long", "short"}

Outcomes == {"filled", "partial", "rejected", "unknown"}

Lesser(a, b) == IF a <= b THEN a ELSE b

(* Mutant: rounds to the next step instead of the last one. *)
CeilToStep(qty, step) == ((qty + step - 1) \div step) * step

FloorToStep(qty, step) == (qty \div step) * step

(* CloseLeg(side, qty) and ReduceLeg(side, qty): both are one reduce-only order. *)
Trim(side, qty) == [side |-> side, qty |-> qty]

Plan(fixes, mark, qty, alert) ==
    [fixes |-> fixes, mark |-> mark, qty |-> qty, alert |-> alert]

Plans == [fixes : Seq([side : Sides, qty : Nat]), mark : {"query", "open", "failed"},
          qty : Nat, alert : {"none", "warning", "critical"}]

(* Mutant: the unknown leg is queried but nobody is told. *)
SilentQueryPlan == Plan(<<>>, "query", 0, "none")

(* QueryOrderStatus for every unknown leg and the alert leg_status_unknown. *)
QueryPlan == Plan(<<>>, "query", 0, "critical")

(* Mutant: reduces by what is kept instead of by what is too much. *)
ReduceByTarget(side, leg, target) ==
    IF leg.filled > target THEN <<Trim(side, target)>> ELSE <<>>

ReduceToTarget(side, leg, target) ==
    IF leg.filled > target THEN <<Trim(side, leg.filled - target)>> ELSE <<>>

(* legs.py decide_open: long and short are [outcome, filled] records. *)
DecideOpen(long, short, requested, step, min) ==
    LET target == FloorToStep(Lesser(long.filled, short.filled), step)
    IN IF "unknown" \in {long.outcome, short.outcome}
         THEN QueryPlan
       ELSE IF long.filled = requested /\ short.filled = requested
         THEN Plan(<<>>, "open", requested, "none")
       ELSE IF long.filled = 0 /\ short.filled = 0
         THEN Plan(<<>>, "failed", 0, "warning")
       ELSE IF long.filled = 0 \/ short.filled = 0
         THEN LET side == IF long.filled > 0 THEN "long" ELSE "short"
                  qty  == IF long.filled > 0 THEN long.filled ELSE short.filled
              IN Plan(<<Trim(side, qty)>>, "failed", 0, "critical")
       ELSE IF target < min \/ target = 0
         THEN Plan(<<Trim("long", long.filled), Trim("short", short.filled)>>,
                   "failed", 0, "critical")
       ELSE Plan(ReduceToTarget("long", long, target) \o ReduceToTarget("short", short, target),
                 "open", target, "warning")

(* legs.py decide_close: outcomes and what is left of the position, per side. *)
DecideClose(outcome, remaining, attempt, maxAttempts) ==
    LET open == {s \in Sides : remaining[s] > 0}
    IN IF \E s \in Sides : outcome[s] = "unknown" THEN "query"
       ELSE IF open = {} THEN "closed"
       ELSE IF attempt < maxAttempts THEN "retry"
       ELSE "lost"

-----------------------------------------------------------------------------
(* Properties of the plans *)

(* What a leg holds once the trade is open with the plan's quantity, or gone. *)
Kept(plan) == IF plan.mark = "open" THEN plan.qty ELSE 0

(* Each side is trimmed once, by exactly what it holds too much, or not at
   all when it holds what is kept: a plan whose orders all fill leaves both
   legs equal (legs.py, anti-goal 2). *)
Hedges(plan, filled) ==
    /\ \A i, j \in DOMAIN plan.fixes : plan.fixes[i].side = plan.fixes[j].side => i = j
    /\ \A s \in Sides :
         \/ /\ filled[s] = Kept(plan)
            /\ \A i \in DOMAIN plan.fixes : plan.fixes[i].side # s
         \/ /\ filled[s] > Kept(plan)
            /\ \E i \in DOMAIN plan.fixes : plan.fixes[i] = Trim(s, filled[s] - Kept(plan))

(* A plan that sends orders or leaves a leg undecided raises an alert, a
   CRITICAL one unless the pair stays open. *)
Alerts(plan) ==
    plan.fixes # <<>> \/ plan.mark = "query" =>
        plan.alert = IF plan.mark = "open" THEN "warning" ELSE "critical"
=============================================================================
