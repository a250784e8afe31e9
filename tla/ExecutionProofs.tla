--------------------------- MODULE ExecutionProofs ---------------------------
(***************************************************************************)
(* Theorems about Execution for every quantity, step, minimum and number   *)
(* of attempts, and however many liquidations and restarts there are.      *)
(* TypeCorrect and RowCorrect hold whichever buttons the user has; the     *)
(* three theorems on the legs suppose that whole pairs are closed.         *)
(***************************************************************************)
EXTENDS Execution, LegsProofs

USE QtyAssumption, AttemptsAssumption, EnvironmentAssumption

(* TypeOK alone is not inductive: the opener takes the head of its plan. *)
IInv ==
    /\ TypeOK
    /\ opener.pc = "fixing" => opener.plan.fixes # <<>>

(* The part of TypeOK that the exchanges and the other tasks do not share. *)
OpenerSideOK ==
    /\ trade \in TradeType
    /\ visible \in BOOLEAN
    /\ row \in Statuses
    /\ alarmed \in BOOLEAN
    /\ order \in [Slots -> OrderType]
    /\ ticket \in [Slots -> TicketType]
    /\ opener \in OpenerType
    /\ opener.pc = "fixing" => opener.plan.fixes # <<>>

-----------------------------------------------------------------------------
(* Tickets and orders *)

LEMMA SlotsFacts ==
    /\ Entry \subseteq Slots
    /\ Exit \subseteq Slots
    /\ OpenerSlots \subseteq Slots
    /\ \A x \in Slots : x[2] \in Sides
    /\ \A x \in Slots, s \in Sides : <<x[1], s>> \in Slots
    /\ \A s \in Sides : <<"fix", s>> \in Slots /\ <<"open", s>> \in Slots /\ <<"close", s>> \in Slots
  BY DEF Entry, Exit, OpenerSlots, Slots

LEMMA RecordFacts ==
    /\ NoTicket \in TicketType
    /\ Sent \in TicketType
    /\ NoOrder \in OrderType
    /\ \A q \in Nat : Travelling(q) \in OrderType
  BY DEF NoTicket, Sent, NoOrder, Travelling, TicketType, OrderType, Outcomes

LEMMA TicketExcept ==
    ASSUME NEW t \in TicketType, NEW n \in Nat, NEW m \in Nat
    PROVE  [t EXCEPT !.notFound = n, !.tries = m] \in TicketType
  <1>1. [t EXCEPT !.notFound = n] \in TicketType
    BY DEF TicketType
  <1> QED  BY <1>1 DEF TicketType

LEMMA SendType ==
    ASSUME TypeOK, NEW slots, NEW qty \in [Sides -> Nat], Send(slots, qty)
    PROVE  order' \in [Slots -> OrderType] /\ ticket' \in [Slots -> TicketType]
  <1>1. \A x \in Slots : Travelling(qty[x[2]]) \in OrderType
    BY SlotsFacts, RecordFacts
  <1> QED  BY <1>1, RecordFacts DEF Send, TypeOK

LEMMA ForgetType ==
    ASSUME TypeOK, NEW slots, Forget(slots)
    PROVE  ticket' \in [Slots -> TicketType]
  BY RecordFacts DEF Forget, TypeOK

LEMMA AskAgainType ==
    ASSUME TypeOK, NEW tries \in Nat, AskAgain(tries)
    PROVE  ticket' \in [Slots -> TicketType]
  <1>1. \A x \in Slots : [ticket[x] EXCEPT !.tries = tries] \in TicketType
    BY DEF TypeOK, TicketType
  <1> QED  BY <1>1 DEF AskAgain, TypeOK

LEMMA LearnType ==
    ASSUME IInv, NEW x \in Slots, NEW t \in TicketType, Learn(x, t)
    PROVE  IInv'
  <1>1. ticket' \in [Slots -> TicketType]
    BY DEF Learn, IInv, TypeOK
  <1> QED  BY <1>1 DEF Learn, IInv, TypeOK, tradeVars, envVars

LEMMA KnownType ==
    ASSUME TypeOK, NEW x \in Slots
    PROVE  Known(x) \in TicketType
  BY DEF Known, OutcomeOf, NoTicket, TypeOK, TicketType, OrderType, Outcomes

-----------------------------------------------------------------------------
(* The actions of the exchanges and of the order tickets *)

LEMMA LandType ==
    ASSUME IInv, NEW x \in Slots, Land(x)
    PROVE  IInv'
  <1> DEFINE side == x[2]
  <1> DEFINE most == IF x \in Entry THEN order[x].qty ELSE Lesser(order[x].qty, pos[side])
  <1>1. PICK f \in 0 .. most :
          /\ order' = [order EXCEPT ![x].net = "done", ![x].filled = f]
          /\ pos' = [pos EXCEPT ![side] = IF x \in Entry THEN @ + f ELSE @ - f]
    BY DEF Land
  <1>2. side \in Sides /\ pos[side] \in Nat /\ order[x].qty \in Nat /\ order[x] \in OrderType
    BY SlotsFacts DEF IInv, TypeOK, OrderType
  <1>3. f \in Nat /\ (x \notin Entry => pos[side] - f \in Nat)
    BY <1>2 DEF Lesser
  <1>4. pos' \in [Sides -> Nat]
    <2>1. CASE x \in Entry
      <3>1. pos' = [pos EXCEPT ![side] = pos[side] + f] /\ pos[side] + f \in Nat
        BY <1>1, <1>2, <1>3, <2>1
      <3> QED  BY <3>1 DEF IInv, TypeOK
    <2>2. CASE x \notin Entry
      BY <1>1, <1>2, <1>3, <2>2 DEF IInv, TypeOK
    <2> QED  BY <2>1, <2>2
  <1>5. order' \in [Slots -> OrderType]
    BY <1>1, <1>2, <1>3 DEF IInv, TypeOK, OrderType
  <1> QED  BY <1>4, <1>5 DEF Land, IInv, TypeOK, tradeVars, envVars

LEMMA LiquidateType ==
    ASSUME IInv, NEW s \in Sides, Liquidate(s)
    PROVE  IInv'
  BY DEF Liquidate, IInv, TypeOK, tradeVars

LEMMA AnswersType ==
    ASSUME IInv, NEW x \in Slots, Answers(x)
    PROVE  IInv'
  <1>0. ticket[x] \in TicketType /\ TypeOK
    BY DEF IInv, TypeOK
  <1>1. CASE Acknowledge(x)
    BY <1>0, <1>1, KnownType, LearnType DEF Acknowledge
  <1>2. CASE TimeOut(x)
    <2>1. [NoTicket EXCEPT !.outcome = "unknown", !.tries = StatusAttempts] \in TicketType
      BY DEF NoTicket, TicketType, Outcomes
    <2> QED  BY <1>2, <2>1, LearnType DEF TimeOut
  <1>3. CASE QueryFound(x)
    BY <1>0, <1>3, KnownType, LearnType DEF QueryFound
  <1>4. CASE QueryNotFound(x)
    <2>1. [NoTicket EXCEPT !.outcome = "rejected"] \in TicketType
      BY DEF NoTicket, TicketType, Outcomes
    <2>2. ticket[x].notFound + 1 \in Nat /\ ticket[x].tries - 1 \in Nat
      BY <1>0, <1>4 DEF QueryNotFound, CanQuery, TicketType
    <2>3. [ticket[x] EXCEPT !.notFound = @ + 1, !.tries = @ - 1] \in TicketType
      BY <1>0, <2>2, TicketExcept
    <2> QED  BY <1>4, <2>1, <2>3, LearnType DEF QueryNotFound
  <1>5. CASE QueryUnclear(x)
    <2>1. ticket[x].tries - 1 \in Nat
      BY <1>0, <1>5 DEF QueryUnclear, CanQuery, TicketType
    <2>2. [ticket[x] EXCEPT !.notFound = 0, !.tries = @ - 1] \in TicketType
      BY <1>0, <2>1, TicketExcept
    <2> QED  BY <1>5, <2>2, LearnType DEF QueryUnclear
  <1> QED  BY <1>1, <1>2, <1>3, <1>4, <1>5 DEF Answers

-----------------------------------------------------------------------------
(* The opener *)

LEMMA PlanFacts ==
    ASSUME TypeOK
    PROVE  EntryPlan \in Plans
  <1>1. <<"open", "long">> \in Slots /\ <<"open", "short">> \in Slots
    BY DEF Slots, Sides
  <1>2. /\ ticket[<<"open", "long">>].filled \in Nat
        /\ ticket[<<"open", "short">>].filled \in Nat
        /\ trade.qty \in Nat
    BY <1>1 DEF TypeOK, TicketType, TradeType
  <1> QED  BY <1>2, DecideOpenType DEF EntryPlan

LEMMA QueryPlanType == QueryPlan \in Plans
  BY DEF QueryPlan, Plan, Plans

LEMMA TradeStatus ==
    ASSUME NEW t \in TradeType, NEW s \in Statuses
    PROVE  [t EXCEPT !.status = s] \in TradeType /\ [t EXCEPT !.status = s].status = s
  BY DEF TradeType

LEMMA TradeExcept ==
    ASSUME NEW t \in TradeType, NEW s \in Statuses, NEW q \in Nat
    PROVE  /\ [t EXCEPT !.status = s, !.qty = q] \in TradeType
           /\ [t EXCEPT !.status = s, !.qty = q].status = s
  BY TradeStatus DEF TradeType

OpenerPcs == {"idle", "waiting", "background", "fixing", "collecting", "done"}

LEMMA OpenerMoves ==
    ASSUME NEW o \in OpenerType, NEW pc \in OpenerPcs
    PROVE  [o EXCEPT !.pc = pc] \in OpenerType /\ [o EXCEPT !.pc = pc].pc = pc
  BY DEF OpenerType, OpenerPcs

LEMMA OpenerPlans ==
    ASSUME NEW o \in OpenerType, NEW pc \in OpenerPcs, NEW plan \in Plans
    PROVE  /\ [o EXCEPT !.pc = pc, !.plan = plan] \in OpenerType
           /\ [o EXCEPT !.pc = pc, !.plan = plan].pc = pc
           /\ [o EXCEPT !.pc = pc, !.plan = plan].plan = plan
  BY OpenerMoves DEF OpenerType

LEMMA OpenerWaits ==
    ASSUME NEW o \in OpenerType, NEW pc \in OpenerPcs, NEW rounds \in Nat
    PROVE  /\ [o EXCEPT !.pc = pc, !.rounds = rounds] \in OpenerType
           /\ [o EXCEPT !.pc = pc, !.rounds = rounds].pc = pc
           /\ [o EXCEPT !.rounds = rounds] \in OpenerType
           /\ [o EXCEPT !.rounds = rounds].pc = o.pc
  BY OpenerMoves DEF OpenerType

LEMMA FollowType ==
    ASSUME TypeOK, NEW plan \in Plans, NEW status \in Statuses, NEW saved \in Statuses,
           NEW raised \in BOOLEAN, Follow(plan, status, saved, raised)
    PROVE  OpenerSideOK'
  <1>0. opener \in OpenerType /\ trade \in TradeType /\ trade.qty \in Nat
    BY DEF TypeOK, TradeType
  <1>1. CASE plan.fixes = <<>>
    <2> DEFINE marked == IF status = "leg_lost" THEN status
                         ELSE IF plan.mark = "open" THEN "open" ELSE "leg_failed"
    <2>1. marked \in Statuses /\ plan.qty \in Nat
      BY DEF Statuses, ActiveStatuses, FinalStatuses, Plans
    <2>2. /\ trade' = [trade EXCEPT !.status = marked,
                                    !.qty = IF plan.mark = "open" THEN plan.qty ELSE @]
          /\ visible' = (visible /\ marked # "leg_failed")
          /\ row' = IF plan.mark = "failed" /\ marked = "leg_lost" THEN saved ELSE marked
          /\ alarmed' = (raised \/ plan.alert = "critical")
          /\ opener' = [opener EXCEPT !.pc = "collecting", !.plan = plan]
          /\ UNCHANGED <<order, ticket>>
      BY <1>1 DEF Follow, Conclude
    <2>3. trade' \in TradeType
      BY <1>0, <2>1, <2>2, TradeExcept
    <2>4. opener' \in OpenerType /\ opener'.pc = "collecting"
      BY <1>0, <2>2, OpenerPlans DEF OpenerPcs
    <2>5. visible' \in BOOLEAN /\ alarmed' \in BOOLEAN
      BY <2>2
    <2>6. row' \in Statuses
      BY <2>1, <2>2
    <2> QED  BY <2>2, <2>3, <2>4, <2>5, <2>6 DEF OpenerSideOK, TypeOK
  <1>2. CASE plan.fixes # <<>>
    <2>1. /\ Send({<<"fix", Head(plan.fixes).side>>}, [s \in Sides |-> Head(plan.fixes).qty])
          /\ trade' = [trade EXCEPT !.status = status]
          /\ row' = saved
          /\ alarmed' = raised
          /\ visible' = visible
          /\ opener' = [opener EXCEPT !.pc = "fixing", !.plan = plan]
      BY <1>2 DEF Follow
    <2>2. Head(plan.fixes) \in [side : Sides, qty : Nat]
      <3>1. plan.fixes \in Seq([side : Sides, qty : Nat])
        BY DEF Plans
      <3> QED  BY <1>2, <3>1, HeadTailProperties
    <2>3. order' \in [Slots -> OrderType] /\ ticket' \in [Slots -> TicketType]
      BY <2>1, <2>2, SendType
    <2>4. trade' \in TradeType
      BY <1>0, <2>1, TradeStatus
    <2>5. opener' \in OpenerType /\ opener'.plan = plan
      <3>1. "fixing" \in OpenerPcs
        BY DEF OpenerPcs
      <3>2. opener' = [opener EXCEPT !.pc = "fixing", !.plan = plan]
        BY <2>1
      <3>3. /\ [opener EXCEPT !.pc = "fixing", !.plan = plan] \in OpenerType
            /\ [opener EXCEPT !.pc = "fixing", !.plan = plan].plan = plan
        <4>1. [opener EXCEPT !.pc = "fixing"] \in OpenerType
          BY <1>0, <3>1, OpenerMoves
        <4> QED  BY <4>1 DEF OpenerType
      <3> QED  BY <3>2, <3>3
    <2> QED  BY <1>2, <2>1, <2>3, <2>4, <2>5 DEF OpenerSideOK, TypeOK
  <1> QED  BY <1>1, <1>2

LEMMA OpenerStep ==
    ASSUME IInv, OpenerSideOK',
           UNCHANGED <<pos, closer, envVars>>, busy' \in {"none", "opener", "closer"}
    PROVE  IInv'
  BY DEF IInv, TypeOK, OpenerSideOK, envVars

LEMMA ReleaseType ==
    ASSUME TypeOK, NEW task, Release(task)
    PROVE  busy' \in {"none", "opener", "closer"}
  BY DEF Release, TypeOK

LEMMA ReturnedType == Returned \in OpenerType /\ Returned.pc = "done"
  BY QueryPlanType DEF Returned, OpenerType

LEMMA StatusFacts ==
    /\ {"opening", "open", "closing", "leg_lost", "closed", "leg_failed", "none"} = Statuses
  BY DEF Statuses, ActiveStatuses, FinalStatuses

LEMMA OpenPairType ==
    ASSUME IInv, OpenPair
    PROVE  IInv'
  <1>1. trade' \in TradeType
    BY StatusFacts DEF OpenPair, TradeType
  <1>2. order' \in [Slots -> OrderType] /\ ticket' \in [Slots -> TicketType]
    <2>1. [s \in Sides |-> Requested] \in [Sides -> Nat]
      OBVIOUS
    <2> QED  BY <2>1, SendType DEF OpenPair, IInv
  <1>3. opener' \in OpenerType /\ opener'.pc = "waiting"
    <2>1. "waiting" \in OpenerPcs
      BY DEF OpenerPcs
    <2> QED  BY <2>1, OpenerMoves DEF OpenPair, IInv, TypeOK
  <1>4. OpenerSideOK'
    BY <1>1, <1>2, <1>3, StatusFacts DEF OpenPair, OpenerSideOK, IInv, TypeOK
  <1> QED  BY <1>4, OpenerStep DEF OpenPair

LEMMA DecideType ==
    ASSUME IInv, Decide
    PROVE  IInv'
  <1>1. trade.status \in Statuses /\ row \in Statuses /\ alarmed \in BOOLEAN
    BY DEF IInv, TypeOK, TradeType
  <1>2. OpenerSideOK'
    BY <1>1, PlanFacts, FollowType DEF Decide, IInv
  <1> QED  BY <1>2, OpenerStep DEF Decide, IInv, TypeOK

LEMMA HandOverType ==
    ASSUME IInv, HandOver
    PROVE  IInv'
  <1>1. trade' \in TradeType
    BY StatusFacts, TradeStatus DEF HandOver, IInv, TypeOK, TradeType
  <1>2. ticket' \in [Slots -> TicketType]
    BY AskAgainType DEF HandOver, IInv
  <1>3. opener' \in OpenerType /\ opener'.pc = "background"
    <2>1. "background" \in OpenerPcs
      BY DEF OpenerPcs
    <2> QED  BY <2>1, OpenerWaits DEF HandOver, IInv, TypeOK
  <1>4. OpenerSideOK'
    BY <1>1, <1>2, <1>3, StatusFacts DEF HandOver, OpenerSideOK, IInv, TypeOK
  <1> QED  BY <1>4, OpenerStep, ReleaseType DEF HandOver, IInv

LEMMA NextRoundType ==
    ASSUME IInv, NextRound
    PROVE  IInv'
  <1>1. ticket' \in [Slots -> TicketType]
    BY AskAgainType DEF NextRound, IInv
  <1>2. opener' \in OpenerType /\ opener'.pc = "background"
    <2>1. "background" \in OpenerPcs /\ opener.rounds - 1 \in Nat
      BY DEF OpenerPcs, NextRound, IInv, TypeOK, OpenerType
    <2> QED  BY <2>1, OpenerWaits DEF NextRound, IInv, TypeOK
  <1>3. OpenerSideOK'
    BY <1>1, <1>2 DEF NextRound, OpenerSideOK, IInv, TypeOK, tradeVars
  <1> QED  BY <1>3, OpenerStep DEF NextRound, IInv, TypeOK

LEMMA GiveUpType ==
    ASSUME IInv, GiveUp
    PROVE  IInv'
  <1>1. trade' \in TradeType
    BY StatusFacts, TradeStatus DEF GiveUp, IInv, TypeOK, TradeType
  <1>2. ticket' \in [Slots -> TicketType]
    BY ForgetType DEF GiveUp, IInv
  <1>3. OpenerSideOK'
    BY <1>1, <1>2, ReturnedType, StatusFacts DEF GiveUp, OpenerSideOK, IInv, TypeOK
  <1> QED  BY <1>3, OpenerStep DEF GiveUp, IInv, TypeOK

LEMMA FixAnsweredType ==
    ASSUME IInv, FixAnswered
    PROVE  IInv'
  <1> DEFINE rest == [opener.plan EXCEPT !.fixes = Tail(@)]
  <1>1. trade.status \in Statuses /\ row \in Statuses /\ alarmed \in BOOLEAN
    BY DEF IInv, TypeOK, TradeType
  <1>2. opener.plan \in Plans /\ opener.plan.fixes # <<>>
    BY DEF FixAnswered, IInv, TypeOK, OpenerType
  <1>3. Tail(opener.plan.fixes) \in Seq([side : Sides, qty : Nat])
    BY <1>2, HeadTailProperties DEF Plans
  <1>4. rest \in Plans
    BY <1>2, <1>3 DEF Plans
  <1>5. \/ Follow(rest, "leg_lost", "leg_lost", TRUE)
        \/ Follow(rest, trade.status, row, alarmed)
    BY DEF FixAnswered
  <1> HIDE DEF rest
  <1>6. OpenerSideOK'
    BY <1>1, <1>4, <1>5, StatusFacts, FollowType DEF IInv
  <1> QED  BY <1>6, OpenerStep DEF FixAnswered, IInv, TypeOK

LEMMA FinishOpenType ==
    ASSUME IInv, FinishOpen
    PROVE  IInv'
  <1>1. ticket' \in [Slots -> TicketType]
    BY ForgetType DEF FinishOpen, IInv
  <1>2. row' \in Statuses
    BY StatusFacts DEF FinishOpen, IInv, TypeOK
  <1>3. OpenerSideOK'
    BY <1>1, <1>2, ReturnedType DEF FinishOpen, OpenerSideOK, IInv, TypeOK
  <1> QED  BY <1>3, OpenerStep, ReleaseType DEF FinishOpen, IInv

-----------------------------------------------------------------------------
(* The poller, the closer and the restart *)

LEMMA PolledType ==
    ASSUME TypeOK, NEW complete \in BOOLEAN
    PROVE  Polled(complete) \in TradeType /\ Polled(complete).status \in Statuses
  <1> DEFINE missing == complete /\ LegMissing
  <1> DEFINE polls == IF missing THEN Lesser(trade.missing + 1, MissingPollsForLost) ELSE 0
  <1> DEFINE status == IF polls >= MissingPollsForLost /\ trade.status = "open" THEN "leg_lost"
                       ELSE IF ~missing /\ trade.status = "leg_lost" THEN "open"
                       ELSE trade.status
  <1>1. trade \in TradeType /\ trade.status \in Statuses /\ trade.missing \in Nat
    BY DEF TypeOK, TradeType
  <1>2. polls \in Nat
    BY <1>1 DEF Lesser
  <1>3. status \in Statuses
    BY <1>1, StatusFacts
  <1>4. Reconciled(complete) = [trade EXCEPT !.missing = polls, !.status = status]
    BY <1>1 DEF Reconciled, TradeType
  <1> HIDE DEF polls, status, missing
  <1>5. [trade EXCEPT !.missing = polls] \in TradeType
    BY <1>1, <1>2 DEF TradeType
  <1>6. Reconciled(complete) \in TradeType /\ Reconciled(complete).status \in Statuses
    BY <1>3, <1>4, <1>5, TradeStatus DEF TradeType
  <1> QED  BY <1>1, <1>6 DEF Polled

LEMMA PolledMarked ==
    ASSUME TypeOK, NEW complete \in BOOLEAN, NEW status \in Statuses
    PROVE  /\ [Polled(complete) EXCEPT !.status = status] \in TradeType
           /\ [Polled(complete) EXCEPT !.status = status].status = status
  <1>1. Polled(complete) \in TradeType
    BY PolledType
  <1> QED  BY <1>1, TradeStatus

LEMMA ReconcileType ==
    ASSUME TypeOK, NEW complete \in BOOLEAN, Reconcile(complete)
    PROVE  /\ trade' \in TradeType
           /\ row' \in Statuses
           /\ alarmed' \in BOOLEAN
           /\ visible' = visible
  BY PolledType DEF Reconcile, TypeOK

LEMMA PollType ==
    ASSUME IInv, NEW complete \in BOOLEAN, Poll(complete)
    PROVE  IInv'
  BY ReconcileType DEF Poll, IInv, TypeOK, envVars

LEMMA IdleType == Idle \in CloserType
  BY StatusFacts DEF Idle, CloserType

LEMMA ClosePairType ==
    ASSUME IInv, ClosePair
    PROVE  IInv'
  <1>1. trade' \in TradeType
    BY StatusFacts, TradeStatus DEF ClosePair, IInv, TypeOK, TradeType
  <1>2. closer' \in CloserType
    BY DEF ClosePair, IInv, TypeOK, CloserType, TradeType
  <1> QED  BY <1>1, <1>2, StatusFacts DEF ClosePair, IInv, TypeOK, envVars

LEMMA CloseLegType ==
    ASSUME IInv, NEW side \in Sides, CloseLeg(side)
    PROVE  IInv'
  <1>1. closer' \in CloserType
    BY DEF CloseLeg, IInv, TypeOK, CloserType, TradeType
  <1> QED  BY <1>1 DEF CloseLeg, IInv, TypeOK, envVars, tradeVars

LEMMA CloseRecordType ==
    ASSUME IInv, CloseRecord
    PROVE  IInv'
  <1>1. trade' \in TradeType
    BY StatusFacts, TradeStatus DEF CloseRecord, IInv, TypeOK, TradeType
  <1> QED  BY <1>1, StatusFacts DEF CloseRecord, IInv, TypeOK, envVars

LEMMA CloserMoves ==
    ASSUME TypeOK, NEW pc \in {"idle", "fresh", "closing", "settling", "failing"}
    PROVE  /\ [closer EXCEPT !.pc = pc] \in CloserType
           /\ [closer EXCEPT !.pc = pc, !.attempt = @ + 1] \in CloserType
  <1>1. [closer EXCEPT !.pc = pc] \in CloserType
    BY DEF TypeOK, CloserType
  <1>2. closer.attempt + 1 \in Nat
    BY DEF TypeOK, CloserType
  <1> QED  BY <1>1, <1>2 DEF CloserType

LEMMA FreshLegsType ==
    ASSUME IInv, FreshLegs
    PROVE  IInv'
  <1>1. /\ trade' \in TradeType /\ row' \in Statuses /\ alarmed' \in BOOLEAN
        /\ visible' = visible
    BY ReconcileType DEF FreshLegs, IInv
  <1>2. \A x \in Slots : Travelling(pos[x[2]]) \in OrderType
    BY SlotsFacts, RecordFacts DEF IInv, TypeOK
  <1>3. order' \in [Slots -> OrderType]
    BY <1>2 DEF FreshLegs, IInv, TypeOK
  <1>4. ticket' \in [Slots -> TicketType]
    BY RecordFacts DEF FreshLegs, IInv, TypeOK
  <1>5. closer' \in CloserType
    BY CloserMoves DEF FreshLegs, IInv
  <1> QED  BY <1>1, <1>3, <1>4, <1>5 DEF FreshLegs, IInv, TypeOK, envVars

LEMMA FreshLegsFailType ==
    ASSUME IInv, FreshLegsFail
    PROVE  IInv'
  <1>1. closer.previous \in Statuses
    BY DEF IInv, TypeOK, CloserType
  <1>2. /\ trade' \in TradeType /\ row' \in Statuses /\ alarmed' \in BOOLEAN
        /\ visible' = visible
    <2>1. CASE WholePair
      BY <1>1, <2>1, PolledMarked DEF FreshLegsFail, IInv
    <2>2. CASE ~WholePair
      BY <2>2, ReconcileType DEF FreshLegsFail, IInv
    <2> QED  BY <2>1, <2>2
  <1>3. ticket' \in [Slots -> TicketType]
    BY ForgetType DEF FreshLegsFail, IInv
  <1> QED  BY <1>2, <1>3, IdleType DEF FreshLegsFail, IInv, TypeOK, envVars

LEMMA CloseAnsweredType ==
    ASSUME IInv, CloseAnswered
    PROVE  IInv'
  <1>1. \/ /\ trade' = [Polled(TRUE) EXCEPT !.status = "leg_lost"]
            /\ row' = "leg_lost"
            /\ alarmed' = TRUE
            /\ UNCHANGED visible
        \/ Reconcile(TRUE)
    BY DEF CloseAnswered
  <1>2. /\ trade' \in TradeType /\ row' \in Statuses /\ alarmed' \in BOOLEAN
        /\ visible' = visible
    BY <1>1, PolledMarked, ReconcileType, StatusFacts DEF IInv
  <1>3. ticket' \in [Slots -> TicketType]
    BY ForgetType DEF CloseAnswered, IInv
  <1>4. \/ closer' = [closer EXCEPT !.pc = "settling"]
        \/ closer' = [closer EXCEPT !.pc = "failing"]
        \/ closer' = [closer EXCEPT !.pc = "fresh", !.attempt = @ + 1]
        \/ closer' = Idle
    BY DEF CloseAnswered
  <1>5. closer' \in CloserType
    BY <1>4, CloserMoves, IdleType DEF IInv
  <1> QED  BY <1>2, <1>3, <1>5 DEF CloseAnswered, IInv, TypeOK, envVars

LEMMA CloseAnsweredFailType ==
    ASSUME IInv, CloseAnsweredFail
    PROVE  IInv'
  <1>1. /\ trade' \in TradeType /\ row' \in Statuses /\ alarmed' \in BOOLEAN
        /\ visible' = visible
    <2>1. CASE WholePair
      BY <2>1, PolledMarked, StatusFacts DEF CloseAnsweredFail, IInv
    <2>2. CASE ~WholePair
      BY <2>2, ReconcileType DEF CloseAnsweredFail, IInv
    <2> QED  BY <2>1, <2>2
  <1>2. ticket' \in [Slots -> TicketType]
    BY ForgetType DEF CloseAnsweredFail, IInv
  <1> QED  BY <1>1, <1>2, IdleType DEF CloseAnsweredFail, IInv, TypeOK, envVars

LEMMA SettleType ==
    ASSUME IInv, Settle
    PROVE  IInv'
  <1>1. trade' \in TradeType
    BY StatusFacts, TradeStatus DEF Settle, IInv, TypeOK, TradeType
  <1>2. ticket' \in [Slots -> TicketType]
    BY ForgetType DEF Settle, IInv
  <1> QED  BY <1>1, <1>2, IdleType, StatusFacts DEF Settle, IInv, TypeOK, envVars

LEMMA FailType ==
    ASSUME IInv, Fail
    PROVE  IInv'
  <1>1. ticket' \in [Slots -> TicketType]
    BY ForgetType DEF Fail, IInv
  <1> QED  BY <1>1, IdleType DEF Fail, IInv, TypeOK, envVars, tradeVars

LEMMA RestartType ==
    ASSUME IInv, Restart
    PROVE  IInv'
  <1>1. ticket' \in [Slots -> TicketType]
    BY ForgetType DEF Restart, IInv
  <1>2. trade' \in TradeType
    <2>1. row \in Statuses /\ [trade EXCEPT !.status = row] \in TradeType
      BY TradeStatus DEF IInv, TypeOK
    <2> QED  BY <2>1 DEF Restart, TradeType
  <1>3. visible' \in BOOLEAN
    BY DEF Restart
  <1> QED  BY <1>1, <1>2, <1>3, IdleType, ReturnedType DEF Restart, IInv, TypeOK

LEMMA InitType == Init => IInv
  <1>1. QueryPlan \in Plans
    BY QueryPlanType
  <1>2. Init => opener \in OpenerType /\ opener.pc = "idle"
    BY <1>1 DEF Init, OpenerType
  <1>3. Init => trade \in TradeType
    BY StatusFacts DEF Init, TradeType
  <1>4. Init => /\ pos \in [Sides -> Nat]
                /\ order \in [Slots -> OrderType]
                /\ ticket \in [Slots -> TicketType]
    BY RecordFacts DEF Init
  <1>5. Init => row \in Statuses /\ closer \in CloserType
    BY StatusFacts, IdleType DEF Init
  <1>6. Init => busy \in {"none", "opener", "closer"} /\ liquidated \in Nat /\ restarts \in Nat
    BY DEF Init
  <1>7. Init => visible \in BOOLEAN /\ alarmed \in BOOLEAN
    BY Zenon DEF Init
  <1> QED  BY <1>2, <1>3, <1>4, <1>5, <1>6, <1>7 DEF IInv, TypeOK

LEMMA NextType == IInv /\ [Next]_vars => IInv'
  <1> SUFFICES ASSUME IInv, [Next]_vars PROVE IInv'
    OBVIOUS
  <1>1. CASE Exchanges
    BY <1>1, LandType, LiquidateType DEF Exchanges
  <1>2. CASE \E x \in Slots : Answers(x)
    BY <1>2, AnswersType
  <1>3. CASE Opening
    BY <1>3, OpenPairType, DecideType, HandOverType, NextRoundType, GiveUpType,
       FixAnsweredType, FinishOpenType DEF Opening
  <1>4. CASE Closing
    BY <1>4, FreshLegsType, FreshLegsFailType, CloseAnsweredType, CloseAnsweredFailType,
       SettleType, FailType DEF Closing
  <1>5. CASE User
    BY <1>5, ClosePairType, CloseLegType, CloseRecordType DEF User
  <1>6. CASE \E complete \in BOOLEAN : Poll(complete)
    BY <1>6, PollType
  <1>7. CASE Restart
    BY <1>7, RestartType
  <1>8. CASE UNCHANGED vars
    BY <1>8 DEF vars, tradeVars, envVars, IInv, TypeOK
  <1> QED  BY <1>1, <1>2, <1>3, <1>4, <1>5, <1>6, <1>7, <1>8 DEF Next

(* Every variable of a pair's life stays in its type: no query, round or poll
   counter is run below zero and no leg is reduced below nothing, however the
   tasks, the exchanges, the user and restarts interleave. *)
THEOREM TypeCorrect == Spec => []TypeOK
  <1>1. IInv => TypeOK
    BY DEF IInv
  <1> QED  BY <1>1, InitType, NextType, PTL DEF Spec

-----------------------------------------------------------------------------
(* The row of a visible pair *)

LEMMA FollowRow ==
    ASSUME TypeOK, RowFollowsMemory,
           NEW plan, NEW status \in Statuses, NEW saved, NEW raised,
           visible => saved = status,
           Follow(plan, status, saved, raised)
    PROVE  RowFollowsMemory'
  <1>1. CASE plan.fixes = <<>>
    <2> DEFINE marked == IF status = "leg_lost" THEN status
                         ELSE IF plan.mark = "open" THEN "open" ELSE "leg_failed"
    <2>1. /\ trade' = [trade EXCEPT !.status = marked,
                                    !.qty = IF plan.mark = "open" THEN plan.qty ELSE @]
          /\ visible' = (visible /\ marked # "leg_failed")
          /\ row' = IF plan.mark = "failed" /\ marked = "leg_lost" THEN saved ELSE marked
      BY <1>1 DEF Follow, Conclude
    <2>2. trade'.status = marked
      BY <2>1 DEF TypeOK, TradeType
    <2>3. marked = "leg_lost" => status = "leg_lost"
      OBVIOUS
    <2> HIDE DEF marked
    <2> QED  BY <2>1, <2>2, <2>3 DEF RowFollowsMemory
  <1>2. CASE plan.fixes # <<>>
    <2>1. trade' = [trade EXCEPT !.status = status] /\ row' = saved /\ visible' = visible
      BY <1>2 DEF Follow
    <2>2. trade'.status = status
      BY <2>1 DEF TypeOK, TradeType
    <2> QED  BY <2>1, <2>2 DEF RowFollowsMemory
  <1> QED  BY <1>1, <1>2

LEMMA ReconcileRow ==
    ASSUME TypeOK, RowFollowsMemory, NEW complete \in BOOLEAN, Reconcile(complete)
    PROVE  RowFollowsMemory'
  BY DEF Reconcile, RowFollowsMemory

(* The actions that leave the trade, its place in portfolio.trades and its row alone. *)
LEMMA UntouchedRow ==
    ASSUME RowFollowsMemory, UNCHANGED <<trade, visible, row>>
    PROVE  RowFollowsMemory'
  BY DEF RowFollowsMemory

LEMMA OpeningRow ==
    ASSUME TypeOK, RowFollowsMemory, Opening
    PROVE  RowFollowsMemory'
  <1>0. trade.status \in Statuses /\ "leg_lost" \in Statuses
    BY StatusFacts DEF TypeOK, TradeType
  <1>1. CASE OpenPair
    BY <1>1 DEF OpenPair, RowFollowsMemory
  <1>2. CASE Decide
    BY <1>0, <1>2, FollowRow DEF Decide, RowFollowsMemory
  <1>3. CASE HandOver
    BY <1>3 DEF HandOver, RowFollowsMemory, TypeOK, TradeType
  <1>4. CASE NextRound
    BY <1>4, UntouchedRow DEF NextRound, tradeVars
  <1>5. CASE GiveUp
    BY <1>5 DEF GiveUp, RowFollowsMemory, TypeOK, TradeType
  <1>6. CASE FixAnswered
    <2> DEFINE rest == [opener.plan EXCEPT !.fixes = Tail(@)]
    <2>1. \/ Follow(rest, "leg_lost", "leg_lost", TRUE)
          \/ Follow(rest, trade.status, row, alarmed)
      BY <1>6 DEF FixAnswered
    <2> HIDE DEF rest
    <2> QED  BY <1>0, <2>1, FollowRow DEF RowFollowsMemory
  <1>7. CASE FinishOpen
    BY <1>7 DEF FinishOpen, RowFollowsMemory
  <1> QED  BY <1>1, <1>2, <1>3, <1>4, <1>5, <1>6, <1>7 DEF Opening

LEMMA ClosingRow ==
    ASSUME TypeOK, RowFollowsMemory, Closing
    PROVE  RowFollowsMemory'
  <1>0. \A c \in BOOLEAN, s \in Statuses : [Polled(c) EXCEPT !.status = s].status = s
    BY PolledMarked
  <1>1. CASE FreshLegs
    BY <1>1, ReconcileRow DEF FreshLegs
  <1>2. CASE FreshLegsFail
    <2>1. CASE WholePair
      <3>1. closer.previous \in Statuses
        BY DEF TypeOK, CloserType
      <3> QED  BY <1>0, <1>2, <2>1, <3>1 DEF FreshLegsFail, RowFollowsMemory
    <2>2. CASE ~WholePair
      BY <1>2, <2>2, ReconcileRow DEF FreshLegsFail
    <2> QED  BY <2>1, <2>2
  <1>3. CASE CloseAnswered
    <2>1. \/ /\ trade' = [Polled(TRUE) EXCEPT !.status = "leg_lost"]
              /\ row' = "leg_lost"
          \/ Reconcile(TRUE)
      BY <1>3 DEF CloseAnswered
    <2>2. CASE /\ trade' = [Polled(TRUE) EXCEPT !.status = "leg_lost"]
               /\ row' = "leg_lost"
      BY <1>0, <2>2, StatusFacts DEF RowFollowsMemory
    <2> QED  BY <2>1, <2>2, ReconcileRow
  <1>4. CASE CloseAnsweredFail
    <2>1. CASE WholePair
      BY <1>0, <1>4, <2>1, StatusFacts DEF CloseAnsweredFail, RowFollowsMemory
    <2>2. CASE ~WholePair
      BY <1>4, <2>2, ReconcileRow DEF CloseAnsweredFail
    <2> QED  BY <2>1, <2>2
  <1>5. CASE Settle
    BY <1>5 DEF Settle, RowFollowsMemory
  <1>6. CASE Fail
    BY <1>6, UntouchedRow DEF Fail, tradeVars
  <1> QED  BY <1>1, <1>2, <1>3, <1>4, <1>5, <1>6 DEF Closing

LEMMA OthersRow ==
    ASSUME TypeOK, RowFollowsMemory,
           \/ Exchanges
           \/ \E x \in Slots : Answers(x)
           \/ User
           \/ \E complete \in BOOLEAN : Poll(complete)
           \/ Restart
           \/ UNCHANGED vars
    PROVE  RowFollowsMemory'
  <1>1. CASE Exchanges
    BY <1>1, UntouchedRow DEF Exchanges, Land, Liquidate, tradeVars
  <1>2. CASE \E x \in Slots : Answers(x)
    BY <1>2, UntouchedRow DEF Answers, Acknowledge, TimeOut, QueryFound, QueryNotFound,
       QueryUnclear, Learn, tradeVars
  <1>3. CASE ClosePair
    BY <1>3 DEF ClosePair, RowFollowsMemory, TypeOK, TradeType
  <1>4. CASE \E s \in Sides : CloseLeg(s)
    BY <1>4, UntouchedRow DEF CloseLeg, tradeVars
  <1>5. CASE CloseRecord
    BY <1>5 DEF CloseRecord, RowFollowsMemory
  <1>6. CASE \E complete \in BOOLEAN : Poll(complete)
    BY <1>6, ReconcileRow DEF Poll
  <1>7. CASE Restart
    <2>1. trade'.status = row /\ row' = row
      BY <1>7 DEF Restart, TypeOK, TradeType
    <2> QED  BY <2>1 DEF RowFollowsMemory
  <1>8. CASE UNCHANGED vars
    BY <1>8, UntouchedRow DEF vars, tradeVars
  <1> QED  BY <1>1, <1>2, <1>3, <1>4, <1>5, <1>6, <1>7, <1>8 DEF User

(* Whatever the user presses and whenever the terminal is restarted, the last
   row handed to the write queue has the status the terminal shows: no code
   path marks a trade and forgets to save it. *)
THEOREM RowCorrect == Spec => []RowFollowsMemory
  <1>1. Init => RowFollowsMemory
    BY DEF Init, RowFollowsMemory
  <1>2. TypeOK /\ RowFollowsMemory /\ [Next]_vars => RowFollowsMemory'
    BY OpeningRow, ClosingRow, OthersRow DEF Next
  <1> QED  BY <1>1, <1>2, TypeCorrect, PTL DEF Spec

-----------------------------------------------------------------------------
(* The pair while no CRITICAL was emitted *)

OpenOf(s) == <<"open", s>>
FixOf(s)  == <<"fix", s>>

(* What a ticket says of its order is so, and an order is not forgotten. *)
Truthful(x) ==
    /\ order[x].net \in {"travelling", "done"}
    /\ order[x].net = "travelling" => order[x].filled = 0
    /\ ticket[x].outcome # "none"
    /\ ticket[x].outcome \in {"filled", "partial", "rejected"} =>
         /\ order[x].net = "done"
         /\ ticket[x].filled = order[x].filled
    /\ ticket[x].outcome = "filled" => order[x].filled = order[x].qty

(* The row is the status, and only an alarm makes a lost leg. *)
StatusAgrees ==
    /\ trade.status = row
    /\ trade.status \in {"none", "opening", "open", "closing", "closed", "leg_failed"}

(* Orders that can still fill belong to a pair that is shown as being worked on. *)
OrdersTravelInTime ==
    \A x \in Slots : order[x].net = "travelling" =>
        IF x \in Exit THEN trade.status \in {"closing", "closed"} ELSE trade.status = "opening"

NothingYet ==
    opener.pc = "idle" =>
        /\ trade.status = "none"
        /\ ~visible
        /\ closer.pc = "idle"
        /\ \A x \in Slots : order[x].net = "none"

FinalIsFlat == trade.status \in {"none", "closed", "leg_failed"} => \A s \in Sides : pos[s] = 0

OpenIsEven == trade.status = "open" /\ liquidated = 0 => \A s \in Sides : pos[s] = trade.qty

(* The opener waits: the legs are what their orders filled, or what a liquidation left of it. *)
LegsAreFills ==
    opener.pc = "waiting" =>
        /\ trade.status = "opening"
        /\ \A x \in Slots \ Entry : order[x].net = "none"
        /\ \A s \in Sides :
             /\ Truthful(OpenOf(s))
             /\ pos[s] <= order[OpenOf(s)].filled
             /\ liquidated = 0 => pos[s] = order[OpenOf(s)].filled

Head1 == Head(opener.plan.fixes)
InFix == FixOf(Head1.side)

(* What a leg held before the fix that is on its way. *)
Held == [s \in Sides |-> pos[s] + IF s = Head1.side THEN order[InFix].filled ELSE 0]

(* The opener trims: what is left of the plan hedges what the legs hold now. *)
RestHedges ==
    opener.pc = "fixing" =>
        /\ trade.status = "opening"
        /\ opener.plan.mark = "open" \/ opener.plan.alert = "critical"
        /\ opener.plan.mark # "query"
        /\ Truthful(InFix)
        /\ order[InFix].qty = Head1.qty
        /\ \A y \in Slots \ {InFix} : order[y].net # "travelling"
        /\ liquidated = 0 => Hedges(opener.plan, Held)

CloserHasPair ==
    /\ closer.pc # "failing"
    /\ closer.pc # "idle" => trade.status = "closing" /\ closer.sides = Sides
    /\ closer.pc = "settling" => \A s \in Sides : pos[s] = 0

StaysOnScreen ==
    LoadOutcomes \subseteq {TRUE} /\ trade.status \in ActiveStatuses => visible

Sound ==
    /\ StatusAgrees
    /\ OrdersTravelInTime
    /\ NothingYet
    /\ FinalIsFlat
    /\ OpenIsEven
    /\ LegsAreFills
    /\ opener.pc # "background"
    /\ RestHedges
    /\ CloserHasPair
    /\ StaysOnScreen

(* Only the pair button is pressed: closing one leg, or dropping the record of
   a pair, is how the user leaves a leg without its hedge on purpose. *)
OnlyPairsClose == UserActions \subseteq {"close_pair"}

(* The parts of Sound a step has to look at when it leaves the status alone. *)
LEMMA SoundOrders ==
    ASSUME Sound, trade'.status = trade.status, UNCHANGED <<row, visible>>,
           opener'.pc # "background",
           OrdersTravelInTime', NothingYet', FinalIsFlat', OpenIsEven', LegsAreFills',
           RestHedges', CloserHasPair'
    PROVE  Sound'
  BY DEF Sound, StatusAgrees, StaysOnScreen

LEMMA SlotKinds ==
    ASSUME NEW x \in Slots
    PROVE  /\ x[2] \in Sides
           /\ x \in Entry => x = OpenOf(x[2]) /\ x \notin Exit
           /\ x \notin Entry /\ x \notin Exit => x = FixOf(x[2])
           /\ x \in Exit => x # OpenOf(x[2]) /\ x # FixOf(x[2])
  BY DEF Slots, Entry, Exit, OpenOf, FixOf

LEMMA OfFacts ==
    /\ \A s \in Sides : /\ OpenOf(s) \in Entry /\ OpenOf(s) \in Slots
                        /\ FixOf(s) \in Slots \ Entry /\ FixOf(s) \notin Exit
                        /\ OpenOf(s) \notin Exit
    /\ \A s, t \in Sides : OpenOf(s) = OpenOf(t) \/ FixOf(s) = FixOf(t) => s = t
    /\ \A s, t \in Sides : OpenOf(s) # FixOf(t)
  BY DEF Slots, Entry, Exit, OpenOf, FixOf

LEMMA LandSound ==
    ASSUME IInv, Sound, NEW x \in Slots, Land(x)
    PROVE  Sound'
  <1> DEFINE side == x[2]
  <1> DEFINE most == IF x \in Entry THEN order[x].qty ELSE Lesser(order[x].qty, pos[side])
  <1>1. PICK f \in 0 .. most :
          /\ order' = [order EXCEPT ![x].net = "done", ![x].filled = f]
          /\ pos' = [pos EXCEPT ![side] = IF x \in Entry THEN @ + f ELSE @ - f]
    BY DEF Land
  <1>2. /\ side \in Sides /\ pos \in [Sides -> Nat] /\ order \in [Slots -> OrderType]
        /\ order[x].net = "travelling" /\ order[x].qty \in Nat
    BY SlotKinds DEF IInv, TypeOK, Land, OrderType
  <1>3. f \in Nat /\ f <= order[x].qty /\ (x \notin Entry => f <= pos[side])
    BY <1>2 DEF Lesser
  <1>4. /\ order'[x].net = "done" /\ order'[x].filled = f /\ order'[x].qty = order[x].qty
        /\ \A y \in Slots : y # x => order'[y] = order[y]
    BY <1>1, <1>2 DEF OrderType
  <1>5. /\ pos'[side] = IF x \in Entry THEN pos[side] + f ELSE pos[side] - f
        /\ \A s \in Sides : s # side => pos'[s] = pos[s]
    BY <1>1, <1>2
  <1>6. UNCHANGED <<trade, row, visible, opener, closer, ticket, liquidated>>
    BY DEF Land, tradeVars, envVars
  <1> HIDE DEF side, most
  <1>7. OrdersTravelInTime'
    BY <1>4, <1>6 DEF Sound, OrdersTravelInTime
  <1>8. opener.pc # "idle"
    BY <1>2 DEF Sound, NothingYet
  <1>9. IF x \in Exit THEN trade.status \in {"closing", "closed"} ELSE trade.status = "opening"
    BY <1>2 DEF Sound, OrdersTravelInTime
  <1>10. x \in Exit => x \notin Entry
    BY SlotKinds
  <1>11. FinalIsFlat'
    BY <1>2, <1>3, <1>5, <1>6, <1>9, <1>10 DEF Sound, FinalIsFlat
  <1>12. OpenIsEven'
    BY <1>6, <1>9 DEF OpenIsEven
  <1>13. CloserHasPair'
    <2>1. closer.pc = "settling" => x \in Exit /\ \A s \in Sides : pos[s] = 0
      BY <1>9 DEF Sound, CloserHasPair
    <2>2. closer.pc = "settling" => \A s \in Sides : pos'[s] = 0
      BY <2>1, <1>2, <1>3, <1>5, <1>10
    <2> QED  BY <2>2, <1>6 DEF Sound, CloserHasPair
  <1>14. LegsAreFills'
    <2> SUFFICES ASSUME opener.pc = "waiting" PROVE LegsAreFills'
      BY <1>6 DEF LegsAreFills
    <2>1. x = OpenOf(side) /\ x \in Entry
      BY <1>2, SlotKinds DEF Sound, LegsAreFills, side
    <2>2. Truthful(x) /\ order[x].filled = 0 /\ pos[side] = 0
      BY <1>2, <2>1 DEF Sound, LegsAreFills, Truthful
    <2>3. Truthful(x)'
      BY <1>2, <1>4, <1>6, <2>2 DEF Truthful
    <2>4. pos'[side] = order'[x].filled
      BY <1>3, <1>4, <1>5, <2>1, <2>2
    <2>5. ASSUME NEW s \in Sides
          PROVE  /\ Truthful(OpenOf(s))'
                 /\ pos'[s] <= order'[OpenOf(s)].filled
                 /\ liquidated' = 0 => pos'[s] = order'[OpenOf(s)].filled
      <3>1. CASE s = side
        BY <1>3, <1>4, <2>1, <2>3, <2>4, <3>1
      <3>2. CASE s # side
        <4>1. order'[OpenOf(s)] = order[OpenOf(s)] /\ pos'[s] = pos[s]
          BY <1>2, <1>4, <1>5, <2>1, <3>2, OfFacts
        <4> QED  BY <1>6, <4>1 DEF Sound, LegsAreFills, Truthful
      <3> QED  BY <3>1, <3>2
    <2>6. \A y \in Slots \ Entry : order'[y].net = "none"
      BY <1>4, <2>1 DEF Sound, LegsAreFills
    <2> QED  BY <1>6, <2>5, <2>6 DEF Sound, LegsAreFills
  <1>15. RestHedges'
    <2> SUFFICES ASSUME opener.pc = "fixing" PROVE RestHedges'
      BY <1>6 DEF RestHedges
    <2>1. x = InFix /\ Head1' = Head1 /\ InFix' = InFix
      BY <1>2, <1>6 DEF Sound, RestHedges, Head1, InFix
    <2>2. Head1.side = side /\ side \in Sides /\ x \notin Entry
      <3>1. Head1.side = x[2]
        BY <2>1 DEF InFix, FixOf
      <3> QED  BY <1>2, <2>1, <3>1, OfFacts DEF side, InFix
    <2>3. Truthful(x) /\ order[x].filled = 0
      BY <1>2, <2>1 DEF Sound, RestHedges, Truthful
    <2>4. Truthful(x)'
      BY <1>2, <1>4, <1>6, <2>3 DEF Truthful
    <2>5. Held' = Held
      <3>1. \A s \in Sides : pos'[s] + (IF s = side THEN order'[x].filled ELSE 0)
                           = pos[s] + (IF s = side THEN order[x].filled ELSE 0)
        BY <1>2, <1>3, <1>4, <1>5, <2>2, <2>3
      <3> QED  BY <2>1, <2>2, <3>1 DEF Held
    <2>6. \A y \in Slots \ {x} : order'[y].net # "travelling"
      BY <1>4, <2>1 DEF Sound, RestHedges
    <2>7. liquidated' = 0 => Hedges(opener.plan, Held')
      BY <1>6, <2>5 DEF Sound, RestHedges
    <2>8. order'[x].qty = Head1.qty
      BY <1>4, <2>1 DEF Sound, RestHedges
    <2> QED  BY <1>6, <2>1, <2>4, <2>6, <2>7, <2>8 DEF Sound, RestHedges
  <1>16. NothingYet'
    BY <1>6, <1>8 DEF NothingYet
  <1> QED  BY <1>6, <1>7, <1>11, <1>12, <1>13, <1>14, <1>15, <1>16, SoundOrders DEF Sound

LEMMA LiquidateSound ==
    ASSUME IInv, Sound, NEW side \in Sides, Liquidate(side)
    PROVE  Sound'
  <1>1. /\ UNCHANGED <<trade, row, visible, opener, closer, order, ticket>>
        /\ liquidated' # 0
    BY DEF Liquidate, tradeVars, IInv, TypeOK
  <1>2. \A s \in Sides : pos'[s] = IF s = side THEN 0 ELSE pos[s]
    BY DEF Liquidate, IInv, TypeOK
  <1>3. \A s \in Sides : pos[s] \in Nat /\ order[OpenOf(s)].filled \in Nat
    BY OfFacts DEF IInv, TypeOK, OrderType
  <1>4. LegsAreFills'
    BY <1>1, <1>2, <1>3 DEF Sound, LegsAreFills, Truthful
  <1>5. RestHedges'
    BY <1>1 DEF Sound, RestHedges, Truthful, InFix, Head1
  <1> QED
    BY <1>1, <1>2, <1>4, <1>5, SoundOrders
    DEF Sound, OrdersTravelInTime, NothingYet, FinalIsFlat, OpenIsEven, CloserHasPair

LEMMA LearnSound ==
    ASSUME IInv, Sound, NEW x \in Slots, NEW t, Learn(x, t),
           Truthful(x) => Truthful(x)'
    PROVE  Sound'
  <1>1. UNCHANGED <<trade, row, visible, pos, order, opener, closer, liquidated>>
    BY DEF Learn, tradeVars, envVars
  <1>2. \A y \in Slots : Truthful(y) => Truthful(y)'
    BY <1>1 DEF Truthful, Learn, IInv, TypeOK
  <1>3. LegsAreFills'
    BY <1>1, <1>2, OfFacts DEF Sound, LegsAreFills
  <1>4. RestHedges'
    <2> SUFFICES ASSUME opener.pc = "fixing" PROVE RestHedges'
      BY <1>1 DEF RestHedges
    <2>1. InFix \in Slots
      <3>1. opener.plan.fixes \in Seq([side : Sides, qty : Nat]) /\ opener.plan.fixes # <<>>
        BY DEF IInv, TypeOK, OpenerType, Plans
      <3>2. Head1 \in [side : Sides, qty : Nat]
        BY <3>1, HeadTailProperties DEF Head1
      <3> QED  BY <3>2, OfFacts DEF InFix
    <2>2. InFix' = InFix /\ Head1' = Head1 /\ Held' = Held
      BY <1>1 DEF InFix, Head1, Held
    <2>3. Truthful(InFix)'
      BY <1>2, <2>1, <2>2 DEF Sound, RestHedges, Truthful
    <2> QED  BY <1>1, <2>2, <2>3 DEF Sound, RestHedges
  <1> QED
    BY <1>1, <1>3, <1>4, SoundOrders
    DEF Sound, OrdersTravelInTime, NothingYet, FinalIsFlat, OpenIsEven, CloserHasPair

(* An answer says what became of the order; the confirmed not_found of an
   order that did not fill anything is the bet QueryNotFound states. *)
LEMMA AnswersSound ==
    ASSUME IInv, Sound, NEW x \in Slots, Answers(x)
    PROVE  Sound'
  <1>0. /\ ticket \in [Slots -> TicketType] /\ order \in [Slots -> OrderType]
        /\ order[x].qty \in Nat /\ order[x].filled \in Nat
    BY DEF IInv, TypeOK, OrderType
  <1>1. ASSUME order[x].net = "done", Learn(x, Known(x))
        PROVE  Sound'
    <2>1. /\ ticket'[x].outcome = OutcomeOf(order[x])
          /\ ticket'[x].filled = order[x].filled
          /\ order' = order
      BY <1>0, <1>1 DEF Learn, Known, NoTicket
    <2>2. Truthful(x)'
      BY <1>0, <1>1, <2>1 DEF Truthful, OutcomeOf
    <2> QED  BY <1>1, <2>2, LearnSound
  <1>2. CASE Acknowledge(x)
    BY <1>1, <1>2 DEF Acknowledge
  <1>3. CASE QueryFound(x)
    BY <1>1, <1>3 DEF QueryFound
  <1>4. ASSUME NEW t, Learn(x, t), t.outcome = "unknown"
        PROVE  Sound'
    <2>1. ticket'[x].outcome = "unknown" /\ order' = order
      BY <1>0, <1>4 DEF Learn
    <2>2. Truthful(x) => Truthful(x)'
      BY <2>1 DEF Truthful
    <2> QED  BY <1>4, <2>2, LearnSound
  <1>5. CASE TimeOut(x)
    BY <1>4, <1>5 DEF TimeOut, NoTicket
  <1>6. CASE QueryUnclear(x)
    <2>1. [ticket[x] EXCEPT !.notFound = 0, !.tries = @ - 1].outcome = "unknown"
      BY <1>0, <1>6 DEF QueryUnclear, CanQuery, TicketType
    <2> QED  BY <1>4, <1>6, <2>1 DEF QueryUnclear
  <1>7. CASE QueryNotFound(x)
    <2>1. CASE ~Confirmed(x)
      <3>1. [ticket[x] EXCEPT !.notFound = @ + 1, !.tries = @ - 1].outcome = "unknown"
        BY <1>0, <1>7 DEF QueryNotFound, CanQuery, TicketType
      <3> QED  BY <1>4, <1>7, <2>1, <3>1 DEF QueryNotFound
    <2>2. CASE Confirmed(x)
      <3>1. Learn(x, [NoTicket EXCEPT !.outcome = "rejected"])
        BY <1>7, <2>2 DEF QueryNotFound
      <3>2. /\ ticket'[x].outcome = "rejected" /\ ticket'[x].filled = 0
            /\ order' = order
        BY <1>0, <3>1 DEF Learn, NoTicket
      <3>3. order[x].filled = 0 /\ order[x].net # "travelling"
        BY <1>0, <1>7, <2>2 DEF QueryNotFound, Confirmed, TicketType
      <3>4. Truthful(x) => Truthful(x)'
        BY <3>2, <3>3 DEF Truthful
      <3> QED  BY <3>1, <3>4, LearnSound
    <2> QED  BY <2>1, <2>2
  <1> QED  BY <1>2, <1>3, <1>5, <1>6, <1>7 DEF Answers

-----------------------------------------------------------------------------
(* The opener, as long as it raises no alarm *)

LEMMA OpenPairSound ==
    ASSUME IInv, Sound, OpenPair
    PROVE  Sound'
  <1>1. /\ trade.status = "none" /\ closer.pc = "idle"
        /\ \A x \in Slots : order[x].net = "none"
        /\ \A s \in Sides : pos[s] = 0
    BY DEF OpenPair, Sound, NothingYet, FinalIsFlat
  <1>2. /\ trade'.status = "opening" /\ row' = "opening" /\ visible'
        /\ UNCHANGED <<pos, closer, liquidated>>
    BY DEF OpenPair, envVars
  <1>3. opener'.pc = "waiting"
    BY DEF OpenPair, IInv, TypeOK, OpenerType
  <1>4. \A x \in Slots :
          /\ order'[x] = IF x \in Entry THEN Travelling(Requested) ELSE order[x]
          /\ x \in Entry => ticket'[x] = Sent
    <2>1. \A x \in Slots : [s \in Sides |-> Requested][x[2]] = Requested
      BY SlotsFacts
    <2> QED  BY <2>1 DEF OpenPair, Send
  <1>5. LegsAreFills'
    BY <1>1, <1>2, <1>4, OfFacts DEF LegsAreFills, Truthful, Travelling, Sent, NoTicket
  <1>6. OrdersTravelInTime'
    BY <1>1, <1>2, <1>4, SlotKinds DEF OrdersTravelInTime
  <1> QED
    BY <1>1, <1>2, <1>3, <1>5, <1>6
    DEF Sound, StatusAgrees, NothingYet, FinalIsFlat, OpenIsEven, RestHedges, CloserHasPair, StaysOnScreen

(* Once the first trim is done, the rest of the plan hedges what is left. *)
LEMMA TailHedges ==
    ASSUME NEW plan \in Plans, plan.fixes # <<>>,
           NEW held \in [Sides -> Nat], NEW left \in [Sides -> Nat],
           Hedges(plan, held),
           \A s \in Sides : held[s] = left[s] + IF s = Head(plan.fixes).side
                                                THEN Head(plan.fixes).qty ELSE 0
    PROVE  Hedges([plan EXCEPT !.fixes = Tail(@)], left)
  <1> DEFINE f == plan.fixes
  <1> DEFINE rest == [plan EXCEPT !.fixes = Tail(@)]
  <1>1. f \in Seq([side : Sides, qty : Nat]) /\ f # <<>> /\ Len(f) \in Nat /\ DOMAIN f = 1 .. Len(f)
    BY DEF Plans
  <1>2. /\ Head(f) = f[1] /\ 1 \in DOMAIN f /\ f[1] \in [side : Sides, qty : Nat]
        /\ Len(Tail(f)) = Len(f) - 1 /\ DOMAIN Tail(f) = 1 .. Len(f) - 1
        /\ \A i \in 1 .. Len(f) - 1 : i + 1 \in DOMAIN f /\ Tail(f)[i] = f[i + 1]
    <2> HIDE DEF f
    <2>1. /\ Head(f) = f[1] /\ Len(Tail(f)) = Len(f) - 1 /\ Tail(f) \in Seq([side : Sides, qty : Nat])
          /\ \A i \in 1 .. Len(Tail(f)) : Tail(f)[i] = f[i + 1]
      BY <1>1, HeadTailProperties
    <2>2. Len(f) > 0
      BY <1>1, EmptySeq
    <2>3. DOMAIN Tail(f) = 1 .. Len(Tail(f))
      BY <2>1, LenProperties
    <2>4. 1 \in DOMAIN f /\ f[1] \in [side : Sides, qty : Nat]
      <3>1. 1 \in 1 .. Len(f)
        BY <1>1, <2>2
      <3> QED  BY <1>1, <3>1, ElementOfSeq
    <2> QED  BY <1>1, <2>1, <2>2, <2>3, <2>4
  <1>3. rest.fixes = Tail(f) /\ Kept(rest) = Kept(plan) /\ Kept(plan) \in Nat
    BY DEF Plans, Kept
  <1> HIDE DEF f, rest
  <1>a. Hedges(plan, held) /\ plan.fixes = f
    BY DEF f
  <1>4. \A i, j \in DOMAIN f : f[i].side = f[j].side => i = j
    BY <1>a DEF Hedges
  <1>5. \A i, j \in DOMAIN rest.fixes : rest.fixes[i].side = rest.fixes[j].side => i = j
    <2> SUFFICES ASSUME NEW i \in DOMAIN rest.fixes, NEW j \in DOMAIN rest.fixes,
                        rest.fixes[i].side = rest.fixes[j].side
                 PROVE  i = j
      OBVIOUS
    <2>1. i \in 1 .. Len(f) - 1 /\ j \in 1 .. Len(f) - 1
      BY <1>2, <1>3
    <2>2. f[i + 1].side = f[j + 1].side /\ i + 1 \in DOMAIN f /\ j + 1 \in DOMAIN f
      BY <1>2, <1>3, <2>1
    <2>3. i + 1 = j + 1
      BY <1>4, <2>2
    <2> QED  BY <1>1, <2>1, <2>3
  <1>6. ASSUME NEW s \in Sides
        PROVE  \/ /\ left[s] = Kept(rest)
                  /\ \A i \in DOMAIN rest.fixes : rest.fixes[i].side # s
               \/ /\ left[s] > Kept(rest)
                  /\ \E i \in DOMAIN rest.fixes : rest.fixes[i] = Trim(s, left[s] - Kept(rest))
    <2>1. CASE s = f[1].side
      <3>1. PICK i \in DOMAIN f : f[i] = Trim(s, held[s] - Kept(plan))
        BY <1>2, <1>a, <2>1 DEF Hedges
      <3>2. i = 1 /\ f[1].qty = held[s] - Kept(plan)
        BY <1>2, <1>4, <2>1, <3>1 DEF Trim
      <3>3. left[s] = Kept(rest)
        BY <1>2, <1>3, <2>1, <3>2 DEF f
      <3>4. \A j \in DOMAIN rest.fixes : rest.fixes[j].side # s
        <4> SUFFICES ASSUME NEW j \in DOMAIN rest.fixes, rest.fixes[j].side = s PROVE FALSE
          OBVIOUS
        <4>1. j \in 1 .. Len(f) - 1
          BY <1>2, <1>3
        <4>2. f[j + 1].side = s /\ j + 1 \in DOMAIN f
          BY <1>2, <1>3, <4>1
        <4>3. j + 1 = 1
          BY <1>2, <1>4, <2>1, <4>2
        <4> QED  BY <1>1, <4>1, <4>3
      <3> QED  BY <3>3, <3>4
    <2>2. CASE s # f[1].side
      <3>1. held[s] = left[s]
        BY <1>2, <2>2 DEF f
      <3>2. CASE held[s] = Kept(plan) /\ \A i \in DOMAIN f : f[i].side # s
        BY <1>2, <1>3, <3>1, <3>2
      <3>3. CASE held[s] > Kept(plan) /\ \E i \in DOMAIN f : f[i] = Trim(s, held[s] - Kept(plan))
        <4>1. PICK i \in DOMAIN f : f[i] = Trim(s, held[s] - Kept(plan))
          BY <3>3
        <4>2. i # 1
          BY <2>2, <4>1 DEF Trim
        <4>3. i - 1 \in DOMAIN rest.fixes /\ rest.fixes[i - 1] = f[i]
          <5>1. \A n \in Nat : \A k \in 1 .. n : k # 1 => k - 1 \in 1 .. n - 1 /\ (k - 1) + 1 = k
            OBVIOUS
          <5>2. Len(f) \in Nat /\ i \in 1 .. Len(f)
            BY <1>1
          <5>3. i - 1 \in 1 .. Len(f) - 1 /\ (i - 1) + 1 = i
            BY <4>2, <5>1, <5>2
          <5> QED  BY <1>2, <1>3, <5>3
        <4> QED  BY <1>3, <3>1, <3>3, <4>1, <4>3
      <3> QED  BY <1>a, <3>2, <3>3 DEF Hedges
    <2> QED  BY <2>1, <2>2
  <1>7. Hedges(rest, left)
    BY <1>5, <1>6 DEF Hedges
  <1> QED  BY <1>7 DEF rest

LEMMA FollowSound ==
    ASSUME IInv, Sound, NEW plan \in Plans, plan.mark # "query",
           Follow(plan, "opening", "opening", FALSE), ~alarmed', trade.status = "opening",
           opener.pc \in {"waiting", "fixing"},
           UNCHANGED <<pos, closer, envVars>>,
           \A y \in Slots : order[y].net # "travelling",
           liquidated = 0 => Hedges(plan, pos),
           \/ plan.mark = "open"
           \/ plan.alert = "critical"
           \/ plan.fixes = <<>> /\ \A s \in Sides : pos[s] = 0
    PROVE  Sound'
  <1>0. /\ closer.pc = "idle" /\ trade \in TradeType /\ opener \in OpenerType /\ liquidated' = liquidated
        /\ plan.mark \in {"open", "failed"}
    BY DEF Sound, CloserHasPair, IInv, TypeOK, envVars, Plans
  <1>1. CASE plan.fixes = <<>>
    <2> DEFINE marked == IF plan.mark = "open" THEN "open" ELSE "leg_failed"
    <2>1. /\ trade' = [trade EXCEPT !.status = marked,
                                    !.qty = IF plan.mark = "open" THEN plan.qty ELSE @]
          /\ visible' = (visible /\ marked # "leg_failed")
          /\ row' = marked
          /\ plan.alert # "critical"
          /\ opener' = [opener EXCEPT !.pc = "collecting", !.plan = plan]
          /\ order' = order
      BY <1>1, Zenon DEF Follow, Conclude
    <2>2. /\ trade'.status = marked /\ opener'.pc = "collecting"
          /\ plan.mark = "open" => trade'.qty = plan.qty
      BY <1>0, <2>1 DEF TradeType, OpenerType
    <2>3. \A s \in Sides : liquidated = 0 => pos[s] = Kept(plan)
      BY <1>1 DEF Hedges
    <2>4. FinalIsFlat' /\ OpenIsEven'
      BY <1>0, <2>1, <2>2, <2>3 DEF FinalIsFlat, OpenIsEven, Kept
    <2>5. StaysOnScreen'
      <3>1. LoadOutcomes \subseteq {TRUE} => visible
        BY DEF Sound, StaysOnScreen, ActiveStatuses
      <3>2. marked = "leg_failed" => trade'.status \notin ActiveStatuses
        BY <2>2 DEF ActiveStatuses
      <3> HIDE DEF marked
      <3>3. LoadOutcomes \subseteq {TRUE} /\ trade'.status \in ActiveStatuses => visible'
        BY <2>1, <3>1, <3>2, Zenon
      <3> QED  BY <3>3 DEF StaysOnScreen
    <2> QED
      BY <1>0, <2>1, <2>2, <2>4, <2>5
      DEF Sound, StatusAgrees, OrdersTravelInTime, NothingYet, LegsAreFills, RestHedges, CloserHasPair
  <1>2. CASE plan.fixes # <<>>
    <2> DEFINE h == Head(plan.fixes)
    <2>1. /\ Send({FixOf(h.side)}, [s \in Sides |-> h.qty])
          /\ trade' = [trade EXCEPT !.status = "opening"]
          /\ row' = "opening"
          /\ visible' = visible
          /\ opener' = [opener EXCEPT !.pc = "fixing", !.plan = plan]
      BY <1>2 DEF Follow, FixOf
    <2>2. h \in [side : Sides, qty : Nat]
      <3>1. plan.fixes \in Seq([side : Sides, qty : Nat])
        BY DEF Plans
      <3> QED  BY <1>2, <3>1, HeadTailProperties
    <2>3. trade'.status = "opening" /\ opener'.pc = "fixing" /\ opener'.plan = plan
      BY <1>0, <2>1 DEF TradeType, OpenerType
    <2>4. Head1' = h /\ InFix' = FixOf(h.side)
      BY <2>3 DEF Head1, InFix
    <2> HIDE DEF h
    <2>5. /\ FixOf(h.side) \in Slots /\ FixOf(h.side) \notin Exit
          /\ \A y \in Slots : y # FixOf(h.side) => order'[y] = order[y]
          /\ order'[FixOf(h.side)] = Travelling(h.qty)
          /\ ticket'[FixOf(h.side)] = Sent
      <3>1. FixOf(h.side) \in Slots /\ FixOf(h.side) \notin Exit /\ FixOf(h.side)[2] = h.side
        BY <2>2, OfFacts DEF FixOf
      <3> QED  BY <2>1, <2>2, <3>1 DEF Send
    <2>6. \A s \in Sides : Held'[s] = pos[s]
      BY <2>2, <2>4, <2>5 DEF Held, Travelling, IInv, TypeOK
    <2>7. Held' = pos
      BY <2>6 DEF Held, IInv, TypeOK
    <2>8. plan.mark = "open" \/ plan.alert = "critical"
      BY <1>2
    <2>9. Truthful(InFix)' /\ order'[InFix'].qty = h.qty
      BY <2>4, <2>5 DEF Truthful, Travelling, Sent, NoTicket
    <2>10. RestHedges'
      BY <1>0, <2>3, <2>4, <2>5, <2>7, <2>8, <2>9 DEF RestHedges
    <2>11. OrdersTravelInTime'
      BY <2>3, <2>5 DEF OrdersTravelInTime
    <2> QED
      BY <1>0, <2>1, <2>3, <2>10, <2>11
      DEF Sound, StatusAgrees, NothingYet, FinalIsFlat, OpenIsEven, LegsAreFills, CloserHasPair,
          StaysOnScreen, ActiveStatuses
  <1> QED  BY <1>1, <1>2

LEMMA DecideSound ==
    ASSUME IInv, Sound, Decide, ~alarmed'
    PROVE  Sound'
  <1> DEFINE filled == [s \in Sides |-> ticket[OpenOf(s)].filled]
  <1>1. /\ opener.pc = "waiting" /\ trade.status = "opening" /\ row = "opening"
        /\ \A y \in Slots \ Entry : order[y].net = "none"
        /\ \A s \in Sides : /\ Truthful(OpenOf(s))
                            /\ pos[s] <= order[OpenOf(s)].filled
                            /\ liquidated = 0 => pos[s] = order[OpenOf(s)].filled
    BY DEF Decide, Sound, LegsAreFills, StatusAgrees
  <1>2. /\ pos \in [Sides -> Nat] /\ ticket \in [Slots -> TicketType] /\ order \in [Slots -> OrderType]
        /\ alarmed \in BOOLEAN /\ trade.qty \in Nat
    BY DEF IInv, TypeOK, TradeType
  <1>3. \A s \in Sides : /\ ticket[OpenOf(s)].outcome \in {"filled", "partial", "rejected"}
                         /\ ticket[OpenOf(s)].filled \in Nat
    BY <1>1, <1>2, OfFacts DEF Decide, Settled, Unresolved, Truthful, TicketType, Outcomes
  <1>4. \A s \in Sides : /\ order[OpenOf(s)].net = "done"
                         /\ order[OpenOf(s)].filled = filled[s]
    BY <1>1, <1>3 DEF Truthful
  <1>5. \A y \in Slots : order[y].net # "travelling"
    BY <1>1, <1>4, SlotKinds
  <1>6. EntryPlan \in Plans
    BY PlanFacts DEF IInv
  <1>7. EntryPlan.mark # "query"
    <2>1. /\ ticket[<<"open", "long">>].outcome # "unknown"
          /\ ticket[<<"open", "short">>].outcome # "unknown"
      BY <1>3 DEF OpenOf, Sides
    <2> QED  BY <2>1 DEF EntryPlan, DecideOpen, Plan
  <1>8. Hedges(EntryPlan, filled) /\ Alerts(EntryPlan)
    <2>1. filled = [s \in Sides |-> IF s = "long" THEN ticket[<<"open", "long">>].filled
                                    ELSE ticket[<<"open", "short">>].filled]
      BY DEF OpenOf, Sides
    <2>2. ticket[<<"open", "long">>].filled \in Nat /\ ticket[<<"open", "short">>].filled \in Nat
      BY <1>3 DEF OpenOf, Sides
    <2> HIDE DEF filled
    <2> QED  BY <1>2, <1>7, <2>1, <2>2, DecideOpenHedges, DecideOpenAlerts DEF EntryPlan
  <1>9. liquidated = 0 => Hedges(EntryPlan, pos)
    <2>1. liquidated = 0 => pos = filled
      BY <1>1, <1>2, <1>4
    <2> QED  BY <1>8, <2>1
  <1>10. \/ EntryPlan.mark = "open"
         \/ EntryPlan.alert = "critical"
         \/ EntryPlan.fixes = <<>> /\ \A s \in Sides : pos[s] = 0
    <2>1. CASE EntryPlan.fixes # <<>>
      BY <1>8, <2>1 DEF Alerts
    <2>2. CASE EntryPlan.fixes = <<>> /\ EntryPlan.mark # "open"
      <3>1. \A s \in Sides : filled[s] = 0
        BY <1>8, <2>2 DEF Hedges, Kept
      <3> QED  BY <1>1, <1>2, <1>4, <2>2, <3>1
    <2> QED  BY <2>1, <2>2
  <1>11. Follow(EntryPlan, "opening", "opening", FALSE)
    <2>1. Follow(EntryPlan, "opening", "opening", alarmed)
      BY <1>1 DEF Decide
    <2>2. alarmed = FALSE
      BY <1>2, <2>1 DEF Follow, Conclude
    <2> QED  BY <2>1, <2>2
  <1>12. UNCHANGED <<pos, closer, envVars>>
    BY DEF Decide
  <1> QED  BY <1>1, <1>5, <1>6, <1>7, <1>9, <1>10, <1>11, <1>12, FollowSound

LEMMA FixAnsweredSound ==
    ASSUME IInv, Sound, FixAnswered, ~alarmed'
    PROVE  Sound'
  <1> DEFINE rest == [opener.plan EXCEPT !.fixes = Tail(@)]
  <1>1. /\ opener.pc = "fixing" /\ trade.status = "opening" /\ row = "opening"
        /\ opener.plan.mark = "open" \/ opener.plan.alert = "critical"
        /\ opener.plan.mark # "query"
        /\ Truthful(InFix) /\ order[InFix].qty = Head1.qty
        /\ \A y \in Slots \ {InFix} : order[y].net # "travelling"
        /\ liquidated = 0 => Hedges(opener.plan, Held)
    BY DEF FixAnswered, Sound, RestHedges, StatusAgrees
  <1>2. /\ opener.plan \in Plans /\ opener.plan.fixes # <<>> /\ alarmed \in BOOLEAN
        /\ opener.plan.fixes \in Seq([side : Sides, qty : Nat]) /\ pos \in [Sides -> Nat]
        /\ order \in [Slots -> OrderType]
    BY <1>1 DEF IInv, TypeOK, OpenerType, Plans
  <1>3. Head1 \in [side : Sides, qty : Nat] /\ Tail(opener.plan.fixes) \in Seq([side : Sides, qty : Nat])
    BY <1>2, HeadTailProperties DEF Head1
  <1>4. rest \in Plans /\ rest.mark = opener.plan.mark /\ rest.alert = opener.plan.alert
    BY <1>2, <1>3 DEF Plans
  <1>5. /\ ~FixFailed(InFix)
        /\ Follow(rest, "opening", "opening", alarmed)
    <2>1. IF FixFailed(InFix) THEN Follow(rest, "leg_lost", "leg_lost", TRUE)
                              ELSE Follow(rest, "opening", "opening", alarmed)
      BY <1>1, Zenon DEF FixAnswered, InFix, FixOf, Head1
    <2> HIDE DEF rest
    <2>2. ~Follow(rest, "leg_lost", "leg_lost", TRUE)
      BY DEF Follow, Conclude
    <2> QED  BY <2>1, <2>2
  <1> HIDE DEF rest
  <1>6. alarmed = FALSE
    BY <1>2, <1>5 DEF Follow, Conclude
  <1>7. order[InFix].net = "done" /\ order[InFix].filled = Head1.qty
    BY <1>1, <1>5 DEF FixFailed, Truthful
  <1>8. \A y \in Slots : order[y].net # "travelling"
    BY <1>1, <1>7
  <1>9. liquidated = 0 => Hedges(rest, pos)
    <2>1. Held \in [Sides -> Nat]
      BY <1>2, <1>3, <1>7 DEF Held
    <2>2. \A s \in Sides : Held[s] = pos[s] + IF s = Head(opener.plan.fixes).side
                                              THEN Head(opener.plan.fixes).qty ELSE 0
      BY <1>7 DEF Held, Head1
    <2>3. Hedges(opener.plan, Held) => Hedges([opener.plan EXCEPT !.fixes = Tail(@)], pos)
      BY <1>2, <2>1, <2>2, TailHedges, Zenon
    <2> QED  BY <1>1, <2>3 DEF rest
  <1>10. rest.mark # "query"
    BY <1>1, <1>4
  <1>11. UNCHANGED <<pos, closer, envVars>>
    BY DEF FixAnswered
  <1> QED  BY <1>1, <1>4, <1>5, <1>6, <1>8, <1>9, <1>10, <1>11, FollowSound

LEMMA FinishOpenSound ==
    ASSUME IInv, Sound, FinishOpen
    PROVE  Sound'
  <1>1. /\ UNCHANGED <<trade, row, visible, alarmed, pos, closer, order, liquidated>>
        /\ opener'.pc = "done"
    BY DEF FinishOpen, Returned, envVars, Sound, StatusAgrees
  <1> QED
    BY <1>1, SoundOrders
    DEF Sound, OrdersTravelInTime, NothingYet, FinalIsFlat, OpenIsEven, LegsAreFills, RestHedges,
        CloserHasPair

LEMMA OpeningSound ==
    ASSUME IInv, Sound, Opening, ~alarmed'
    PROVE  Sound'
  <1>1. ~HandOver /\ ~GiveUp
    BY DEF HandOver, GiveUp
  <1>2. ~NextRound
    BY DEF NextRound, Sound
  <1> QED
    BY <1>1, <1>2, OpenPairSound, DecideSound, FixAnsweredSound, FinishOpenSound DEF Opening

-----------------------------------------------------------------------------
(* The poller, the closer and the restart, as long as they raise no alarm *)

(* A poll without an alarm changes no status: a pair found again was lost before. *)
LEMMA QuietReconcile ==
    ASSUME IInv, StatusAgrees, NEW complete \in BOOLEAN, Reconcile(complete), ~alarmed'
    PROVE  /\ trade'.status = trade.status
           /\ trade'.qty = trade.qty
           /\ UNCHANGED <<row, visible>>
  <1> DEFINE missing == complete /\ LegMissing
  <1> DEFINE polls == IF missing THEN Lesser(trade.missing + 1, MissingPollsForLost) ELSE 0
  <1> DEFINE status == IF polls >= MissingPollsForLost /\ trade.status = "open" THEN "leg_lost"
                       ELSE IF ~missing /\ trade.status = "leg_lost" THEN "open"
                       ELSE trade.status
  <1>1. trade \in TradeType
    BY DEF IInv, TypeOK
  <1>2. Reconciled(complete) = [trade EXCEPT !.missing = polls, !.status = status]
    BY <1>1 DEF Reconciled, TradeType
  <1> HIDE DEF polls, missing
  <1>3. status \in {"leg_lost", trade.status}
    BY DEF StatusAgrees
  <1>4. status = "leg_lost" => trade.status = "open"
    BY DEF StatusAgrees
  <1> HIDE DEF status
  <1>5. Polled(complete).qty = trade.qty /\ Polled(complete).status \in {status, trade.status}
    BY <1>1, <1>2 DEF Polled, TradeType
  <1>6. ~(trade.status = "open" /\ Polled(complete).status = "leg_lost")
    BY DEF Reconcile
  <1>7. Polled(complete).status = trade.status
    BY <1>3, <1>4, <1>5, <1>6
  <1> QED  BY <1>5, <1>7 DEF Reconcile

LEMMA PollSound ==
    ASSUME IInv, Sound, NEW complete \in BOOLEAN, Poll(complete), ~alarmed'
    PROVE  Sound'
  <1>1. /\ trade'.status = trade.status /\ trade'.qty = trade.qty
        /\ UNCHANGED <<row, visible, pos, order, ticket, opener, closer, liquidated>>
    BY QuietReconcile DEF Poll, envVars, Sound
  <1>2. RestHedges'
    BY <1>1 DEF Sound, RestHedges, Truthful, InFix, Head1, Held
  <1>3. LegsAreFills'
    BY <1>1 DEF Sound, LegsAreFills, Truthful
  <1> QED
    BY <1>1, <1>2, <1>3, SoundOrders
    DEF Sound, OrdersTravelInTime, NothingYet, FinalIsFlat, OpenIsEven, CloserHasPair

LEMMA ClosePairSound ==
    ASSUME IInv, Sound, ClosePair
    PROVE  Sound'
  <1>1. /\ trade.status \notin {"opening", "closing"} /\ visible
        /\ trade'.status = "closing" /\ row' = "closing"
        /\ closer'.pc = "fresh" /\ closer'.sides = Sides
        /\ UNCHANGED <<visible, pos, order, ticket, opener, liquidated>>
    BY DEF ClosePair, Pressed, envVars, IInv, TypeOK, TradeType
  <1>2. opener.pc \notin {"idle", "waiting", "fixing", "background"}
    BY <1>1 DEF Sound, NothingYet, LegsAreFills, RestHedges
  <1>3. OrdersTravelInTime'
    BY <1>1 DEF Sound, OrdersTravelInTime
  <1> QED
    BY <1>1, <1>2, <1>3
    DEF Sound, StatusAgrees, NothingYet, FinalIsFlat, OpenIsEven, LegsAreFills, RestHedges,
        CloserHasPair, StaysOnScreen

(* The parts of Sound a step of the closer has to look at: the pair is closing,
   so the opener is done with it. *)
LEMMA CloserSteps ==
    ASSUME IInv, Sound, closer.pc # "idle",
           trade'.status = trade.status, UNCHANGED <<row, visible, opener, pos>>,
           \A x \in Slots \ Exit : order'[x] = order[x],
           CloserHasPair'
    PROVE  Sound'
  <1>1. trade.status = "closing"
    BY DEF Sound, CloserHasPair
  <1>2. opener.pc \notin {"idle", "waiting", "fixing", "background"}
    BY <1>1 DEF Sound, NothingYet, LegsAreFills, RestHedges
  <1>3. OrdersTravelInTime'
    BY <1>1 DEF Sound, OrdersTravelInTime
  <1> QED
    BY <1>1, <1>2, <1>3, SoundOrders
    DEF Sound, NothingYet, FinalIsFlat, OpenIsEven, LegsAreFills, RestHedges

LEMMA FreshLegsSound ==
    ASSUME IInv, Sound, FreshLegs, ~alarmed'
    PROVE  Sound'
  <1> DEFINE targets == {<<"close", s>> : s \in {t \in closer.sides : pos[t] > 0}}
  <1>1. /\ closer.pc = "fresh" /\ closer.sides = Sides /\ trade.status = "closing"
        /\ closer \in CloserType /\ pos \in [Sides -> Nat]
    BY DEF FreshLegs, Sound, CloserHasPair, IInv, TypeOK
  <1>2. /\ trade'.status = trade.status
        /\ UNCHANGED <<row, visible, opener, pos>>
    BY QuietReconcile DEF FreshLegs, Sound
  <1>3. targets \subseteq Exit
    BY <1>1 DEF Exit
  <1>4. /\ order' = [x \in Slots |-> IF x \in targets THEN Travelling(pos[x[2]]) ELSE order[x]]
        /\ closer' = [closer EXCEPT !.pc = IF WholePair /\ targets = {} THEN "settling" ELSE "closing"]
    BY DEF FreshLegs
  <1>5. targets = {} => \A s \in Sides : pos[s] = 0
    <2> SUFFICES ASSUME targets = {}, NEW s \in Sides PROVE pos[s] = 0
      OBVIOUS
    <2>1. ~(pos[s] > 0)
      <3> SUFFICES ASSUME pos[s] > 0 PROVE FALSE
        OBVIOUS
      <3>1. <<"close", s>> \in targets
        BY <1>1
      <3> QED  BY <3>1
    <2> QED  BY <1>1, <2>1
  <1> HIDE DEF targets
  <1>6. \A x \in Slots \ Exit : order'[x] = order[x]
    BY <1>3, <1>4
  <1>7. /\ closer'.pc \in {"settling", "closing"} /\ closer'.sides = Sides
        /\ closer'.pc = "settling" => targets = {}
    BY <1>1, <1>4 DEF CloserType
  <1>8. CloserHasPair'
    BY <1>1, <1>2, <1>5, <1>7 DEF CloserHasPair
  <1> QED  BY <1>1, <1>2, <1>6, <1>8, CloserSteps

LEMMA CloseAnsweredSound ==
    ASSUME IInv, Sound, CloseAnswered, ~alarmed'
    PROVE  Sound'
  <1> DEFINE verdict == DecideClose(ExitOutcome, pos, closer.attempt, CloseAttempts)
  <1>1. /\ closer.pc = "closing" /\ closer.sides = Sides /\ trade.status = "closing" /\ WholePair
        /\ closer \in CloserType /\ pos \in [Sides -> Nat]
    BY DEF CloseAnswered, Sound, CloserHasPair, IInv, TypeOK, WholePair
  <1>2. /\ verdict # "lost"
        /\ Reconcile(TRUE)
        /\ \/ verdict = "closed" /\ closer' = [closer EXCEPT !.pc = "settling"]
           \/ closer' = [closer EXCEPT !.pc = "fresh", !.attempt = @ + 1]
           \/ closer' = Idle
        /\ UNCHANGED <<pos, order, opener>>
    BY <1>1, Zenon DEF CloseAnswered
  <1>3. verdict = "closed" => \A s \in Sides : pos[s] = 0
    BY <1>1 DEF DecideClose
  <1> HIDE DEF verdict
  <1>4. trade'.status = trade.status /\ UNCHANGED <<row, visible>>
    BY <1>2, QuietReconcile DEF Sound
  <1>5. CloserHasPair'
    <2>1. CASE closer' = Idle
      BY <2>1 DEF CloserHasPair, Idle
    <2>2. CASE verdict = "closed" /\ closer' = [closer EXCEPT !.pc = "settling"]
      BY <1>1, <1>2, <1>3, <1>4, <2>2 DEF CloserHasPair, CloserType
    <2>3. CASE closer' = [closer EXCEPT !.pc = "fresh", !.attempt = @ + 1]
      BY <1>1, <1>2, <1>4, <2>3 DEF CloserHasPair, CloserType
    <2> QED  BY <1>2, <2>1, <2>2, <2>3
  <1> QED  BY <1>1, <1>2, <1>4, <1>5, CloserSteps

(* The pair leaves the active set: only closing orders may still be under way,
   and they reduce a leg that holds nothing. *)
LEMMA SettleSound ==
    ASSUME IInv, Sound, Settle
    PROVE  Sound'
  <1>1. /\ trade.status = "closing" /\ \A s \in Sides : pos[s] = 0
    BY DEF Settle, Sound, CloserHasPair
  <1>2. /\ trade'.status = "closed" /\ row' = "closed" /\ closer'.pc = "idle"
        /\ UNCHANGED <<pos, order, opener>>
    BY DEF Settle, Idle, IInv, TypeOK, TradeType
  <1>3. opener.pc \notin {"idle", "waiting", "fixing", "background"}
    BY <1>1 DEF Sound, NothingYet, LegsAreFills, RestHedges
  <1>4. OrdersTravelInTime'
    BY <1>1, <1>2 DEF Sound, OrdersTravelInTime
  <1> QED
    BY <1>1, <1>2, <1>3, <1>4
    DEF Sound, StatusAgrees, NothingYet, FinalIsFlat, OpenIsEven, LegsAreFills, RestHedges,
        CloserHasPair, StaysOnScreen, ActiveStatuses

LEMMA ClosingSound ==
    ASSUME IInv, Sound, Closing, ~alarmed'
    PROVE  Sound'
  <1>1. ~FreshLegsFail /\ ~CloseAnsweredFail
    <2>1. closer.pc # "idle" => WholePair
      BY DEF Sound, CloserHasPair, WholePair
    <2> QED  BY <2>1 DEF FreshLegsFail, CloseAnsweredFail
  <1>2. ~Fail
    BY DEF Fail, Sound, CloserHasPair
  <1> QED
    BY <1>1, <1>2, FreshLegsSound, CloseAnsweredSound, SettleSound DEF Closing

(* The row is all that is left of the status, and the row is the status. *)
LEMMA RestartSound ==
    ASSUME IInv, Sound, Restart
    PROVE  Sound'
  <1>1. trade \in TradeType /\ trade.status = row /\ opener.pc # "idle"
    BY DEF IInv, TypeOK, Sound, StatusAgrees, Restart
  <1>2. /\ trade'.status = trade.status /\ trade'.qty = trade.qty
        /\ opener'.pc = "done" /\ closer'.pc = "idle"
        /\ UNCHANGED <<row, pos, order, liquidated>>
    BY <1>1 DEF Restart, TradeType, Returned, Idle
  <1>3. StaysOnScreen'
    BY <1>1, <1>2 DEF Restart, StaysOnScreen
  <1> QED
    BY <1>1, <1>2, <1>3
    DEF Sound, StatusAgrees, OrdersTravelInTime, NothingYet, FinalIsFlat, OpenIsEven, LegsAreFills,
        RestHedges, CloserHasPair

-----------------------------------------------------------------------------
(* The invariant: as long as no CRITICAL was emitted, the pair is sound *)

Watched == ~alarmed => Sound

LEMMA InitWatched == Init => Watched
  BY DEF Init, Watched, Sound, StatusAgrees, OrdersTravelInTime, NothingYet, FinalIsFlat, OpenIsEven,
         LegsAreFills, RestHedges, CloserHasPair, StaysOnScreen, ActiveStatuses, NoOrder, Idle

(* An alarm is never taken back. *)
LEMMA AlarmStays ==
    ASSUME IInv, [Next]_vars, alarmed
    PROVE  alarmed'
  <1>1. CASE Exchanges \/ (\E x \in Slots : Answers(x)) \/ UNCHANGED vars \/ User \/ Restart
    BY <1>1 DEF Exchanges, Land, Liquidate, Answers, Acknowledge, TimeOut, QueryFound, QueryNotFound,
       QueryUnclear, Learn, User, ClosePair, CloseLeg, CloseRecord, Restart, vars, tradeVars
  <1>2. CASE Opening
    <2>1. ASSUME NEW p, NEW s, NEW r, NEW a, a, Follow(p, s, r, a)
          PROVE  alarmed'
      BY <2>1 DEF Follow, Conclude
    <2>2. CASE FixAnswered
      <3> DEFINE rest == [opener.plan EXCEPT !.fixes = Tail(@)]
      <3>1. \/ Follow(rest, "leg_lost", "leg_lost", TRUE)
            \/ Follow(rest, trade.status, row, alarmed)
        BY <2>2 DEF FixAnswered
      <3> HIDE DEF rest
      <3> QED  BY <2>1, <3>1
    <2>3. CASE Decide
      BY <2>1, <2>3 DEF Decide
    <2> QED
      BY <1>2, <2>2, <2>3 DEF Opening, OpenPair, HandOver, NextRound, GiveUp, FinishOpen, tradeVars
  <1>3. CASE Closing \/ \E complete \in BOOLEAN : Poll(complete)
    BY <1>3 DEF Closing, FreshLegs, FreshLegsFail, CloseAnswered, CloseAnsweredFail, Settle, Fail,
       Poll, Reconcile, tradeVars
  <1> QED  BY <1>1, <1>2, <1>3 DEF Next

LEMMA NextWatched ==
    ASSUME OnlyPairsClose, IInv, Watched, [Next]_vars
    PROVE  Watched'
  <1> SUFFICES ASSUME ~alarmed' PROVE Sound'
    BY DEF Watched
  <1>1. Sound
    BY AlarmStays DEF Watched
  <1>2. CASE Exchanges
    BY <1>1, <1>2, LandSound, LiquidateSound DEF Exchanges
  <1>3. CASE \E x \in Slots : Answers(x)
    BY <1>1, <1>3, AnswersSound
  <1>4. CASE Opening
    BY <1>1, <1>4, OpeningSound
  <1>5. CASE Closing
    BY <1>1, <1>5, ClosingSound
  <1>6. CASE User
    <2>1. ClosePair
      BY <1>6 DEF User, CloseLeg, CloseRecord, Pressed, OnlyPairsClose
    <2> QED  BY <1>1, <2>1, ClosePairSound
  <1>7. CASE \E complete \in BOOLEAN : Poll(complete)
    BY <1>1, <1>7, PollSound
  <1>8. CASE Restart
    BY <1>1, <1>8, RestartSound
  <1>9. CASE UNCHANGED vars
    BY <1>1, <1>9, ZenonT(40) DEF vars, tradeVars, envVars, Sound, StatusAgrees, OrdersTravelInTime, NothingYet,
       FinalIsFlat, OpenIsEven, LegsAreFills, RestHedges, CloserHasPair, StaysOnScreen, Truthful,
       InFix, Head1, Held
  <1> QED  BY <1>2, <1>3, <1>4, <1>5, <1>6, <1>7, <1>8, <1>9 DEF Next

LEMMA WatchedAlways ==
    ASSUME OnlyPairsClose
    PROVE  Spec => [](IInv /\ Watched)
  <1>1. Init => IInv /\ Watched
    BY InitType, InitWatched
  <1>2. IInv /\ Watched /\ [Next]_vars => (IInv /\ Watched)'
    BY NextType, NextWatched
  <1> QED  BY <1>1, <1>2, PTL DEF Spec

(* No path of open_pair, close_pair, the poller or a restart leaves a leg
   without its hedge in silence: whatever the orders fill, time out or get
   lost, the tasks end with a CRITICAL or with a pair on the screen as opening
   or closing, if the database is there when the terminal starts. *)
THEOREM NakedLegsAlarmed ==
    ASSUME OnlyPairsClose, LoadOutcomes \subseteq {TRUE}
    PROVE  Spec => []NakedLegIsAlarmed
  <1>1. IInv /\ Watched => NakedLegIsAlarmed
    <2> SUFFICES ASSUME Sound, Quiet, Naked, ~alarmed
                 PROVE  visible /\ trade.status \in {"opening", "closing"}
      BY DEF Watched, NakedLegIsAlarmed
    <2>1. trade.status \notin {"none", "closed", "leg_failed", "open"}
      BY DEF Sound, FinalIsFlat, OpenIsEven, Naked, Sides
    <2>2. trade.status \in {"opening", "closing"}
      BY <2>1 DEF Sound, StatusAgrees
    <2> QED  BY <2>2 DEF Sound, StaysOnScreen, ActiveStatuses
  <1> QED  BY <1>1, WatchedAlways, PTL

(* A pair shown open about which nothing CRITICAL was said holds its recorded
   quantity on both exchanges, however decide_open came to that quantity. *)
THEOREM OpenPairsHedged ==
    ASSUME OnlyPairsClose
    PROVE  Spec => []OpenIsHedged
  <1>1. IInv /\ Watched => OpenIsHedged
    BY DEF Watched, OpenIsHedged, Sound, OpenIsEven
  <1> QED  BY <1>1, WatchedAlways, PTL

(* A pair written off or closed without a CRITICAL has left nothing on either
   exchange: a late fill would have to come from an order nobody waits for. *)
THEOREM GonePairsFlat ==
    ASSUME OnlyPairsClose
    PROVE  Spec => []GoneIsFlat
  <1>1. IInv /\ Watched => GoneIsFlat
    BY DEF Watched, GoneIsFlat, Sound, StatusAgrees, FinalIsFlat, FinalStatuses
  <1> QED  BY <1>1, WatchedAlways, PTL
=============================================================================
