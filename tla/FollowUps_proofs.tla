--------------------------- MODULE FollowUps_proofs ---------------------------
(***************************************************************************)
(* Type correctness of FollowUps, and that a follow-up is sent once for an *)
(* answer and never after a message the dispatcher could see, for every    *)
(* number of messages, dispatchers and rules and every choice of faults.   *)
(***************************************************************************)
EXTENDS FollowUps, TLAPS

-----------------------------------------------------------------------------
(* Types. *)

PlanOrNone == Plan \union {NoPlan}
Dispatcher == [pc : Steps, plan : PlanOrNone, copy : PlanOrNone, now : Nat, seen : SUBSET Msg]

\* Where a dispatcher has a plan in hand.
HasPlan == Steps \ {"idle", "read", "clear", "clearing"}

LocalsOK(x) ==
  /\ x.pc \in HasPlan => x.plan \in Plan
  /\ x.pc = "plan" => x.plan.rule + 1 < NRules

TypeInv == TypeOK /\ \A d \in Disp : LocalsOK(dp[d])

\* No plan is told from a plan by its answer.
LEMMA NoPlanIs == NoPlan \notin Plan /\ \A p \in PlanOrNone : p # NoPlan => p \in Plan
BY FollowUpAssumption DEF NoPlan, Plan, PlanOrNone, Answer

LEMMA IdleType == IdleDispatcher \in Dispatcher /\ LocalsOK(IdleDispatcher)
BY DEF IdleDispatcher, Dispatcher, PlanOrNone, Steps, LocalsOK, HasPlan

LEMMA PlannedType ==
  ASSUME NEW rule \in Rule, NEW anchor \in Nat, NEW of \in Answer
  PROVE  Planned(rule, anchor, of) \in Plan
BY DEF Planned, Plan

\* A dispatcher's step is known by what it makes of the dispatcher.
LEMMA DispatcherType ==
  ASSUME TypeInv, NEW d \in Disp, dp' = [dp EXCEPT ![d] = dp'[d]],
         dp'[d] \in Dispatcher, LocalsOK(dp'[d])
  PROVE  /\ dp' \in [Disp -> Dispatcher]
         /\ \A e \in Disp : LocalsOK(dp'[e])
BY DEF TypeInv, TypeOK, Dispatcher, PlanOrNone

LEMMA DoneType ==
  ASSUME TypeInv, NEW d \in Disp, Done(d) \/ Clear(d)
  PROVE  /\ dp' \in [Disp -> Dispatcher]
         /\ \A e \in Disp : LocalsOK(dp'[e])
<1>1. dp \in [Disp -> Dispatcher]
  BY DEF TypeInv, TypeOK, Dispatcher, PlanOrNone
<1>2. [IdleDispatcher EXCEPT !.pc = "clear"] \in Dispatcher
  BY DEF IdleDispatcher, Dispatcher, PlanOrNone, Steps
<1>3. LocalsOK([IdleDispatcher EXCEPT !.pc = "clear"])
  BY DEF IdleDispatcher, LocalsOK, HasPlan
<1>4. dp'[d] \in Dispatcher /\ LocalsOK(dp'[d]) /\ dp' = [dp EXCEPT ![d] = dp'[d]]
  BY <1>1, <1>2, <1>3, IdleType DEF Done, Clear
<1>5. QED
  BY <1>4, DispatcherType

\* Another step, the plan and the rest in hand as they are.
LEMMA GotoType ==
  ASSUME TypeInv, NEW d \in Disp, NEW pc \in Steps \ {"plan"}, Goto(d, pc),
         pc \in HasPlan => dp[d].pc \in HasPlan
  PROVE  /\ dp' \in [Disp -> Dispatcher]
         /\ \A e \in Disp : LocalsOK(dp'[e])
<1>1. dp \in [Disp -> Dispatcher] /\ LocalsOK(dp[d])
  BY DEF TypeInv, TypeOK, Dispatcher, PlanOrNone
<1>2. /\ dp' = [dp EXCEPT ![d] = dp'[d]] /\ dp'[d] \in Dispatcher
      /\ dp'[d].pc = pc /\ dp'[d].plan = dp[d].plan
  BY <1>1 DEF Goto, Dispatcher
<1>3. LocalsOK(dp'[d])
  BY <1>1, <1>2 DEF LocalsOK
<1>4. QED
  BY <1>2, <1>3, DispatcherType

LEMMA AfterRuleType ==
  ASSUME TypeInv, NEW d \in Disp, dp[d].pc \in HasPlan, AfterRule(d)
  PROVE  /\ dp' \in [Disp -> Dispatcher]
         /\ \A e \in Disp : LocalsOK(dp'[e])
<1>1. dp \in [Disp -> Dispatcher] /\ LocalsOK(dp[d])
  BY DEF TypeInv, TypeOK, Dispatcher, PlanOrNone
<1>2. CASE dp[d].plan.rule + 1 < NRules
  <2>1. /\ dp' = [dp EXCEPT ![d] = dp'[d]] /\ dp'[d] \in Dispatcher
        /\ dp'[d].pc = "plan" /\ dp'[d].plan = dp[d].plan
    BY <1>1, <1>2 DEF AfterRule, Dispatcher, PlanOrNone, Steps
  <2>2. LocalsOK(dp'[d])
    BY <1>1, <1>2, <2>1 DEF LocalsOK
  <2>3. QED
    BY <2>1, <2>2, DispatcherType
<1>3. CASE ~(dp[d].plan.rule + 1 < NRules)
  BY <1>3, DoneType DEF AfterRule
<1>4. QED
  BY <1>2, <1>3

\* The rest of TypeOK.
RowsOK ==
  /\ plan \in PlanOrNone
  /\ stage \in [Msg -> Stages] /\ at \in [Msg -> Nat] /\ answer \in [Answer -> Nat]
  /\ sent \in [Rule \X Answer -> Nat] /\ sentAt \in [Rule -> Nat \union {-1}]
  /\ restored \in BOOLEAN
  /\ writer \in [pc : {"idle", "read"}, copy : PlanOrNone]
  /\ on \in BOOLEAN /\ resolved \in BOOLEAN
  /\ clock \in Nat
  /\ faults \subseteq Faults

DpOK == dp \in [Disp -> Dispatcher] /\ \A d \in Disp : LocalsOK(dp[d])

LEMMA TypeParts == TypeInv <=> RowsOK /\ DpOK
BY DEF TypeInv, TypeOK, RowsOK, DpOK, Dispatcher, PlanOrNone

LEMMA TypeInit == Init => TypeInv
<1> SUFFICES ASSUME Init PROVE RowsOK /\ DpOK
  BY TypeParts
<1>1. 0 \in Rule /\ First \in Answer
  BY FollowUpAssumption DEF Rule, Answer
<1>2. RowsOK
  BY <1>1, PlannedType DEF Init, RowsOK, PlanOrNone, Stages, IdleWriter
<1>3. DpOK
  BY IdleType DEF Init, DpOK
<1>4. QED
  BY <1>2, <1>3

\* The steps of a dispatcher.
LEMMA DispatchType ==
  ASSUME TypeInv, NEW d \in Disp, Dispatch(d) \/ Throw(d) \/ Crash(d)
  PROVE  RowsOK' /\ DpOK'
<1>1. RowsOK /\ dp \in [Disp -> Dispatcher] /\ LocalsOK(dp[d]) /\ dp[d] \in Dispatcher
  BY TypeParts DEF DpOK
<1>2. CASE Select(d)
  BY <1>1, <1>2, GotoType DEF Select, At, Steps, HasPlan, RowsOK, DpOK, msgVars, sentVars
<1>3. CASE Read(d)
  <2>1. RowsOK'
    BY <1>1, <1>3 DEF Read, RowsOK, msgVars, sentVars
  <2>2. CASE Done(d) \/ Clear(d)
    BY <2>1, <2>2, DoneType DEF DpOK
  <2>3. CASE dp' = [dp EXCEPT ![d].pc = "look", ![d].plan = plan, ![d].now = clock] /\ plan # NoPlan
    <3>1. plan \in Plan
      BY <1>1, <2>3, NoPlanIs DEF RowsOK
    <3>2. /\ dp' = [dp EXCEPT ![d] = dp'[d]] /\ dp'[d] \in Dispatcher
          /\ dp'[d].pc = "look" /\ dp'[d].plan = plan
      BY <1>1, <2>3 DEF Dispatcher, Steps, RowsOK
    <3>3. QED
      BY <2>1, <3>1, <3>2, DispatcherType DEF LocalsOK, DpOK
  <2>4. QED
    BY <1>3, <2>2, <2>3 DEF Read
<1>4. CASE Look(d)
  <2>1. RowsOK'
    BY <1>1, <1>4 DEF Look, RowsOK, msgVars, sentVars
  <2>2. CASE Clear(d)
    BY <2>1, <2>2, DoneType DEF DpOK
  <2>3. CASE dp' = [dp EXCEPT ![d].pc = "config", ![d].seen = {m \in Msg : Stored(m)}]
    <3>1. dp[d].pc = "look"
      BY <1>4 DEF Look, At
    <3>2. /\ dp' = [dp EXCEPT ![d] = dp'[d]] /\ dp'[d] \in Dispatcher
          /\ dp'[d].pc = "config" /\ dp'[d].plan = dp[d].plan
      BY <1>1, <2>3 DEF Dispatcher, Steps
    <3>3. LocalsOK(dp'[d])
      BY <1>1, <3>1, <3>2 DEF LocalsOK, HasPlan, Steps
    <3>4. QED
      BY <2>1, <3>2, <3>3, DispatcherType DEF DpOK
  <2>4. QED
    BY <1>4, <2>2, <2>3 DEF Look
<1>5. CASE Config(d)
  <2>1. RowsOK'
    BY <1>1, <1>5 DEF Config, RowsOK, msgVars, sentVars
  <2>2. QED
    BY <1>5, <2>1, DoneType, GotoType DEF Config, At, HasPlan, Steps, DpOK
<1>6. CASE Claim(d)
  <2>1. CASE plan # NoPlan /\ plan' = [plan EXCEPT !.token = d] /\ Goto(d, "existing")
    <3>1. plan' \in Plan
      BY <1>1, <2>1, NoPlanIs DEF RowsOK, Plan
    <3>2. DpOK'
      BY <1>6, <2>1, GotoType DEF Claim, At, HasPlan, Steps, DpOK
    <3>3. RowsOK'
      BY <1>1, <1>6, <3>1 DEF Claim, Fault, RowsOK, PlanOrNone, msgVars, sentVars
    <3>4. QED
      BY <3>2, <3>3
  <2>2. CASE Done(d) /\ UNCHANGED <<plan, faults>>
    BY <1>1, <1>6, <2>2, DoneType DEF Claim, RowsOK, DpOK, msgVars, sentVars
  <2>3. QED
    BY <1>6, <2>1, <2>2 DEF Claim
<1>7. CASE Existing(d)
  <2>1. RowsOK'
    BY <1>1, <1>7 DEF Existing, RowsOK, msgVars, sentVars
  <2>2. QED
    BY <1>7, <2>1, AfterRuleType, GotoType DEF Existing, At, HasPlan, Steps, DpOK
<1>8. CASE Generate(d)
  <2>1. RowsOK'
    BY <1>1, <1>8 DEF Generate, Fault, RowsOK, msgVars, sentVars
  <2>2. QED
    BY <1>8, <2>1, DoneType, GotoType DEF Generate, At, HasPlan, Steps, DpOK
<1>9. CASE SendRows(d)
  <2>1. dp[d].pc = "send" /\ dp[d].plan \in Plan
    BY <1>1, <1>9 DEF SendRows, At, LocalsOK, HasPlan, Steps
  <2>2. dp[d].plan.rule \in Rule /\ dp[d].plan.of \in Answer
    BY <2>1 DEF Plan
  <2>3. RowsOK'
    BY <1>1, <1>9, <2>2 DEF SendRows, RowsOK, msgVars
  <2>4. /\ dp' = [dp EXCEPT ![d] = dp'[d]] /\ dp'[d] \in Dispatcher
        /\ dp'[d].pc = "analytics" /\ dp'[d].plan = dp[d].plan
    BY <1>1, <1>9 DEF SendRows, Dispatcher, Steps
  <2>5. QED
    BY <2>1, <2>3, <2>4, DispatcherType DEF LocalsOK, DpOK
<1>10. CASE ReadAnalytics(d)
  <2>1. RowsOK'
    BY <1>1, <1>10 DEF ReadAnalytics, RowsOK, msgVars, sentVars
  <2>2. dp[d].pc = "analytics" /\ dp[d].plan \in Plan
    BY <1>1, <1>10 DEF ReadAnalytics, At, LocalsOK, HasPlan, Steps
  <2>3. CASE dp' = [dp EXCEPT ![d].pc = "analyse", ![d].copy = plan]
    <3>1. /\ dp' = [dp EXCEPT ![d] = dp'[d]] /\ dp'[d] \in Dispatcher
          /\ dp'[d].pc = "analyse" /\ dp'[d].plan = dp[d].plan
      BY <1>1, <2>3 DEF Dispatcher, Steps, RowsOK
    <3>2. QED
      BY <2>1, <2>2, <3>1, DispatcherType DEF LocalsOK, DpOK
  <2>4. QED
    BY <1>10, <2>1, <2>2, <2>3, AfterRuleType DEF ReadAnalytics, HasPlan, Steps, DpOK
<1>11. CASE WriteAnalytics(d)
  <2>1. RowsOK'
    BY <1>1, <1>11 DEF WriteAnalytics, WriteBack, RowsOK, Dispatcher, msgVars
  <2>2. QED
    BY <1>11, <2>1, AfterRuleType DEF WriteAnalytics, At, HasPlan, Steps, DpOK
<1>12. CASE PlanNext(d)
  <2>1. dp[d].plan \in Plan /\ dp[d].plan.rule + 1 < NRules /\ dp[d].now \in Nat
    BY <1>1, <1>12 DEF PlanNext, At, LocalsOK, HasPlan, Steps, Dispatcher
  <2>2. dp[d].plan.rule + 1 \in Rule /\ dp[d].plan.of \in Answer
    BY <2>1, FollowUpAssumption DEF Plan, Rule
  <2>3. plan' \in Plan
    BY <1>12, <2>1, <2>2, PlannedType DEF PlanNext
  <2>4. RowsOK'
    BY <1>1, <1>12, <2>3 DEF PlanNext, RowsOK, PlanOrNone, msgVars, sentVars
  <2>5. QED
    BY <1>12, <2>4, DoneType DEF PlanNext, DpOK
<1>13. CASE ClearPlanRead(d)
  <2>1. RowsOK'
    BY <1>1, <1>13 DEF ClearPlanRead, RowsOK, msgVars, sentVars
  <2>2. QED
    BY <1>13, <2>1, DoneType, GotoType DEF ClearPlanRead, HasPlan, Steps, DpOK
<1>14. CASE ClearPlan(d)
  BY <1>1, <1>14, DoneType DEF ClearPlan, RowsOK, PlanOrNone, DpOK, msgVars, sentVars
<1>15. CASE Throw(d)
  <2>1. plan' \in PlanOrNone
    <3>1. CASE plan # NoPlan /\ plan.token = d
      BY <1>1, <1>15, <3>1, NoPlanIs DEF Throw, RowsOK, Plan, PlanOrNone
    <3>2. QED
      BY <1>1, <1>15, <3>1 DEF Throw, RowsOK
  <2>2. QED
    BY <1>1, <1>15, <2>1, DoneType DEF Throw, Fault, RowsOK, DpOK, msgVars, sentVars
<1>16. CASE Crash(d)
  BY <1>1, <1>16, DoneType DEF Crash, Fault, RowsOK, DpOK, msgVars, sentVars
<1>17. QED
  BY <1>2, <1>3, <1>4, <1>5, <1>6, <1>7, <1>8, <1>9, <1>10, <1>11, <1>12, <1>13, <1>14, <1>15, <1>16
     DEF Dispatch

\* Every step keeps the types.
LEMMA TypeStep == TypeInv /\ [Next]_vars => TypeInv'
<1> SUFFICES ASSUME TypeInv, [Next]_vars PROVE RowsOK' /\ DpOK'
  BY TypeParts DEF TypeInv, TypeOK, RowsOK, DpOK, Dispatcher, PlanOrNone
<1>1. RowsOK /\ DpOK
  BY TypeParts
<1>2. CASE TimePasses
  BY <1>1, <1>2 DEF TimePasses, RowsOK, DpOK, msgVars, sentVars
<1>3. ASSUME NEW m \in Msg, Write(m) PROVE RowsOK' /\ DpOK'
  BY <1>1, <1>3 DEF Write, Fault, RowsOK, DpOK, Stages, sentVars
<1>4. ASSUME NEW m \in Msg, Handle(m) PROVE RowsOK' /\ DpOK'
  BY <1>1, <1>4 DEF Handle, Store, ClearRead, ClearWrite, RowsOK, DpOK, Stages, PlanOrNone, sentVars
<1>5. ASSUME NEW m \in Msg, Schedule(m) PROVE RowsOK' /\ DpOK'
  <2>1. 0 \in Rule /\ m \in Answer /\ clock + 1 \in Nat
    BY <1>1, FollowUpAssumption DEF Rule, Answer, RowsOK
  <2>2. plan' \in PlanOrNone
    BY <1>5, <2>1, PlannedType DEF Schedule, PlanOrNone
  <2>3. QED
    BY <1>1, <1>5, <2>1, <2>2 DEF Schedule, RowsOK, DpOK, Stages, sentVars
<1>6. ASSUME NEW d \in Disp, Dispatch(d) \/ Throw(d) \/ Crash(d) PROVE RowsOK' /\ DpOK'
  BY <1>6, DispatchType
<1>7. CASE OtherRead \/ OtherWrite
  <2>1. CASE OtherRead
    BY <1>1, <2>1 DEF OtherRead, Fault, RowsOK, DpOK, msgVars, sentVars
  <2>2. CASE OtherWrite
    <3>1. IdleWriter \in [pc : {"idle", "read"}, copy : PlanOrNone]
      BY DEF IdleWriter, PlanOrNone
    <3>2. writer.copy \in PlanOrNone
      BY <1>1 DEF RowsOK
    <3>3. QED
      BY <1>1, <2>2, <3>1, <3>2 DEF OtherWrite, WriteBack, RowsOK, DpOK, msgVars
  <2>3. QED
    BY <1>7, <2>1, <2>2
<1>8. CASE TurnOff \/ Resolve
  BY <1>1, <1>8 DEF TurnOff, Resolve, Fault, RowsOK, DpOK, msgVars, sentVars
<1>9. CASE UNCHANGED vars
  BY <1>1, <1>9 DEF vars, RowsOK, DpOK, msgVars, sentVars
<1>10. QED
  BY <1>2, <1>3, <1>4, <1>5, <1>6, <1>7, <1>8, <1>9 DEF Next

LEMMA Types == Spec => []TypeInv
BY TypeInit, TypeStep, PTL DEF Spec

\* The column, the messages and what the dispatchers have read keep their
\* types, whatever they interrupt, lose or write back.
THEOREM FollowUpTypeCorrect == Spec => []TypeOK
<1>1. TypeInv => TypeOK
  BY DEF TypeInv
<1>2. QED
  BY <1>1, Types, PTL

-----------------------------------------------------------------------------
(* Not after a message: what a plan's anchor says. *)

\* What is dated up to t is dated up to the answer a.
Covered(t, a) == \A m \in Msg : at[m] <= t => at[m] <= answer[a]

\* Up to a plan's anchor there is no message after the answer it is for.
Clean(p) == p # NoPlan => p.anchor <= clock /\ Covered(p.anchor, p.of)

ClockInv ==
  /\ \A m \in Msg : at[m] <= clock /\ (stage[m] = "new" => at[m] = 0)
  /\ \A a \in Answer : answer[a] <= clock

\* Where a dispatcher has looked for messages after the anchor.
Looked == HasPlan \ {"look"}

\* What a dispatcher has read; what it has seen is dated up to the answer, and so
\* is all there is of the time before it read the plan.
SeenBy(x) ==
  /\ Clean(x.plan) /\ Clean(x.copy) /\ x.now <= clock
  /\ x.pc \in Looked => /\ Covered(x.now, x.plan.of)
                        /\ \A m \in x.seen : stage[m] # "new" /\ at[m] <= answer[x.plan.of]

InTime ==
  /\ ClockInv
  /\ \A m \in Msg : stage[m] # "late"
  /\ Clean(plan) /\ Clean(writer.copy)
  /\ \A d \in Disp : SeenBy(dp[d])

SeenInv == "late" \notin faults => InTime

LEMMA FaultsStay ==
  ASSUME [Next]_vars
  PROVE  faults \subseteq faults' /\ (restored => restored')
<1> DEFINE Stay == faults \subseteq faults' /\ (restored => restored')
<1>1. ASSUME NEW d \in Disp, Dispatch(d) \/ Throw(d) \/ Crash(d)
      PROVE  Stay
  <2>1. CASE WriteAnalytics(d)
    BY <2>1 DEF WriteAnalytics, WriteBack
  <2>2. CASE Claim(d)
    BY <2>2 DEF Claim, Fault, sentVars
  <2>3. CASE Generate(d) \/ Throw(d) \/ Crash(d)
    BY <2>3 DEF Generate, Throw, Crash, Fault, sentVars
  <2>4. CASE \/ Select(d) \/ Read(d) \/ Look(d) \/ Config(d) \/ Existing(d) \/ SendRows(d)
             \/ ReadAnalytics(d) \/ PlanNext(d) \/ ClearPlanRead(d) \/ ClearPlan(d)
    BY <2>4 DEF Select, Read, Look, Config, Existing, SendRows, ReadAnalytics, PlanNext,
                ClearPlanRead, ClearPlan, sentVars
  <2>5. QED
    BY <1>1, <2>1, <2>2, <2>3, <2>4 DEF Dispatch
<1>2. ASSUME NEW m \in Msg, Write(m) \/ Handle(m) \/ Schedule(m)
      PROVE  Stay
  BY <1>2 DEF Write, Handle, Store, ClearRead, ClearWrite, Schedule, Fault, sentVars
<1>3. CASE OtherWrite
  BY <1>3 DEF OtherWrite, WriteBack
<1>4. CASE TimePasses \/ OtherRead \/ TurnOff \/ Resolve \/ UNCHANGED vars
  BY <1>4 DEF TimePasses, OtherRead, TurnOff, Resolve, Fault, vars, sentVars
<1>5. QED
  BY <1>1, <1>2, <1>3, <1>4 DEF Next

LEMMA SeenInit == Init => SeenInv
<1> SUFFICES ASSUME Init PROVE InTime
  BY DEF SeenInv
<1>1. First \in Answer /\ \A m \in Msg : m \in Answer
  BY DEF Answer
<1>2. ClockInv /\ \A m \in Msg : stage[m] # "late"
  BY DEF Init, ClockInv
<1>3. Clean(plan) /\ Clean(NoPlan)
  BY <1>1 DEF Init, Clean, Covered, Planned
<1>4. SeenBy(IdleDispatcher)
  BY <1>3 DEF Init, SeenBy, IdleDispatcher, Looked, HasPlan
<1>5. QED
  BY <1>2, <1>3, <1>4 DEF Init, InTime, IdleWriter

\* Time goes by, a message is written, handled or answered: what was covered is.
LEMMA MessagesSeen ==
  ASSUME TypeInv, InTime,
         \/ TimePasses
         \/ \E m \in Msg : Write(m) /\ "late" \notin faults'
         \/ \E m \in Msg : Handle(m) \/ Schedule(m)
  PROVE  InTime'
<1>1. RowsOK /\ DpOK /\ ClockInv
  BY TypeParts DEF InTime
<1>2. /\ ClockInv'
      /\ clock <= clock' /\ clock \in Nat /\ clock' \in Nat
      /\ \A m \in Msg : stage'[m] # "late" /\ (stage[m] # "new" => stage'[m] # "new" /\ at'[m] = at[m])
      /\ \A a \in Answer : answer[a] <= answer'[a] /\ answer[a] \in Nat /\ answer'[a] \in Nat
      /\ \A m \in Msg : at'[m] \in Nat /\ (at'[m] = at[m] \/ at'[m] > clock)
      /\ UNCHANGED <<dp, writer>>
  <2>1. CASE TimePasses
    BY <1>1, <2>1 DEF TimePasses, RowsOK, InTime, ClockInv, msgVars
  <2>2. ASSUME NEW m \in Msg, Write(m), "late" \notin faults' PROVE <1>2!:
    BY <1>1, <2>2 DEF Write, Fault, RowsOK, InTime, ClockInv
  <2>3. ASSUME NEW m \in Msg, Handle(m) PROVE <1>2!:
    BY <1>1, <2>3 DEF Handle, Store, ClearRead, ClearWrite, RowsOK, InTime, ClockInv
  <2>4. ASSUME NEW m \in Msg, Schedule(m) PROVE <1>2!:
    BY <1>1, <2>4 DEF Schedule, RowsOK, InTime, ClockInv
  <2>5. QED
    BY <2>1, <2>2, <2>3, <2>4
<1>3. ASSUME NEW t \in Nat, t <= clock, NEW a \in Answer, Covered(t, a)
      PROVE  Covered(t, a)'
  BY <1>1, <1>2, <1>3 DEF Covered, RowsOK
<1>4. ASSUME NEW p \in PlanOrNone, Clean(p)
      PROVE  Clean(p)'
  <2>1. CASE p # NoPlan
    <3>1. p.anchor \in Nat /\ p.of \in Answer
      BY <2>1, NoPlanIs DEF Plan
    <3>2. QED
      BY <1>2, <1>3, <1>4, <2>1, <3>1 DEF Clean
  <2>2. QED
    BY <2>1 DEF Clean
<1>5. ASSUME NEW d \in Disp PROVE SeenBy(dp[d])'
  <2>1. PICK x \in Dispatcher : x = dp[d] /\ LocalsOK(x) /\ SeenBy(x)
    BY <1>1 DEF DpOK, InTime
  <2>2. Clean(x.plan)' /\ Clean(x.copy)' /\ x.now <= clock'
    BY <1>2, <1>4, <2>1 DEF SeenBy, Dispatcher
  <2>3. ASSUME x.pc \in Looked
        PROVE  /\ Covered(x.now, x.plan.of)'
               /\ \A m \in x.seen : stage'[m] # "new" /\ at'[m] <= answer'[x.plan.of]
    <3>1. x.plan.of \in Answer /\ x.now \in Nat /\ x.now <= clock /\ x.seen \subseteq Msg
      BY <2>1, <2>3 DEF LocalsOK, Looked, Plan, Dispatcher, SeenBy
    <3>2. Covered(x.now, x.plan.of)'
      BY <1>3, <2>1, <2>3, <3>1 DEF SeenBy
    <3>3. \A m \in x.seen : stage[m] # "new" /\ at[m] <= answer[x.plan.of]
      BY <2>1, <2>3 DEF SeenBy
    <3>4. QED
      BY <1>1, <1>2, <3>1, <3>2, <3>3 DEF RowsOK
  <2>4. SeenBy(x)'
    BY <2>2, <2>3 DEF SeenBy
  <2>5. QED
    BY <1>2, <2>1, <2>4
<1>6. Clean(writer.copy)'
  <2>1. PICK p \in PlanOrNone : p = writer.copy /\ Clean(p)
    BY <1>1 DEF RowsOK, InTime
  <2>2. QED
    BY <1>2, <1>4, <2>1
<1>7. Clean(plan)'
  <2>1. CASE plan' = plan
    <3>1. PICK p \in PlanOrNone : p = plan /\ Clean(p)
      BY <1>1 DEF RowsOK, InTime
    <3>2. QED
      BY <1>4, <2>1, <3>1
  <2>2. CASE plan' = NoPlan
    BY <2>2 DEF Clean
  <2>3. ASSUME NEW m \in Msg, Schedule(m), plan' # NoPlan PROVE Clean(plan)'
    <3>1. /\ plan' = [rule |-> 0, anchor |-> clock + 1, token |-> None, of |-> m]
          /\ answer'[m] = clock + 1 /\ clock' = clock + 1
      BY <1>1, <2>3 DEF Schedule, Planned, RowsOK, Answer
    <3>2. QED
      BY <1>1, <3>1 DEF Clean, Covered
  <2>4. QED
    BY <2>1, <2>2, <2>3 DEF TimePasses, Write, Handle, Store, ClearRead, ClearWrite
<1>8. QED
  BY <1>2, <1>5, <1>6, <1>7 DEF InTime

\* A step of a dispatcher: what it reads and what it plans is covered.
LEMMA DispatchSeen ==
  ASSUME TypeInv, InTime, NEW d \in Disp, Dispatch(d) \/ Throw(d) \/ Crash(d)
  PROVE  /\ Clean(plan') /\ SeenBy(dp'[d])
         /\ dp' = [dp EXCEPT ![d] = dp'[d]]
         /\ UNCHANGED <<msgVars, clock, writer>>
<1> DEFINE Seen == Clean(plan') /\ SeenBy(dp'[d]) /\ dp' = [dp EXCEPT ![d] = dp'[d]]
<1>1. /\ dp \in [Disp -> Dispatcher] /\ LocalsOK(dp[d]) /\ dp[d] \in Dispatcher /\ RowsOK
      /\ SeenBy(dp[d]) /\ Clean(plan)
  BY TypeParts DEF DpOK, InTime
<1>2. SeenBy(IdleDispatcher) /\ SeenBy([IdleDispatcher EXCEPT !.pc = "clear"]) /\ Clean(NoPlan)
  BY <1>1 DEF SeenBy, Clean, IdleDispatcher, Looked, HasPlan, RowsOK
<1>3. ASSUME Done(d) \/ Clear(d)
      PROVE  SeenBy(dp'[d]) /\ dp' = [dp EXCEPT ![d] = dp'[d]]
  BY <1>1, <1>2, <1>3 DEF Done, Clear
<1>4. ASSUME NEW pc \in Steps, Goto(d, pc), pc \in Looked => dp[d].pc \in Looked
      PROVE  SeenBy(dp'[d]) /\ dp' = [dp EXCEPT ![d] = dp'[d]]
  <2>1. /\ dp' = [dp EXCEPT ![d] = dp'[d]]
        /\ dp'[d] = [dp[d] EXCEPT !.pc = pc]
    BY <1>1, <1>4 DEF Goto
  <2>2. QED
    BY <1>1, <1>4, <2>1 DEF SeenBy, Dispatcher
<1>5. ASSUME AfterRule(d), dp[d].pc \in Looked
      PROVE  SeenBy(dp'[d]) /\ dp' = [dp EXCEPT ![d] = dp'[d]]
  <2>1. CASE dp' = [dp EXCEPT ![d].pc = "plan", ![d].copy = NoPlan]
    <3>1. /\ dp' = [dp EXCEPT ![d] = dp'[d]]
          /\ dp'[d] = [dp[d] EXCEPT !.pc = "plan", !.copy = NoPlan]
      BY <1>1, <2>1
    <3>2. QED
      BY <1>1, <1>2, <1>5, <3>1 DEF SeenBy, Dispatcher
  <2>2. QED
    BY <1>3, <1>5, <2>1 DEF AfterRule
<1>6. CASE Select(d)
  BY <1>1, <1>4, <1>6 DEF Select, Looked, HasPlan, Steps
<1>7. CASE Read(d)
  <2>1. CASE dp' = [dp EXCEPT ![d].pc = "look", ![d].plan = plan, ![d].now = clock]
    <3>1. /\ dp' = [dp EXCEPT ![d] = dp'[d]]
          /\ dp'[d] = [dp[d] EXCEPT !.pc = "look", !.plan = plan, !.now = clock]
      BY <1>1, <2>1
    <3>2. QED
      BY <1>1, <1>7, <3>1 DEF Read, SeenBy, Dispatcher, Looked, RowsOK
  <2>2. QED
    BY <1>1, <1>3, <1>7, <2>1 DEF Read
<1>8. CASE Look(d)
  <2>1. ASSUME dp' = [dp EXCEPT ![d].pc = "config", ![d].seen = {m \in Msg : Stored(m)}],
               \A m \in Msg : Stored(m) => ~(at[m] > dp[d].plan.anchor)
        PROVE  SeenBy(dp'[d]) /\ dp' = [dp EXCEPT ![d] = dp'[d]]
    <3>1. /\ dp' = [dp EXCEPT ![d] = dp'[d]]
          /\ dp'[d] = [dp[d] EXCEPT !.pc = "config", !.seen = {m \in Msg : Stored(m)}]
      BY <1>1, <2>1
    <3>2. dp[d].plan \in Plan
      BY <1>1, <1>8 DEF Look, At, LocalsOK, HasPlan, Steps
    <3>3. /\ Covered(dp[d].plan.anchor, dp[d].plan.of)
          /\ dp[d].plan.anchor \in Nat /\ dp[d].plan.of \in Answer
      BY <1>1, <3>2, NoPlanIs DEF SeenBy, Clean, Plan
    <3>4. \A m \in Msg : Stored(m) => stage[m] # "new" /\ at[m] <= answer[dp[d].plan.of]
      BY <1>1, <2>1, <3>3 DEF Covered, RowsOK, Stored
    <3>5. \A m \in Msg : ~Stored(m) => at[m] = 0
      BY DEF InTime, ClockInv, Stored
    <3>6. Covered(dp[d].now, dp[d].plan.of)
      BY <1>1, <3>3, <3>4, <3>5 DEF Covered, RowsOK
    <3>7. QED
      BY <1>1, <3>1, <3>4, <3>6 DEF SeenBy, Dispatcher
  <2>2. QED
    BY <1>1, <1>3, <1>8, <2>1 DEF Look
<1>9. CASE Config(d)
  BY <1>1, <1>3, <1>4, <1>9 DEF Config, At, Looked, HasPlan, Steps
<1>10. CASE Claim(d)
  <2>1. CASE plan # NoPlan /\ plan' = [plan EXCEPT !.token = d] /\ Goto(d, "existing")
    <3>1. plan' # NoPlan /\ plan'.anchor = plan.anchor /\ plan'.of = plan.of
      BY <1>1, <2>1, NoPlanIs DEF RowsOK, Plan, NoPlan
    <3>2. Clean(plan')
      BY <1>1, <2>1, <3>1 DEF Clean
    <3>3. QED
      BY <1>4, <1>10, <2>1, <3>2 DEF Claim, At, Looked, HasPlan, Steps
  <2>2. QED
    BY <1>1, <1>3, <1>10, <2>1 DEF Claim
<1>11. CASE Existing(d)
  BY <1>1, <1>4, <1>5, <1>11 DEF Existing, At, Looked, HasPlan, Steps
<1>12. CASE Generate(d)
  BY <1>1, <1>3, <1>4, <1>12 DEF Generate, At, Looked, HasPlan, Steps
<1>13. CASE SendRows(d)
  <2>1. /\ dp' = [dp EXCEPT ![d] = dp'[d]]
        /\ dp'[d] = [dp[d] EXCEPT !.pc = "analytics", !.seen = {}]
    BY <1>1, <1>13 DEF SendRows
  <2>2. QED
    BY <1>1, <1>13, <2>1 DEF SendRows, At, SeenBy, Dispatcher, Looked, HasPlan, Steps
<1>14. CASE ReadAnalytics(d)
  <2>1. CASE dp' = [dp EXCEPT ![d].pc = "analyse", ![d].copy = plan]
    <3>1. /\ dp' = [dp EXCEPT ![d] = dp'[d]]
          /\ dp'[d] = [dp[d] EXCEPT !.pc = "analyse", !.copy = plan]
      BY <1>1, <2>1
    <3>2. QED
      BY <1>1, <1>14, <3>1 DEF ReadAnalytics, At, SeenBy, Dispatcher, Looked, HasPlan, Steps
  <2>2. QED
    BY <1>1, <1>5, <1>14, <2>1 DEF ReadAnalytics, At, Looked, HasPlan, Steps
<1>15. CASE WriteAnalytics(d)
  <2>1. Clean(plan')
    BY <1>1, <1>15 DEF WriteAnalytics, WriteBack, SeenBy
  <2>2. QED
    BY <1>5, <1>15, <2>1 DEF WriteAnalytics, At, Looked, HasPlan, Steps
<1>16. CASE PlanNext(d)
  <2>1. /\ plan'.anchor = dp[d].now /\ plan'.of = dp[d].plan.of
    BY <1>16 DEF PlanNext, Planned
  <2>2. Covered(dp[d].now, dp[d].plan.of) /\ dp[d].now <= clock
    BY <1>1, <1>16 DEF PlanNext, At, SeenBy, Looked, HasPlan, Steps
  <2>3. QED
    BY <1>3, <1>16, <2>1, <2>2 DEF PlanNext, Clean
<1>17. CASE ClearPlanRead(d)
  BY <1>1, <1>3, <1>4, <1>17 DEF ClearPlanRead, Looked, HasPlan, Steps
<1>18. CASE ClearPlan(d)
  BY <1>2, <1>3, <1>18 DEF ClearPlan
<1>19. CASE Throw(d)
  <2>1. Clean(plan')
    <3>1. CASE plan # NoPlan /\ plan.token = d
      <4>1. plan' # NoPlan => plan'.anchor = plan.anchor /\ plan'.of = plan.of
        BY <1>1, <1>19, <3>1, NoPlanIs DEF Throw, RowsOK, Plan
      <4>2. QED
        BY <1>1, <3>1, <4>1 DEF Clean
    <3>2. QED
      BY <1>1, <1>19, <3>1 DEF Throw
  <2>2. QED
    BY <1>3, <1>19, <2>1 DEF Throw
<1>20. CASE Crash(d)
  BY <1>1, <1>3, <1>20 DEF Crash
<1>21. Seen
  BY <1>6, <1>7, <1>8, <1>9, <1>10, <1>11, <1>12, <1>13, <1>14, <1>15, <1>16, <1>17, <1>18, <1>19, <1>20
     DEF Dispatch
<1>22. UNCHANGED <<msgVars, clock, writer>>
  BY DEF Dispatch, Select, Read, Look, Config, Claim, Existing, Generate, SendRows, ReadAnalytics,
         WriteAnalytics, PlanNext, ClearPlanRead, ClearPlan, Throw, Crash
<1>23. QED
  BY <1>21, <1>22

\* Others read and write back what was covered.
LEMMA OthersSeen ==
  ASSUME TypeInv, InTime, OtherRead \/ OtherWrite \/ TurnOff \/ Resolve \/ UNCHANGED vars
  PROVE  InTime'
<1>1. UNCHANGED <<msgVars, clock, dp>>
  BY DEF OtherRead, OtherWrite, TurnOff, Resolve, vars
<1>2. ClockInv' /\ \A m \in Msg : stage'[m] # "late"
  BY <1>1 DEF InTime, ClockInv, msgVars
<1>3. \A d \in Disp : SeenBy(dp[d])'
  BY <1>1 DEF InTime, SeenBy, Clean, Covered, msgVars
<1>4. Clean(plan') /\ Clean(writer'.copy)
  BY DEF OtherRead, OtherWrite, TurnOff, Resolve, vars, WriteBack, IdleWriter, InTime, Clean
<1>5. Clean(plan)' /\ Clean(writer.copy)'
  BY <1>1, <1>4 DEF Clean, Covered, msgVars
<1>6. QED
  BY <1>2, <1>3, <1>5 DEF InTime

\* Every step keeps it.
LEMMA SeenStep == TypeInv /\ SeenInv /\ [Next]_vars => SeenInv'
<1> SUFFICES ASSUME TypeInv, SeenInv, [Next]_vars, "late" \notin faults' PROVE InTime'
  BY DEF SeenInv
<1>1. InTime
  BY FaultsStay DEF SeenInv
<1>2. CASE TimePasses
  BY <1>1, <1>2, MessagesSeen
<1>3. CASE \E m \in Msg : Write(m) \/ Handle(m) \/ Schedule(m)
  BY <1>1, <1>3, MessagesSeen
<1>4. ASSUME NEW d \in Disp, Dispatch(d) \/ Throw(d) \/ Crash(d) PROVE InTime'
  <2>1. /\ Clean(plan') /\ SeenBy(dp'[d])
        /\ dp' = [dp EXCEPT ![d] = dp'[d]]
        /\ UNCHANGED <<msgVars, clock, writer>>
    BY <1>1, <1>4, DispatchSeen
  <2>2. ClockInv' /\ (\A m \in Msg : stage'[m] # "late") /\ Clean(writer.copy)' /\ Clean(plan)'
    BY <1>1, <2>1 DEF InTime, ClockInv, Clean, Covered, msgVars
  <2>3. \A e \in Disp : SeenBy(dp'[e])
    BY <1>1, <2>1 DEF InTime, TypeInv, TypeOK
  <2>4. \A e \in Disp : SeenBy(dp[e])'
    BY <2>1, <2>3 DEF SeenBy, Clean, Covered, msgVars
  <2>5. QED
    BY <2>2, <2>4 DEF InTime
<1>5. CASE OtherRead \/ OtherWrite \/ TurnOff \/ Resolve \/ UNCHANGED vars
  BY <1>1, <1>5, OthersSeen
<1>6. QED
  BY <1>2, <1>3, <1>4, <1>5 DEF Next

\* As long as no message is dated before it is stored, a dispatcher that sends has
\* seen no message that came after the answer, however many write back the column.
THEOREM SentBeforeMessages == Spec => []NotAfterMessage
<1>1. TypeInv /\ SeenInv => NotAfterMessage
  BY DEF SeenInv, InTime, SeenBy, NotAfterMessage, At, Looked, HasPlan, Steps
<1>2. Spec => [](TypeInv /\ SeenInv)
  BY TypeInit, TypeStep, SeenInit, SeenStep, PTL DEF Spec
<1>3. QED
  BY <1>1, <1>2, PTL

-----------------------------------------------------------------------------
(* Sent once: what a plan and a claim say. *)

\* The answer is given.
Known(a) == a = First \/ stage[a] = "answered"

\* Of the rules after the planned one nothing is sent for the answer; of the planned
\* one it is sent since the anchor, where a look for it finds it.
Fresh(p) ==
  /\ p.anchor <= clock
  /\ Known(p.of)
  /\ \A r \in Rule : r > p.rule => sent[<<r, p.of>>] = 0
  /\ sent[<<p.rule, p.of>>] > 0 => sentAt[p.rule] >= p.anchor

WorkSteps == {"existing", "generate", "send", "analytics", "analyse", "plan"}

\* What a dispatcher has read.
ReadOK(x) ==
  /\ x.plan # NoPlan => x.plan.anchor <= clock /\ Known(x.plan.of)
  /\ x.now <= clock

Works(x) ==
  x.pc \in WorkSteps =>
    /\ Fresh(x.plan)
    /\ x.pc \in {"generate", "send"} => sent[<<x.plan.rule, x.plan.of>>] = 0

\* A column with a plan for the answer a claim is for has the plan claimed, and the
\* claim's token.
Held(p, d, x) ==
  x.pc \in WorkSteps /\ p # NoPlan /\ p.of = x.plan.of => SameDue(p, x.plan) /\ p.token = d

\* Two claims are for different answers.
Apart(x, y) == x.pc \in WorkSteps /\ y.pc \in WorkSteps => x.plan.of # y.plan.of

Counted == \A r \in Rule, a \in Answer :
  sent[<<r, a>>] <= 1 /\ (~Known(a) => sent[<<r, a>>] = 0)

Once ==
  /\ Counted
  /\ plan # NoPlan => Fresh(plan)
  /\ \A d \in Disp : ReadOK(dp[d]) /\ Works(dp[d]) /\ Held(plan, d, dp[d])
  /\ \A d, e \in Disp : d # e => Apart(dp[d], dp[e])

OnceInv == "stale" \notin faults /\ ~restored => Once

LEMMA OnceInit == Init => OnceInv
<1> SUFFICES ASSUME Init PROVE Once
  BY DEF OnceInv
<1>1. Counted
  BY DEF Init, Counted
<1>2. plan # NoPlan => Fresh(plan)
  BY FollowUpAssumption DEF Init, Fresh, Planned, Known, Rule, Answer
<1>3. ReadOK(IdleDispatcher) /\ IdleDispatcher.pc \notin WorkSteps
  BY DEF Init, ReadOK, IdleDispatcher, WorkSteps
<1>4. QED
  BY <1>1, <1>2, <1>3 DEF Init, Once, Works, Held, Apart

\* A dispatcher at work has a plan for an answer that is given.
LEMMA WorkPlan ==
  ASSUME NEW x \in Dispatcher, LocalsOK(x), x.pc \in WorkSteps
  PROVE  x.plan \in Plan /\ x.plan # NoPlan /\ x.plan.rule \in Rule /\ x.plan.of \in Answer
         /\ x.plan.anchor \in Nat
BY NoPlanIs DEF LocalsOK, WorkSteps, HasPlan, Steps, Plan

\* What is said of a plan stays true when time goes by and answers are given.
LEMMA FreshStays ==
  ASSUME TypeInv, NEW p \in Plan, Fresh(p), clock' \in Nat, clock <= clock',
         \A a \in Answer : Known(a) => Known(a)',
         UNCHANGED <<sent, sentAt>>
  PROVE  Fresh(p)'
BY DEF Fresh, TypeInv, TypeOK, Plan

\* The customer, the chatbot and others: nothing is sent, and no dispatcher steps.
LEMMA ElseOnce ==
  ASSUME TypeInv, Once, UNCHANGED <<dp, sent, sentAt>>,
         clock' \in Nat, clock <= clock',
         \A a \in Answer : Known(a) => Known(a)',
         \/ plan' = plan
         \/ plan' = NoPlan
         \/ plan' \in Plan /\ Fresh(plan)' /\ ~Known(plan'.of)
  PROVE  Once'
<1>1. RowsOK /\ DpOK
  BY TypeParts
<1>2. Counted'
  BY DEF Once, Counted
<1>3. ASSUME NEW d \in Disp
      PROVE  ReadOK(dp[d])' /\ Works(dp[d])' /\ Held(plan', d, dp[d])
  <2>1. PICK x \in Dispatcher : x = dp[d] /\ LocalsOK(x) /\ ReadOK(x) /\ Works(x)
                                /\ Held(plan, d, x)
    BY <1>1 DEF DpOK, Once
  <2>2. ReadOK(x)'
    <3>1. x.now \in Nat /\ (x.plan # NoPlan => x.plan.anchor \in Nat /\ x.plan.of \in Answer)
      BY <2>1, NoPlanIs DEF Dispatcher, Plan
    <3>2. QED
      BY <1>1, <2>1, <3>1 DEF ReadOK, RowsOK
  <2>3. Works(x)'
    <3>1. ASSUME x.pc \in WorkSteps PROVE x.plan \in Plan /\ Fresh(x.plan)'
      <4>1. PICK p \in Plan : p = x.plan /\ Fresh(p)
        BY <2>1, <3>1, WorkPlan DEF Works
      <4>2. Fresh(p)'
        BY <4>1, FreshStays
      <4>3. QED
        BY <4>1, <4>2
    <3>2. QED
      BY <2>1, <3>1 DEF Works
  <2>4. Held(plan', d, x)
    <3>1. CASE x.pc \in WorkSteps /\ plan' # NoPlan /\ plan' # plan
      BY <2>1, <3>1, WorkPlan DEF Held, Works, Fresh
    <3>2. QED
      BY <2>1, <3>1 DEF Held
  <2>5. QED
    BY <2>1, <2>2, <2>3, <2>4
<1>4. plan' # NoPlan => Fresh(plan)'
  <2>1. ASSUME plan' = plan, plan # NoPlan PROVE Fresh(plan)'
    <3>1. PICK p \in Plan : p = plan /\ Fresh(p)
      BY <1>1, <2>1, NoPlanIs DEF RowsOK, Once
    <3>2. Fresh(p)'
      BY <3>1, FreshStays
    <3>3. QED
      BY <2>1, <3>1, <3>2
  <2>2. QED
    BY <2>1
<1>5. QED
  BY <1>2, <1>3, <1>4 DEF Once

\* A dispatcher's step that sends nothing and plans nothing.
LEMMA QuietOnce ==
  ASSUME TypeInv, Once, NEW d \in Disp,
         UNCHANGED <<msgVars, sent, sentAt, clock>>,
         dp' = [dp EXCEPT ![d] = dp'[d]],
         ReadOK(dp'[d]), Works(dp'[d]),
         dp'[d].pc \in WorkSteps => dp[d].pc \in WorkSteps /\ dp'[d].plan = dp[d].plan,
         \/ plan' = NoPlan
         \/ plan' = plan
         \/ /\ plan # NoPlan /\ SameDue(plan', plan)
            /\ plan.token = d /\ dp'[d].pc \notin WorkSteps
  PROVE  Once'
<1>1. RowsOK /\ DpOK
  BY TypeParts
<1>2. Counted'
  BY DEF Once, Counted, Known, msgVars
<1>3. \A e \in Disp : e # d => dp'[e] = dp[e]
  BY <1>1 DEF DpOK
<1>4. \A e \in Disp : ReadOK(dp'[e]) /\ Works(dp'[e])
  BY <1>3 DEF Once
<1>5. ASSUME NEW e \in Disp PROVE Held(plan', e, dp'[e])
  <2>1. CASE plan' = NoPlan
    BY <2>1 DEF Held
  <2>2. CASE plan' = plan
    BY <1>3, <2>2 DEF Held, Once
  <2>3. CASE /\ plan # NoPlan /\ SameDue(plan', plan)
             /\ plan.token = d /\ dp'[d].pc \notin WorkSteps
    <3>1. e # d => Held(plan, e, dp[e])
      BY DEF Once
    <3>2. QED
      BY <1>3, <2>3, <3>1 DEF Held, SameDue
  <2>4. QED
    BY <2>1, <2>2, <2>3
<1>6. ASSUME plan' # NoPlan PROVE Fresh(plan')
  BY <1>6 DEF Once, Fresh, SameDue
<1>7. \A e, f \in Disp : e # f => Apart(dp'[e], dp'[f])
  BY <1>3 DEF Once, Apart
<1>8. \A e \in Disp : ReadOK(dp[e])' /\ Works(dp[e])'
  BY <1>4 DEF ReadOK, Works, Fresh, Known, msgVars
<1>9. plan' # NoPlan => Fresh(plan)'
  BY <1>6 DEF Fresh, Known, msgVars
<1>10. QED
  BY <1>2, <1>5, <1>7, <1>8, <1>9 DEF Once

\* A claim, with nobody's token that is at work: the others have other answers.
LEMMA ClaimOnce ==
  ASSUME TypeInv, Once, NEW d \in Disp, Claim(d), Goto(d, "existing"),
         plan # NoPlan /\ SameDue(plan, dp[d].plan) /\ plan' = [plan EXCEPT !.token = d],
         \A e \in Disp : Working(e) => plan.token # e
  PROVE  Once'
<1>1. RowsOK /\ DpOK /\ plan \in Plan
  BY TypeParts, NoPlanIs DEF RowsOK
<1>2. /\ UNCHANGED <<msgVars, sent, sentAt, clock>>
      /\ dp[d].pc = "claim"
  BY DEF Claim, sentVars, At
<1>3. /\ dp'[d] = [dp[d] EXCEPT !.pc = "existing"]
      /\ \A e \in Disp : e # d => dp'[e] = dp[e]
  BY <1>1 DEF Goto, DpOK
<1>4. dp'[d].pc = "existing" /\ dp'[d].plan = dp[d].plan /\ dp'[d].now = dp[d].now
  BY <1>1, <1>3 DEF DpOK, Dispatcher
<1>5. SameDue(plan', plan) /\ plan'.token = d /\ plan' # NoPlan
  BY <1>1, NoPlanIs DEF SameDue, Plan
<1>6. Fresh(plan') /\ Fresh(dp'[d].plan)
  BY <1>4, <1>5 DEF Once, Fresh, SameDue
<1>7. ReadOK(dp'[d]) /\ Works(dp'[d])
  BY <1>4, <1>6 DEF Once, ReadOK, Works
<1>8. ASSUME NEW e \in Disp, e # d, dp[e].pc \in WorkSteps PROVE dp[e].plan.of # plan.of
  BY <1>8 DEF Once, Held, Working, WorkSteps
<1>9. ASSUME NEW e \in Disp PROVE Held(plan', e, dp'[e])
  <2>1. CASE e = d
    BY <1>4, <1>5, <2>1 DEF Held, SameDue
  <2>2. CASE e # d
    BY <1>3, <1>5, <1>8, <2>2 DEF Held, SameDue
  <2>3. QED
    BY <2>1, <2>2
<1>10. ASSUME NEW e \in Disp, NEW f \in Disp, e # f PROVE Apart(dp'[e], dp'[f])
  <2>1. dp'[d].plan.of = plan.of
    BY <1>4 DEF SameDue
  <2>2. CASE e = d
    BY <1>3, <1>8, <1>10, <2>1, <2>2 DEF Apart
  <2>3. CASE f = d
    BY <1>3, <1>8, <1>10, <2>1, <2>3 DEF Apart
  <2>4. CASE e # d /\ f # d
    BY <1>3, <1>10, <2>4 DEF Apart, Once
  <2>5. QED
    BY <2>2, <2>3, <2>4
<1>11. \A e \in Disp : ReadOK(dp'[e]) /\ Works(dp'[e])
  BY <1>3, <1>7 DEF Once
<1>12. /\ \A e \in Disp : ReadOK(dp[e])' /\ Works(dp[e])'
       /\ Fresh(plan)' /\ Counted'
  BY <1>2, <1>6, <1>11 DEF ReadOK, Works, Fresh, Known, msgVars, Once, Counted
<1>13. QED
  BY <1>9, <1>10, <1>12 DEF Once

\* The next rule's plan: nobody else works for this answer.
LEMMA PlanNextOnce ==
  ASSUME TypeInv, Once, NEW d \in Disp, PlanNext(d)
  PROVE  Once'
<1>1. RowsOK /\ DpOK /\ dp[d] \in Dispatcher /\ LocalsOK(dp[d])
  BY TypeParts DEF DpOK
<1>2. /\ UNCHANGED <<msgVars, sent, sentAt, clock>>
      /\ dp[d].pc = "plan"
      /\ plan' = Planned(dp[d].plan.rule + 1, dp[d].now, dp[d].plan.of)
  BY DEF PlanNext, sentVars, At
<1>3. dp'[d] = IdleDispatcher /\ \A e \in Disp : e # d => dp'[e] = dp[e]
  BY <1>1 DEF PlanNext, Done, DpOK
<1>4. /\ dp[d].pc \in WorkSteps
      /\ dp[d].plan.rule \in Rule /\ dp[d].plan.of \in Answer
      /\ dp[d].plan.rule + 1 \in Rule
  BY <1>1, <1>2, WorkPlan, FollowUpAssumption DEF WorkSteps, LocalsOK, Rule
<1>5. /\ plan'.rule = dp[d].plan.rule + 1 /\ plan'.anchor = dp[d].now /\ plan'.of = dp[d].plan.of
  BY <1>2 DEF Planned
<1>6. Fresh(dp[d].plan) /\ dp[d].now <= clock
  BY <1>4 DEF Once, Works, ReadOK
<1>7. Fresh(plan')
  BY <1>4, <1>5, <1>6 DEF Fresh, Rule
<1>8. ReadOK(IdleDispatcher) /\ IdleDispatcher.pc \notin WorkSteps
  BY <1>1 DEF ReadOK, IdleDispatcher, WorkSteps, RowsOK
<1>9. ASSUME NEW e \in Disp PROVE Held(plan', e, dp'[e])
  BY <1>3, <1>4, <1>5, <1>8 DEF Held, Once, Apart
<1>10. ASSUME NEW e \in Disp, NEW f \in Disp, e # f PROVE Apart(dp'[e], dp'[f])
  BY <1>3, <1>8, <1>10 DEF Once, Apart
<1>11. \A e \in Disp : ReadOK(dp'[e]) /\ Works(dp'[e])
  BY <1>3, <1>8 DEF Once, Works
<1>12. /\ \A e \in Disp : ReadOK(dp[e])' /\ Works(dp[e])'
       /\ Fresh(plan)' /\ Counted'
  BY <1>2, <1>7, <1>11 DEF ReadOK, Works, Fresh, Known, msgVars, Once, Counted
<1>13. QED
  BY <1>9, <1>10, <1>12 DEF Once

\* The rows of a follow-up: the first of this rule for this answer, and the last of
\* the rule.
LEMMA SendOnce ==
  ASSUME TypeInv, Once, NEW d \in Disp, SendRows(d)
  PROVE  Once'
<1> DEFINE rule == dp[d].plan.rule
           of   == dp[d].plan.of
<1>1. RowsOK /\ DpOK /\ dp[d] \in Dispatcher /\ LocalsOK(dp[d])
  BY TypeParts DEF DpOK
<1>2. /\ UNCHANGED <<msgVars, plan, clock>>
      /\ dp[d].pc = "send"
      /\ sent' = [sent EXCEPT ![<<rule, of>>] = @ + 1]
      /\ sentAt' = [sentAt EXCEPT ![rule] = clock]
  BY DEF SendRows, At
<1>3. /\ dp'[d] = [dp[d] EXCEPT !.pc = "analytics", !.seen = {}]
      /\ \A e \in Disp : e # d => dp'[e] = dp[e]
  BY <1>1 DEF SendRows, DpOK
<1>4. /\ dp'[d].pc = "analytics" /\ dp'[d].plan = dp[d].plan /\ dp'[d].now = dp[d].now
  BY <1>1, <1>3 DEF Dispatcher
<1>5. /\ dp[d].pc \in WorkSteps /\ rule \in Rule /\ of \in Answer
      /\ dp[d].plan.anchor \in Nat /\ dp[d].plan.anchor <= clock /\ Known(of)
      /\ sent[<<rule, of>>] = 0 /\ Fresh(dp[d].plan)
  BY <1>1, <1>2, WorkPlan DEF WorkSteps, Once, Works, Fresh
<1>6. /\ sent'[<<rule, of>>] = 1
      /\ \A r \in Rule, a \in Answer : <<r, a>> # <<rule, of>> => sent'[<<r, a>>] = sent[<<r, a>>]
      /\ \A r \in Rule : sentAt'[r] = IF r = rule THEN clock ELSE sentAt[r]
      /\ clock \in Nat
  BY <1>1, <1>2, <1>5 DEF RowsOK
<1>7. Counted'
  <2>1. ASSUME NEW r \in Rule, NEW a \in Answer
        PROVE  sent'[<<r, a>>] <= 1 /\ (~Known(a) => sent'[<<r, a>>] = 0)
    <3>1. sent[<<r, a>>] <= 1 /\ (~Known(a) => sent[<<r, a>>] = 0)
      BY DEF Once, Counted
    <3>2. CASE <<r, a>> = <<rule, of>>
      BY <1>5, <1>6, <3>2
    <3>3. CASE <<r, a>> # <<rule, of>>
      BY <1>6, <3>1, <3>3
    <3>4. QED
      BY <3>2, <3>3
  <2>2. QED
    BY <1>2, <2>1 DEF Counted, Known, msgVars
<1>8. ASSUME NEW p \in Plan, Fresh(p), p.of = of => SameDue(p, dp[d].plan)
      PROVE  Fresh(p)'
  <2>1. p.rule \in Rule /\ p.of \in Answer /\ p.anchor \in Nat /\ p.anchor <= clock
    BY <1>8 DEF Plan, Fresh
  <2>2. p.anchor <= clock' /\ Known(p.of)'
    BY <1>2, <1>8 DEF Fresh, Known, msgVars
  <2>3. \A r \in Rule : r > p.rule => sent'[<<r, p.of>>] = 0
    BY <1>5, <1>6, <1>8, <2>1 DEF Fresh, SameDue, Rule
  <2>4. sent'[<<p.rule, p.of>>] > 0 => sentAt'[p.rule] >= p.anchor
    BY <1>5, <1>6, <1>8, <2>1 DEF Fresh, SameDue
  <2>5. QED
    BY <2>2, <2>3, <2>4 DEF Fresh
<1>9. plan' # NoPlan => Fresh(plan)'
  <2>1. ASSUME plan # NoPlan PROVE Fresh(plan)'
    <3>1. PICK p \in Plan : p = plan /\ Fresh(p) /\ (p.of = of => SameDue(p, dp[d].plan))
      BY <1>1, <1>5, <2>1, NoPlanIs DEF RowsOK, Once, Held
    <3>2. Fresh(p)'
      BY <1>8, <3>1
    <3>3. QED
      BY <1>2, <3>1, <3>2
  <2>2. QED
    BY <1>2, <2>1
<1>10. ASSUME NEW e \in Disp PROVE ReadOK(dp[e])' /\ Works(dp[e])'
  <2>1. PICK x \in Dispatcher : x = dp'[e] /\ x.plan = dp[e].plan /\ x.now = dp[e].now
                                /\ (e # d => x = dp[e])
    BY <1>1, <1>3, <1>4, TypeStep DEF DpOK, Dispatcher, Steps
  <2>2. ReadOK(x)'
    BY <1>2, <2>1 DEF Once, ReadOK, Known, msgVars
  <2>3. ASSUME x.pc \in WorkSteps
        PROVE  /\ Fresh(x.plan)'
               /\ x.pc \in {"generate", "send"} => sent'[<<x.plan.rule, x.plan.of>>] = 0
    <3>1. dp[e].pc \in WorkSteps /\ dp[e] \in Dispatcher /\ LocalsOK(dp[e])
      BY <1>1, <1>5, <2>1, <2>3 DEF DpOK
    <3>2. PICK p \in Plan : p = x.plan /\ Fresh(p) /\ (p.of = of => e = d)
      BY <1>5, <2>1, <3>1, WorkPlan DEF Once, Works, Apart
    <3>3. Fresh(p)'
      BY <1>8, <2>1, <3>2 DEF SameDue
    <3>4. x.pc \in {"generate", "send"} => e # d
      BY <1>4, <2>1
    <3>5. e # d => (x.pc \in {"generate", "send"} => sent[<<x.plan.rule, x.plan.of>>] = 0)
      BY <2>1, <2>3 DEF Once, Works
    <3>6. x.plan.rule \in Rule /\ x.plan.of \in Answer
      BY <3>2 DEF Plan
    <3>7. QED
      BY <1>6, <3>2, <3>3, <3>4, <3>5, <3>6
  <2>4. Works(x)'
    BY <2>3 DEF Works
  <2>5. QED
    BY <2>1, <2>2, <2>4
<1>11. ASSUME NEW e \in Disp PROVE Held(plan', e, dp'[e])
  <2>1. /\ dp'[e].plan = dp[e].plan /\ plan' = plan
        /\ dp'[e].pc \in WorkSteps => dp[e].pc \in WorkSteps
    BY <1>2, <1>3, <1>4, <1>5
  <2>2. Held(plan, e, dp[e])
    BY DEF Once
  <2>3. QED
    BY <2>1, <2>2 DEF Held
<1>12. ASSUME NEW e \in Disp, NEW f \in Disp, e # f PROVE Apart(dp'[e], dp'[f])
  <2>1. \A g \in Disp : /\ dp'[g].plan = dp[g].plan
                        /\ dp'[g].pc \in WorkSteps => dp[g].pc \in WorkSteps
    BY <1>3, <1>4, <1>5
  <2>2. Apart(dp[e], dp[f])
    BY <1>12 DEF Once
  <2>3. QED
    BY <2>1, <2>2 DEF Apart
<1>13. QED
  BY <1>7, <1>9, <1>10, <1>11, <1>12 DEF Once

\* A step of a dispatcher; one that writes the column back finds it as it has read it.
LEMMA DispatchOnce ==
  ASSUME TypeInv, Once, NEW d \in Disp, Dispatch(d) \/ Throw(d) \/ Crash(d),
         "stale" \notin faults', ~restored'
  PROVE  Once'
<1>1. /\ dp \in [Disp -> Dispatcher] /\ LocalsOK(dp[d]) /\ dp[d] \in Dispatcher /\ RowsOK
      /\ ReadOK(dp[d]) /\ Works(dp[d])
  BY TypeParts DEF DpOK, Once
<1> DEFINE Quiet ==
             /\ dp' = [dp EXCEPT ![d] = dp'[d]]
             /\ ReadOK(dp'[d]) /\ Works(dp'[d])
             /\ dp'[d].pc \in WorkSteps => dp[d].pc \in WorkSteps /\ dp'[d].plan = dp[d].plan
           Kept == UNCHANGED <<msgVars, sent, sentAt, clock>>
<1>2. \A x \in {IdleDispatcher, [IdleDispatcher EXCEPT !.pc = "clear"]} :
        ReadOK(x) /\ x.pc \notin WorkSteps
  BY <1>1 DEF ReadOK, IdleDispatcher, WorkSteps, RowsOK
<1>3. ASSUME Done(d) \/ Clear(d) PROVE Quiet /\ dp'[d].pc \notin WorkSteps
  BY <1>1, <1>2, <1>3 DEF Done, Clear, Works
<1>4. ASSUME NEW pc \in Steps, Goto(d, pc),
             pc \in WorkSteps => dp[d].pc \in WorkSteps,
             pc \in {"generate", "send"} => sent[<<dp[d].plan.rule, dp[d].plan.of>>] = 0
      PROVE  Quiet
  <2>1. /\ dp' = [dp EXCEPT ![d] = dp'[d]]
        /\ dp'[d] = [dp[d] EXCEPT !.pc = pc]
    BY <1>1, <1>4 DEF Goto
  <2>2. dp'[d].pc = pc /\ dp'[d].plan = dp[d].plan /\ dp'[d].now = dp[d].now
    BY <1>1, <2>1 DEF Dispatcher
  <2>3. QED
    BY <1>1, <1>4, <2>1, <2>2 DEF ReadOK, Works
<1>5. ASSUME AfterRule(d), dp[d].pc \in WorkSteps PROVE Quiet
  <2>1. CASE dp' = [dp EXCEPT ![d].pc = "plan", ![d].copy = NoPlan]
    <3>1. /\ dp' = [dp EXCEPT ![d] = dp'[d]]
          /\ dp'[d].pc = "plan" /\ dp'[d].plan = dp[d].plan /\ dp'[d].now = dp[d].now
      BY <1>1, <2>1 DEF Dispatcher
    <3>2. QED
      BY <1>1, <1>5, <3>1 DEF ReadOK, Works
  <2>2. QED
    BY <1>3, <1>5, <2>1 DEF AfterRule
<1>6. CASE Select(d)
  <2>1. Quiet
    BY <1>1, <1>4, <1>6 DEF Select, WorkSteps, Steps
  <2>2. Kept /\ plan' = plan
    BY <1>6 DEF Select, sentVars
  <2>3. QED
    BY <2>1, <2>2, QuietOnce
<1>7. CASE Read(d)
  <2>1. Quiet
    <3>1. CASE dp' = [dp EXCEPT ![d].pc = "look", ![d].plan = plan, ![d].now = clock]
      <4>1. /\ dp' = [dp EXCEPT ![d] = dp'[d]]
            /\ dp'[d].pc = "look" /\ dp'[d].plan = plan /\ dp'[d].now = clock
        BY <1>1, <3>1 DEF Dispatcher
      <4>2. QED
        BY <1>1, <4>1 DEF ReadOK, Works, WorkSteps, Once, Fresh, RowsOK
    <3>2. QED
      BY <1>3, <1>7, <3>1 DEF Read
  <2>2. Kept /\ plan' = plan
    BY <1>7 DEF Read, sentVars
  <2>3. QED
    BY <2>1, <2>2, QuietOnce
<1>8. CASE Look(d)
  <2>1. Quiet
    <3>1. CASE dp' = [dp EXCEPT ![d].pc = "config", ![d].seen = {m \in Msg : Stored(m)}]
      <4>1. /\ dp' = [dp EXCEPT ![d] = dp'[d]]
            /\ dp'[d].pc = "config" /\ dp'[d].plan = dp[d].plan /\ dp'[d].now = dp[d].now
        BY <1>1, <3>1 DEF Dispatcher
      <4>2. QED
        BY <1>1, <4>1 DEF ReadOK, Works, WorkSteps
    <3>2. QED
      BY <1>3, <1>8, <3>1 DEF Look
  <2>2. Kept /\ plan' = plan
    BY <1>8 DEF Look, sentVars
  <2>3. QED
    BY <2>1, <2>2, QuietOnce
<1>9. CASE Config(d)
  <2>1. Quiet
    BY <1>1, <1>3, <1>4, <1>9 DEF Config, WorkSteps, Steps
  <2>2. Kept /\ plan' = plan
    BY <1>9 DEF Config, sentVars
  <2>3. QED
    BY <2>1, <2>2, QuietOnce
<1>10. CASE Claim(d)
  <2>1. Kept
    BY <1>10 DEF Claim, sentVars
  <2>2. CASE Done(d) /\ plan' = plan
    BY <1>3, <2>1, <2>2, QuietOnce
  <2>3. CASE /\ plan # NoPlan /\ SameDue(plan, dp[d].plan)
             /\ \A e \in Disp : Working(e) => plan.token # e
             /\ plan' = [plan EXCEPT !.token = d] /\ Goto(d, "existing")
    BY <1>10, <2>3, ClaimOnce
  <2>4. ~Fault("stale")
    BY DEF Fault
  <2>5. QED
    BY <1>10, <2>2, <2>3, <2>4 DEF Claim
<1>11. CASE Existing(d)
  <2>1. dp[d].pc = "existing" /\ dp[d].pc \in WorkSteps
    BY <1>11 DEF Existing, At, WorkSteps
  <2>2. /\ dp[d].plan.rule \in Rule /\ dp[d].plan.of \in Answer /\ dp[d].plan.anchor \in Nat
        /\ Fresh(dp[d].plan)
    BY <1>1, <2>1, WorkPlan DEF Works
  <2>3. sentAt[dp[d].plan.rule] >= dp[d].plan.anchor \/ sent[<<dp[d].plan.rule, dp[d].plan.of>>] = 0
    BY <1>1, <2>2 DEF Fresh, RowsOK
  <2>4. Quiet
    BY <1>4, <1>5, <1>11, <2>1, <2>3 DEF Existing, Steps
  <2>5. Kept /\ plan' = plan
    BY <1>11 DEF Existing, sentVars
  <2>6. QED
    BY <2>4, <2>5, QuietOnce
<1>12. CASE Generate(d)
  <2>1. dp[d].pc = "generate" /\ dp[d].pc \in WorkSteps
    BY <1>12 DEF Generate, At, WorkSteps
  <2>2. Quiet
    BY <1>1, <1>3, <1>4, <1>12, <2>1 DEF Generate, Works, Steps
  <2>3. Kept /\ plan' = plan
    BY <1>12 DEF Generate, sentVars
  <2>4. QED
    BY <2>2, <2>3, QuietOnce
<1>13. CASE SendRows(d)
  BY <1>13, SendOnce
<1>14. CASE ReadAnalytics(d)
  <2>1. dp[d].pc = "analytics" /\ dp[d].pc \in WorkSteps
    BY <1>14 DEF ReadAnalytics, At, WorkSteps
  <2>2. Quiet
    <3>1. CASE dp' = [dp EXCEPT ![d].pc = "analyse", ![d].copy = plan]
      <4>1. /\ dp' = [dp EXCEPT ![d] = dp'[d]]
            /\ dp'[d].pc = "analyse" /\ dp'[d].plan = dp[d].plan /\ dp'[d].now = dp[d].now
        BY <1>1, <3>1 DEF Dispatcher
      <4>2. QED
        BY <1>1, <2>1, <4>1 DEF ReadOK, Works
    <3>2. QED
      BY <1>5, <1>14, <2>1, <3>1 DEF ReadAnalytics
  <2>3. Kept /\ plan' = plan
    BY <1>14 DEF ReadAnalytics, sentVars
  <2>4. QED
    BY <2>2, <2>3, QuietOnce
<1>15. CASE WriteAnalytics(d)
  <2>1. Quiet
    BY <1>5, <1>15 DEF WriteAnalytics, At, WorkSteps
  <2>2. Kept /\ plan' = plan
    BY <1>15 DEF WriteAnalytics, WriteBack
  <2>3. QED
    BY <2>1, <2>2, QuietOnce
<1>16. CASE PlanNext(d)
  BY <1>16, PlanNextOnce
<1>17. CASE ClearPlanRead(d)
  <2>1. Quiet
    BY <1>1, <1>3, <1>4, <1>17 DEF ClearPlanRead, WorkSteps, Steps
  <2>2. Kept /\ plan' = plan
    BY <1>17 DEF ClearPlanRead, sentVars
  <2>3. QED
    BY <2>1, <2>2, QuietOnce
<1>18. CASE ClearPlan(d)
  <2>1. Kept /\ plan' = NoPlan
    BY <1>18 DEF ClearPlan, sentVars
  <2>2. QED
    BY <1>3, <1>18, <2>1, QuietOnce DEF ClearPlan
<1>19. CASE Throw(d)
  <2>1. Kept /\ Done(d)
    BY <1>19 DEF Throw, sentVars
  <2>2. CASE plan # NoPlan /\ plan.token = d
    <3>1. SameDue(plan', plan)
      BY <1>1, <1>19, <2>2, NoPlanIs DEF Throw, SameDue, RowsOK, Plan
    <3>2. QED
      BY <1>3, <2>1, <2>2, <3>1, QuietOnce
  <2>3. CASE plan' = plan
    BY <1>3, <2>1, <2>3, QuietOnce
  <2>4. QED
    BY <1>19, <2>2, <2>3 DEF Throw
<1>20. CASE Crash(d)
  <2>1. Kept /\ plan' = plan /\ Done(d)
    BY <1>20 DEF Crash, sentVars
  <2>2. QED
    BY <1>3, <2>1, QuietOnce
<1>21. QED
  BY <1>6, <1>7, <1>8, <1>9, <1>10, <1>11, <1>12, <1>13, <1>14, <1>15, <1>16, <1>17, <1>18, <1>19, <1>20
     DEF Dispatch

\* Every step keeps it.
LEMMA OnceStep == TypeInv /\ OnceInv /\ [Next]_vars => OnceInv'
<1> SUFFICES ASSUME TypeInv, OnceInv, [Next]_vars, "stale" \notin faults', ~restored' PROVE Once'
  BY DEF OnceInv
<1>1. Once /\ RowsOK
  BY FaultsStay, TypeParts DEF OnceInv
<1>2. CASE TimePasses
  <2>1. /\ UNCHANGED <<dp, sent, sentAt, plan>> /\ clock' \in Nat /\ clock <= clock'
        /\ \A a \in Answer : Known(a) => Known(a)'
    BY <1>1, <1>2 DEF TimePasses, RowsOK, Known, msgVars, sentVars
  <2>2. QED
    BY <1>1, <2>1, ElseOnce
<1>3. ASSUME NEW m \in Msg, Write(m) \/ Handle(m) PROVE Once'
  <2>1. /\ UNCHANGED <<dp, sent, sentAt>> /\ clock' \in Nat /\ clock <= clock'
        /\ plan' = plan \/ plan' = NoPlan
        /\ \A a \in Answer : Known(a) => Known(a)'
    <3>1. \A n \in Msg : stage[n] = "answered" => stage'[n] = "answered"
      BY <1>1, <1>3 DEF Write, Handle, Store, ClearRead, ClearWrite, RowsOK
    <3>2. \A a \in Answer : Known(a) => Known(a)'
      BY <3>1 DEF Known, Answer
    <3>3. clock' \in Nat /\ clock <= clock'
      BY <1>1, <1>3 DEF Write, Handle, Store, ClearRead, ClearWrite, RowsOK
    <3>4. UNCHANGED <<dp, sent, sentAt>> /\ (plan' = plan \/ plan' = NoPlan)
      BY <1>3 DEF Write, Handle, Store, ClearRead, ClearWrite, sentVars
    <3>5. QED
      BY <3>2, <3>3, <3>4
  <2>2. QED
    BY <1>1, <2>1, ElseOnce
<1>4. ASSUME NEW m \in Msg, Schedule(m) PROVE Once'
  <2>1. /\ UNCHANGED <<dp, sent, sentAt>> /\ clock' = clock + 1 /\ clock' \in Nat /\ clock <= clock'
        /\ \A a \in Answer : Known(a) => Known(a)'
        /\ Known(m)' /\ ~Known(m)
    BY <1>1, <1>4, FollowUpAssumption DEF Schedule, RowsOK, Known, sentVars
  <2>2. m \in Answer /\ 0 \in Rule
    BY FollowUpAssumption DEF Answer, Rule
  <2>3. ASSUME plan' # NoPlan PROVE plan' \in Plan /\ Fresh(plan)' /\ ~Known(plan'.of)
    <3>1. plan' = Planned(0, clock + 1, m)
      BY <1>4, <2>3 DEF Schedule
    <3>2. plan' \in Plan /\ plan'.rule = 0 /\ plan'.anchor = clock' /\ plan'.of = m
      BY <1>1, <2>1, <2>2, <3>1, PlannedType DEF Planned
    <3>3. \A r \in Rule : sent'[<<r, m>>] = 0
      BY <1>1, <2>1, <2>2 DEF Once, Counted
    <3>4. QED
      BY <2>1, <2>2, <3>2, <3>3 DEF Fresh
  <2>4. QED
    BY <1>1, <2>1, <2>3, ElseOnce
<1>5. ASSUME NEW d \in Disp, Dispatch(d) \/ Throw(d) \/ Crash(d) PROVE Once'
  BY <1>1, <1>5, DispatchOnce
<1>6. CASE OtherRead \/ OtherWrite \/ TurnOff \/ Resolve \/ UNCHANGED vars
  <2>1. /\ UNCHANGED <<dp, sent, sentAt, plan>> /\ clock' \in Nat /\ clock <= clock'
        /\ \A a \in Answer : Known(a) => Known(a)'
    <3>1. UNCHANGED <<dp, sent, sentAt, plan, clock, stage>>
      <4>1. CASE OtherWrite
        BY <4>1 DEF OtherWrite, WriteBack, msgVars
      <4>2. CASE OtherRead \/ TurnOff \/ Resolve \/ UNCHANGED vars
        BY <4>2 DEF OtherRead, TurnOff, Resolve, vars, msgVars, sentVars
      <4>3. QED
        BY <1>6, <4>1, <4>2
    <3>2. QED
      BY <1>1, <3>1 DEF RowsOK, Known
  <2>2. QED
    BY <1>1, <2>1, ElseOnce
<1>7. QED
  BY <1>2, <1>3, <1>4, <1>5, <1>6 DEF Next

\* A rule's follow-up goes out at most once for an answer, as long as no claim gets too
\* old under its holder and nobody writes the column back over a later plan: the claim,
\* and the look for a follow-up since the anchor, suffice against every interleaving of
\* dispatchers that throw and stop, and against claims lost to another answer's plan.
THEOREM FollowUpOnce == Spec => []SentOnce
<1>1. TypeInv /\ OnceInv => SentOnce
  BY DEF OnceInv, Once, Counted, SentOnce
<1>2. Spec => [](TypeInv /\ OnceInv)
  BY TypeInit, TypeStep, OnceInit, OnceStep, PTL DEF Spec
<1>3. QED
  BY <1>1, <1>2, PTL

=============================================================================
