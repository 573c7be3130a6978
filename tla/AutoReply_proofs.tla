--------------------------- MODULE AutoReply_proofs ---------------------------
(***************************************************************************)
(* Theorems about AutoReply, for any number of messages, rows of an answer *)
(* and attempts, whatever the model answers and whatever fails.            *)
(***************************************************************************)
EXTENDS AutoReply, TLAPS

RunState == [pc : Steps, batch : SUBSET Msg, base : Nat, part : 0..Parts - 1, silent : BOOLEAN]

\* A run belongs to an active job, a job to a message whose webhook is done, and
\* no date is in the future.
RunsOK ==
  \A m \in Msg :
    /\ run[m].pc # "idle" => job[m] = "active"
    /\ run[m].pc # "send" => run[m].part = 0
    /\ job[m] # "none" => stage[m] = "scheduled"
    /\ job[m] \in {"none", "waiting", "active", "orphan"} => tries[m] < Attempts
    /\ run[m].base <= clock /\ at[m] <= clock
    /\ m \in tokens => Stored(m)
    /\ \A n \in run[m].batch : Stored(n)

Base == TypeOK /\ RunsOK

\* Between the look for messages and the last look at the token.
Chosen(m) == run[m].pc \in {"token2", "human", "generate", "token3"}

\* A run whose token is still the latest has everything that announced itself.
Whole ==
  \A m \in Msg : Chosen(m) /\ latest = m
                   => \A n \in tokens : at[n] > lastBot => n \in run[m].batch

Before(m) == Chosen(m) \/ run[m].pc \in {"token", "collect"}

\* Who is past the last look is alone: others have lost the token.
Alone ==
  \A k, m \in Msg : k # m /\ Committed(k) => ~Committed(m) /\ (Before(m) => latest # m)

\* What is about to be answered has not been, and what has been is older than the
\* bot's last row.
Fresh ==
  \A m \in Msg : Committed(m) \/ (Chosen(m) /\ latest = m)
                   => \A n \in run[m].batch : answered[n] = 0
Older == \A n \in Msg : answered[n] > 0 => Stored(n) /\ at[n] <= lastBot
Dated ==
  \A m \in Msg : run[m].pc \in {"send", "escalate"} => \A n \in run[m].batch : at[n] <= run[m].base

OnceInv == Alone /\ Fresh /\ Older /\ Dated /\ \A m \in Msg : answered[m] <= 1

-----------------------------------------------------------------------------
(* What the updates of the model do, field by field. *)

LEMMA IdleTyped == Idle \in RunState /\ Idle.pc = "idle" /\ Idle.batch = {} /\ Idle.base = 0 /\ Idle.part = 0
BY AutoReplyAssumption DEF Idle, RunState, Steps

LEMMA Typed ==
  ASSUME TypeOK
  PROVE  /\ run \in [Msg -> RunState] /\ job \in [Msg -> Jobs] /\ clock \in Nat /\ lastBot \in Nat
         /\ at \in [Msg -> Nat] /\ stage \in [Msg -> Stages] /\ tries \in [Msg -> 0..Attempts]
         /\ tokens \subseteq Msg /\ answered \in [Msg -> Nat]
BY DEF TypeOK, RunState

LEMMA GotoEffect ==
  ASSUME TypeOK, NEW m \in Msg, NEW p \in Steps, Goto(m, p)
  PROVE  /\ run' \in [Msg -> RunState]
         /\ \A n \in Msg : /\ run'[n].batch = run[n].batch /\ run'[n].base = run[n].base
                           /\ run'[n].part = run[n].part
                           /\ run'[n].pc = IF n = m THEN p ELSE run[n].pc
BY Typed DEF Goto, RunState

LEMMA FinishEffect ==
  ASSUME TypeOK, NEW m \in Msg, NEW s \in Jobs, Finish(m, s)
  PROVE  /\ run' \in [Msg -> RunState] /\ job' \in [Msg -> Jobs]
         /\ run'[m].pc = "idle" /\ run'[m].batch = {} /\ run'[m].base = 0 /\ run'[m].part = 0 /\ job'[m] = s
         /\ \A n \in Msg : n # m => run'[n] = run[n] /\ job'[n] = job[n]
BY Typed, IdleTyped DEF Finish

LEMMA CollectEffect ==
  ASSUME TypeOK, NEW m \in Msg, NEW b \in SUBSET Msg,
         run' = [run EXCEPT ![m].pc = "token2", ![m].batch = b]
  PROVE  /\ run' \in [Msg -> RunState]
         /\ run'[m].pc = "token2" /\ run'[m].batch = b /\ run'[m].base = run[m].base
         /\ run'[m].part = run[m].part
         /\ \A n \in Msg : n # m => run'[n] = run[n]
<1> DEFINE r == [run[m] EXCEPT !.pc = "token2", !.batch = b]
<1>1. run[m] \in RunState
  BY Typed
<1>2. r \in RunState /\ r.pc = "token2" /\ r.batch = b /\ r.base = run[m].base /\ r.part = run[m].part
  BY <1>1 DEF RunState, Steps
<1>3. run' = [run EXCEPT ![m] = r]
  BY Typed
<1>4. QED
  BY <1>2, <1>3, Typed

LEMMA ComposeEffect ==
  ASSUME TypeOK, NEW m \in Msg, NEW p \in Steps, NEW s \in BOOLEAN,
         run' = [run EXCEPT ![m].pc = p, ![m].base = clock + 1, ![m].silent = s]
  PROVE  /\ run' \in [Msg -> RunState]
         /\ run'[m].pc = p /\ run'[m].batch = run[m].batch /\ run'[m].base = clock + 1
         /\ run'[m].part = run[m].part
         /\ \A n \in Msg : n # m => run'[n] = run[n]
<1> DEFINE r == [run[m] EXCEPT !.pc = p, !.base = clock + 1, !.silent = s]
<1>1. run[m] \in RunState /\ clock + 1 \in Nat
  BY Typed
<1>2. r \in RunState /\ r.pc = p /\ r.batch = run[m].batch /\ r.base = clock + 1 /\ r.part = run[m].part
  BY <1>1 DEF RunState
<1>3. run' = [run EXCEPT ![m] = r]
  BY Typed
<1>4. QED
  BY <1>2, <1>3, Typed

LEMMA PartEffect ==
  ASSUME TypeOK, NEW m \in Msg, run[m].part # Parts - 1, run' = [run EXCEPT ![m].part = @ + 1]
  PROVE  /\ run' \in [Msg -> RunState]
         /\ run'[m].pc = run[m].pc /\ run'[m].batch = run[m].batch /\ run'[m].base = run[m].base
         /\ run'[m].part > 0
         /\ \A n \in Msg : n # m => run'[n] = run[n]
<1> DEFINE r == [run[m] EXCEPT !.part = run[m].part + 1]
<1>1. run[m] \in RunState
  BY Typed
<1>2. run[m].part + 1 \in 0..Parts - 1 /\ run[m].part + 1 > 0
  BY <1>1, AutoReplyAssumption DEF RunState
<1>3. r \in RunState /\ r.pc = run[m].pc /\ r.batch = run[m].batch /\ r.base = run[m].base /\ r.part > 0
  BY <1>1, <1>2 DEF RunState
<1>4. run' = [run EXCEPT ![m] = r]
  BY Typed
<1>5. QED
  BY <1>3, <1>4, Typed

-----------------------------------------------------------------------------
(* Types and runs. *)

LEMMA BaseInit == Init => Base
<1>1. ASSUME Init PROVE TypeOK
  <2>1. run \in [Msg -> RunState] /\ tries \in [Msg -> 0..Attempts]
    BY <1>1, IdleTyped, AutoReplyAssumption DEF Init
  <2>2. /\ stage \in [Msg -> Stages] /\ at \in [Msg -> Nat] /\ job \in [Msg -> Jobs]
        /\ answered \in [Msg -> Nat]
    BY <1>1 DEF Init, Stages, Jobs
  <2>3. human \in BOOLEAN /\ up \in BOOLEAN
    BY <1>1, Zenon DEF Init
  <2>4. /\ latest \in Msg \union {None} /\ tokens \subseteq Msg /\ stalled \subseteq Msg
        /\ lastBot \in Nat /\ rows \in Nat /\ clock \in Nat /\ lastBot <= clock
        /\ quiet \subseteq Msg /\ faults \subseteq Faults
    BY <1>1 DEF Init
  <2>5. QED
    BY <2>1, <2>2, <2>3, <2>4 DEF TypeOK, RunState
<1>2. ASSUME Init PROVE RunsOK
  BY <1>2, IdleTyped, AutoReplyAssumption DEF Init, RunsOK, Stored
<1>3. QED
  BY <1>1, <1>2 DEF Base

\* What comes in.
LEMMA BaseReceive ==
  ASSUME Base, NEW m \in Msg, Write(m) \/ Receive(m) \/ DropReply(m)
  PROVE  Base'
<1>1. job[m] = "none" \/ stage[m] = "scheduled"
  BY DEF Base, RunsOK
<1>2. CASE Write(m)
  BY <1>1, <1>2, Typed DEF Base, TypeOK, RunsOK, Write, Tick, Stored, Stages, jobVars, botVars
<1>3. CASE Store(m)
  BY <1>1, <1>3, Typed DEF Base, TypeOK, RunsOK, Store, Stored, Stages, jobVars, botVars
<1>4. CASE SetToken(m)
  BY <1>1, <1>4, Typed DEF Base, TypeOK, RunsOK, SetToken, Stored, Stages, jobVars, botVars
<1>5. CASE AddJob(m)
  BY <1>1, <1>5, Typed DEF Base, TypeOK, RunsOK, AddJob, Stored, Stages, Jobs, botVars
<1>6. CASE DropReply(m)
  BY <1>1, <1>6, Typed DEF Base, TypeOK, RunsOK, DropReply, Fault, Stored, Stages, jobVars, botVars
<1>7. QED
  BY <1>2, <1>3, <1>4, <1>5, <1>6 DEF Receive

LEMMA BaseOther ==
  ASSUME Base, (\E m \in Msg : Recover(m)) \/ Crash \/ Boot \/ ExpireToken \/ TakeOver
  PROVE  Base'
<1>1. ASSUME NEW m \in Msg, Recover(m) PROVE Base'
  BY <1>1, Typed DEF Base, TypeOK, RunsOK, Recover, Stored, Jobs, inVars, botVars
<1>2. CASE Crash
  <2>1. /\ run' \in [Msg -> RunState]
        /\ \A m \in Msg : run'[m].pc = "idle" /\ run'[m].batch = {} /\ run'[m].base = 0 /\ run'[m].part = 0
    BY <1>2, IdleTyped DEF Crash
  <2>2. /\ stage' \in [Msg -> Stages] /\ job' \in [Msg -> Jobs]
        /\ \A m \in Msg : /\ Stored(m) => Stored(m)'
                          /\ stage[m] = "scheduled" => stage'[m] = "scheduled"
                          /\ job'[m] = "none" <=> job[m] = "none"
                          /\ job'[m] \in {"waiting", "active", "orphan"} => job[m] \in {"waiting", "active", "orphan"}
    BY <1>2, Typed DEF Base, Crash, Stages, Jobs, Stored
  <2>3. TypeOK'
    BY <1>2, <2>1, <2>2 DEF Base, TypeOK, RunState, Crash, Fault, botVars
  <2>4. RunsOK'
    BY <1>2, <2>1, <2>2, Typed DEF Base, RunsOK, Crash
  <2>5. QED
    BY <2>3, <2>4 DEF Base
<1>3. CASE Boot \/ ExpireToken \/ TakeOver
  <2>1. TypeOK'
    BY <1>3 DEF Base, TypeOK, Boot, ExpireToken, TakeOver, Fault, inVars, jobVars, botVars
  <2>2. UNCHANGED <<run, job, stage, tries, clock, at, tokens>>
    BY <1>3 DEF Boot, ExpireToken, TakeOver, inVars, jobVars
  <2>3. QED
    BY <2>1, <2>2 DEF Base, RunsOK, Stored
<1>4. QED
  BY <1>1, <1>2, <1>3

\* What the steps of a job leave as it should be.
WorkOK(m) ==
  /\ run' \in [Msg -> RunState] /\ job' \in [Msg -> Jobs]
  /\ \A n \in Msg : n # m => run'[n] = run[n] /\ job'[n] = job[n]
  /\ (run'[m].pc # "send" => run'[m].part = 0)
  /\ (run'[m].pc # "idle" => job'[m] = "active") /\ job'[m] \notin {"none", "orphan"}
  /\ run'[m].base <= clock' /\ \A n \in run'[m].batch : Stored(n)

LEMMA RunFacts ==
  ASSUME Base, NEW m \in Msg
  PROVE  /\ run[m] \in RunState /\ clock \in Nat
         /\ run[m].base \in Nat /\ run[m].base <= clock /\ \A n \in run[m].batch : n \in Msg /\ Stored(n)
         /\ (run[m].pc # "idle" => job[m] = "active") /\ (run[m].pc # "send" => run[m].part = 0)
BY Typed DEF Base, RunsOK, RunState

LEMMA FinishOK ==
  ASSUME Base, NEW m \in Msg, NEW s \in Jobs, s \notin {"none", "orphan"}, Finish(m, s), clock' = clock
  PROVE  WorkOK(m)
BY FinishEffect, RunFacts DEF Base, WorkOK

LEMMA GotoOK ==
  ASSUME Base, NEW m \in Msg, NEW p \in Steps, Goto(m, p), UNCHANGED <<job, clock>>,
         run[m].pc \notin {"idle", "send"}
  PROVE  WorkOK(m)
<1>1. \A n \in Msg : n # m => run'[n] = run[n]
  BY Typed DEF Goto, Base
<1>2. QED
  BY <1>1, GotoEffect, RunFacts, Typed DEF Base, WorkOK

LEMMA StepsOK ==
  ASSUME Base, NEW m \in Msg, Work(m) \/ Throw(m)
  PROVE  WorkOK(m)
<1> USE DEF Steps, Jobs
<1>1. CASE Take(m)
  <2>1. /\ \A n \in Msg : n # m => run'[n] = run[n] /\ job'[n] = job[n]
        /\ job' \in [Msg -> Jobs] /\ job'[m] = "active" /\ clock' = clock
    BY <1>1, Typed DEF Take, Goto, Base
  <2>2. QED
    BY <1>1, <2>1, GotoEffect, RunFacts DEF Take, Base, WorkOK
<1>2. CASE LookFirst(m) \/ LookSecond(m) \/ LookLast(m)
  BY <1>2, FinishOK, GotoOK DEF LookFirst, LookSecond, LookLast, Look, At
<1>3. CASE Collect(m)
  <2> DEFINE batch == {n \in Msg : Waiting(n)}
  <2>1. CASE batch = {}
    BY <1>3, <2>1, FinishOK DEF Collect
  <2>2. CASE batch # {}
    <3>1. /\ run' = [run EXCEPT ![m].pc = "token2", ![m].batch = batch]
          /\ UNCHANGED <<job, clock>> /\ run[m].pc # "idle"
      BY <1>3, <2>2 DEF Collect, At
    <3>2. \A n \in batch : Stored(n)
      BY DEF Waiting
    <3> HIDE DEF batch
    <3>3. batch \in SUBSET Msg
      BY DEF batch
    <3>4. QED
      <4>1. /\ run' \in [Msg -> RunState] /\ run'[m].batch = batch /\ run'[m].base = run[m].base
            /\ run'[m].part = run[m].part /\ run[m].pc # "send"
            /\ \A n \in Msg : n # m => run'[n] = run[n]
        BY <1>3, <3>1, <3>3, CollectEffect DEF Base, Collect, At
      <4>2. QED
        BY <3>1, <3>2, <4>1, RunFacts, Typed DEF Base, WorkOK
  <2>3. QED
    BY <2>1, <2>2
<1>4. CASE CheckHuman(m)
  BY <1>4, FinishOK, GotoOK DEF CheckHuman, At
<1>5. CASE Generate(m)
  BY <1>5, GotoOK DEF Generate, At, jobVars
<1>6. CASE Compose(m)
  <2>1. PICK o \in Outcomes :
          \/ Finish(m, "done") /\ clock' = clock
          \/ /\ run' = [run EXCEPT ![m].pc = IF o = "text" THEN "send" ELSE "escalate",
                                   ![m].base = clock + 1, ![m].silent = o = "silent_handoff"]
             /\ clock' = clock + 1 /\ job' = job
    BY <1>6 DEF Compose, Tick
  <2>2. CASE Finish(m, "done") /\ clock' = clock
    BY <2>2, FinishOK
  <2>3. CASE ~(Finish(m, "done") /\ clock' = clock)
    <3> DEFINE p == IF o = "text" THEN "send" ELSE "escalate"
               q == o = "silent_handoff"
    <3>1. p \in Steps /\ q \in BOOLEAN
      OBVIOUS
    <3>2. /\ run' = [run EXCEPT ![m].pc = p, ![m].base = clock + 1, ![m].silent = q]
          /\ clock' = clock + 1 /\ job' = job /\ run[m].pc # "idle"
      BY <1>6, <2>1, <2>3 DEF Compose, At
    <3> HIDE DEF p, q
    <3>3. QED
      <4>1. /\ run' \in [Msg -> RunState] /\ run'[m].batch = run[m].batch /\ run'[m].base = clock + 1
            /\ run'[m].part = run[m].part /\ run[m].pc # "send"
            /\ \A n \in Msg : n # m => run'[n] = run[n]
        BY <1>6, <3>1, <3>2, ComposeEffect DEF Base, Compose, At
      <4>2. QED
        BY <3>2, <4>1, RunFacts, Typed DEF Base, WorkOK
  <2>4. QED
    BY <2>2, <2>3
<1>7. CASE Escalate(m)
  BY <1>7, FinishOK, GotoOK DEF Escalate, At
<1>8. CASE SendPart(m)
  <2>1. CASE run[m].part = Parts - 1
    BY <1>8, <2>1, FinishOK DEF SendPart
  <2>2. CASE run[m].part # Parts - 1
    <3>1. /\ run' = [run EXCEPT ![m].part = @ + 1] /\ UNCHANGED <<job, clock>> /\ run[m].pc # "idle"
      BY <1>8, <2>2 DEF SendPart, At
    <3>2. QED
      <4>1. /\ run' \in [Msg -> RunState] /\ run'[m].batch = run[m].batch /\ run'[m].base = run[m].base
            /\ run'[m].pc = "send" /\ \A n \in Msg : n # m => run'[n] = run[n]
        BY <1>8, <2>2, <3>1, PartEffect DEF Base, SendPart, At
      <4>2. QED
        BY <3>1, <4>1, RunFacts, Typed DEF Base, WorkOK
  <2>3. QED
    BY <2>1, <2>2
<1>9. CASE Throw(m)
  BY <1>9, FinishOK DEF Throw
<1>10. QED
  BY <1>1, <1>2, <1>3, <1>4, <1>5, <1>6, <1>7, <1>8, <1>9 DEF Work

\* The job at work.
LEMMA BaseWork ==
  ASSUME Base, NEW m \in Msg, Work(m) \/ Throw(m)
  PROVE  Base'
<1> USE DEF Steps, Jobs
<1>1. /\ UNCHANGED <<inVars, up>> /\ clock' \in {clock, clock + 1}
      /\ faults' = faults \/ \E f \in Faults : faults' = faults \union {f}
      /\ latest' = latest
  BY DEF Work, Take, LookFirst, LookSecond, LookLast, Look, Collect, CheckHuman, Generate, Compose,
         Escalate, SendPart, Throw, Fault, Tick
<1>2. WorkOK(m)
  BY StepsOK
<1>3. /\ lastBot' \in Nat /\ lastBot' <= clock' /\ rows' \in Nat
      /\ answered' \in [Msg -> Nat] /\ quiet' \subseteq Msg /\ human' \in BOOLEAN
  <2>1. CASE SendPart(m)
    BY <2>1, RunFacts DEF SendPart, Base, TypeOK
  <2>2. CASE ~SendPart(m)
    <3>1. UNCHANGED <<lastBot, rows, answered>>
      BY <2>2 DEF Work, Take, LookFirst, LookSecond, LookLast, Look, Collect, CheckHuman,
           Generate, Compose, Escalate, Throw, botVars
    <3>2. quiet' \in {quiet, quiet \union run[m].batch} /\ human' \in {human, TRUE}
      BY <2>2 DEF Work, Take, LookFirst, LookSecond, LookLast, Look, Collect, CheckHuman,
           Generate, Compose, Escalate, Throw, botVars
    <3>3. human' \in BOOLEAN
      BY <3>2, Zenon DEF Base, TypeOK
    <3>4. QED
      BY <1>1, <3>1, <3>2, <3>3, RunFacts DEF Base, TypeOK
  <2>3. QED
    BY <2>1, <2>2
<1>4. job[m] \in {"waiting", "active"} /\ tries[m] < Attempts
  <2>1. job[m] = "waiting" \/ run[m].pc # "idle"
    BY DEF Work, Take, LookFirst, LookSecond, LookLast, Look, Collect, CheckHuman, Generate,
         Compose, Escalate, SendPart, Throw, At
  <2>2. QED
    BY <2>1 DEF Base, RunsOK
<1>5. /\ tries' \in [Msg -> 0..Attempts] /\ stalled' = stalled
      /\ \A n \in Msg : n # m => tries'[n] = tries[n]
      /\ job'[m] \in {"waiting", "active"} => tries'[m] < Attempts
  <2>1. CASE Throw(m)
    <3>1. tries[m] + 1 \in 0..Attempts
      BY <1>4, AutoReplyAssumption, Typed DEF Base
    <3>2. /\ tries' = [tries EXCEPT ![m] = tries[m] + 1] /\ stalled' = stalled
          /\ job'[m] = IF tries[m] + 1 < Attempts THEN "waiting" ELSE "failed"
      BY <2>1, Typed DEF Throw, Finish, Base
    <3>3. QED
      BY <3>1, <3>2, Typed DEF Base
  <2>2. CASE ~Throw(m)
    <3>1. tries' = tries /\ stalled' = stalled
      BY <2>2 DEF Work, Take, LookFirst, LookSecond, LookLast, Look, Collect, CheckHuman, Generate,
           Compose, Escalate, SendPart, jobVars
    <3>2. QED
      BY <1>4, <3>1, Typed DEF Base
  <2>3. QED
    BY <2>1, <2>2
<1>6. TypeOK'
  BY <1>1, <1>2, <1>3, <1>5 DEF Base, TypeOK, RunState, WorkOK, inVars
<1>7. UNCHANGED <<stage, at, tokens>>
  BY <1>1 DEF inVars
<1>8. ASSUME NEW n \in Msg
      PROVE  /\ run'[n].pc # "idle" => job'[n] = "active"
             /\ run'[n].pc # "send" => run'[n].part = 0
             /\ job'[n] # "none" => stage'[n] = "scheduled"
             /\ job'[n] \in {"none", "waiting", "active", "orphan"} => tries'[n] < Attempts
             /\ run'[n].base <= clock' /\ at'[n] <= clock'
             /\ \A k \in run'[n].batch : Stored(k)
  <2>1. CASE n = m
    BY <1>1, <1>2, <1>4, <1>5, <1>7, <2>1, Typed DEF Base, RunsOK, WorkOK
  <2>2. CASE n # m
    BY <1>1, <1>2, <1>5, <1>7, <2>2, RunFacts, Typed DEF Base, RunsOK, WorkOK
  <2>3. QED
    BY <2>1, <2>2
<1>9. RunsOK'
  BY <1>7, <1>8 DEF Base, RunsOK, Stored
<1>10. QED
  BY <1>6, <1>9 DEF Base
LEMMA BaseStep ==
  ASSUME Base, [Next]_vars
  PROVE  Base'
<1>1. CASE UNCHANGED vars
  <2>1. TypeOK'
    BY <1>1 DEF Base, TypeOK, vars, inVars, jobVars, botVars
  <2>2. RunsOK'
    BY <1>1 DEF Base, RunsOK, Stored, vars, inVars, jobVars, botVars
  <2>3. QED
    BY <2>1, <2>2 DEF Base
<1>2. QED
  BY <1>1, BaseReceive, BaseWork, BaseOther DEF Next

\* Messages, jobs, runs and dates keep their types whatever fails, and a run belongs to
\* an active job (processDebouncedAutoReplyJob).
THEOREM ReplyTypeCorrect == Spec => []TypeOK
<1>1. Base => TypeOK
  BY DEF Base
<1>2. QED
  BY BaseInit, BaseStep, <1>1, PTL DEF Spec

-----------------------------------------------------------------------------
(* An answer takes in the whole burst. *)

\* The steps of a job that leave who is before its last look as they were.
LEMMA RunKept ==
  ASSUME Base, NEW m \in Msg, Work(m) \/ Throw(m)
  PROVE  /\ \A n \in Msg : n # m => run'[n] = run[n]
         /\ UNCHANGED <<stage, at, tokens, latest>>
         /\ \A n \in Msg : Stored(n)' = Stored(n)
<1>1. UNCHANGED <<stage, at, tokens, latest>>
  BY DEF Work, Take, LookFirst, LookSecond, LookLast, Look, Collect, CheckHuman, Generate, Compose,
         Escalate, SendPart, Throw, inVars
<1>2. QED
  BY <1>1, StepsOK DEF WorkOK, Stored

\* Where a job is after a step.
LEMMA ChosenSteps ==
  ASSUME Base, NEW m \in Msg, Work(m) \/ Throw(m), Chosen(m)'
  PROVE  \/ Chosen(m) /\ run'[m].batch = run[m].batch /\ UNCHANGED <<lastBot, answered>>
         \/ /\ run[m].pc = "collect" /\ run'[m].batch = {n \in Msg : Waiting(n)}
            /\ UNCHANGED <<lastBot, answered>>
<1> USE DEF Steps, Jobs
<1>1. ASSUME NEW s \in Jobs, Finish(m, s) PROVE FALSE
  BY <1>1, FinishEffect DEF Base, Chosen
<1>2. CASE Collect(m)
  <2> DEFINE batch == {n \in Msg : Waiting(n)}
  <2>1. run' = [run EXCEPT ![m].pc = "token2", ![m].batch = batch] /\ run[m].pc = "collect"
    BY <1>1, <1>2 DEF Collect, At
  <2>2. batch \in SUBSET Msg
    OBVIOUS
  <2> HIDE DEF batch
  <2>3. run'[m].batch = batch
    BY <2>1, <2>2, CollectEffect DEF Base
  <2>4. QED
    BY <1>2, <2>1, <2>3 DEF batch, Collect, botVars
<1>3. CASE Take(m)
  BY <1>3, GotoEffect DEF Take, Base, Chosen
<1>4. CASE LookFirst(m)
  BY <1>1, <1>4, GotoEffect DEF LookFirst, Look, Base, Chosen
<1>5. CASE LookSecond(m)
  BY <1>1, <1>5, GotoEffect DEF LookSecond, Look, At, Base, Chosen, botVars
<1>6. CASE LookLast(m)
  BY <1>1, <1>6, GotoEffect DEF LookLast, Look, Base, Chosen
<1>7. CASE CheckHuman(m)
  BY <1>1, <1>7, GotoEffect DEF CheckHuman, At, Base, Chosen
<1>8. CASE Generate(m)
  BY <1>8, GotoEffect DEF Generate, At, Base, Chosen, botVars
<1>9. CASE Compose(m)
  <2>1. PICK o \in Outcomes :
          run' = [run EXCEPT ![m].pc = IF o = "text" THEN "send" ELSE "escalate",
                             ![m].base = clock + 1, ![m].silent = o = "silent_handoff"]
    BY <1>1, <1>9 DEF Compose
  <2> DEFINE p == IF o = "text" THEN "send" ELSE "escalate"
             q == o = "silent_handoff"
  <2>2. p \in Steps /\ q \in BOOLEAN /\ p \in {"send", "escalate"}
    OBVIOUS
  <2>3. run' = [run EXCEPT ![m].pc = p, ![m].base = clock + 1, ![m].silent = q]
    BY <2>1
  <2> HIDE DEF p, q
  <2>4. QED
    BY <2>2, <2>3, ComposeEffect DEF Base, Chosen
<1>10. CASE Escalate(m)
  BY <1>1, <1>10, GotoEffect DEF Escalate, Base, Chosen
<1>11. CASE SendPart(m)
  BY <1>1, <1>11, PartEffect DEF SendPart, At, Base, Chosen
<1>12. CASE Throw(m)
  BY <1>1, <1>12 DEF Throw
<1>13. QED
  BY <1>2, <1>3, <1>4, <1>5, <1>6, <1>7, <1>8, <1>9, <1>10, <1>11, <1>12 DEF Work

\* The bot's last row is never an older one.
LEMMA LastBotGrows ==
  ASSUME Base, [Next]_vars
  PROVE  lastBot' >= lastBot /\ lastBot \in Nat
<1>1. ASSUME NEW m \in Msg, SendPart(m) PROVE lastBot' >= lastBot
  BY <1>1, RunFacts, Typed DEF SendPart, Base
<1>2. CASE lastBot' = lastBot
  BY <1>2, Typed DEF Base
<1>3. QED
  BY <1>1, <1>2, Typed DEF Next, Write, Receive, Store, SetToken, AddJob, DropReply, Work, Take,
     LookFirst, LookSecond, LookLast, Look, Collect, CheckHuman, Generate, Compose, Escalate, Throw,
     Recover, Crash, Boot, ExpireToken, TakeOver, botVars, vars, Base

\* Past the last look comes who has the latest token.
LEMMA LooksLast ==
  ASSUME Base, [Next]_vars, NEW m \in Msg, run[m].pc = "token3", run'[m].pc = "compose"
  PROVE  latest = m
<1>1. ASSUME NEW k \in Msg, Work(k) \/ Throw(k)
      PROVE  latest = m
  <2>1. k = m
    BY <1>1, RunKept
  <2>2. LookLast(m) \/ Throw(m)
    BY <1>1, <2>1, RunFacts DEF Work, Take, LookFirst, LookSecond, Look, Collect, CheckHuman, Generate,
         Compose, Escalate, SendPart, At
  <2>3. \A s \in Jobs : ~Finish(m, s)
    BY FinishEffect DEF Base
  <2>4. QED
    BY <2>2, <2>3 DEF LookLast, Look, Throw, Jobs
<1>2. CASE run' = run
  BY <1>2
<1>3. CASE Crash
  BY <1>3, IdleTyped DEF Crash
<1>4. QED
  BY <1>1, <1>2, <1>3 DEF Next, Write, Receive, Store, SetToken, AddJob, DropReply, Recover, Boot,
     ExpireToken, TakeOver, vars

LEMMA WholeReceive ==
  ASSUME Base, Whole, NEW m \in Msg, Write(m) \/ Receive(m) \/ DropReply(m)
  PROVE  Whole'
<1>1. UNCHANGED <<run, lastBot>>
  BY DEF Write, Receive, Store, SetToken, AddJob, DropReply, botVars
<1>2. CASE SetToken(m)
  <2>1. stage[m] # "scheduled" /\ latest' = m
    BY <1>2 DEF SetToken
  <2>2. ~Chosen(m)
    BY <2>1 DEF Base, RunsOK, Chosen
  <2>3. QED
    BY <1>1, <2>1, <2>2 DEF Whole, Chosen
<1>3. CASE ~SetToken(m)
  <2>1. UNCHANGED <<tokens, latest>> /\ \A n \in tokens : at'[n] = at[n]
    BY <1>3, Typed DEF Write, Receive, Store, AddJob, DropReply, Base, RunsOK, Stored
  <2>2. QED
    BY <1>1, <2>1 DEF Whole, Chosen
<1>4. QED
  BY <1>2, <1>3

LEMMA WholeStep ==
  ASSUME Base, Whole, [Next]_vars
  PROVE  Whole'
<1>1. ASSUME NEW m \in Msg, Work(m) \/ Throw(m)
      PROVE  Whole'
  <2>1. lastBot' >= lastBot /\ lastBot \in Nat /\ lastBot' \in Nat /\ at \in [Msg -> Nat] /\ tokens \subseteq Msg
    BY LastBotGrows, BaseStep, Typed DEF Base, TypeOK
  <2>2. ASSUME NEW k \in Msg, Chosen(k)', latest' = k, NEW n \in tokens', at'[n] > lastBot'
        PROVE  n \in run'[k].batch
    <3>1. n \in tokens /\ n \in Msg /\ latest = k /\ at[n] > lastBot /\ Stored(n)
      BY <1>1, <2>1, <2>2, RunKept DEF Base, RunsOK
    <3>2. CASE k # m
      BY <1>1, <2>2, <3>1, <3>2, RunKept DEF Whole, Chosen
    <3>3. CASE k = m
      BY <1>1, <2>2, <3>1, <3>3, ChosenSteps DEF Whole, Waiting
    <3>4. QED
      BY <3>2, <3>3
  <2>3. QED
    BY <2>2 DEF Whole
<1>2. CASE (\E m \in Msg : Recover(m)) \/ Boot \/ TakeOver \/ UNCHANGED vars
  BY <1>2 DEF Whole, Chosen, Recover, Boot, TakeOver, vars, inVars, botVars
<1>3. CASE ExpireToken
  BY <1>3, AutoReplyAssumption DEF Whole, ExpireToken
<1>4. CASE Crash
  BY <1>4, IdleTyped DEF Whole, Chosen, Crash
<1>5. QED
  BY <1>1, <1>2, <1>3, <1>4, WholeReceive DEF Next

\* An answer is sent only if it takes in every message that had announced itself when the
\* token was looked at last (maybeSendChatbotAutoReply): a message that comes after the
\* batch has made its own token the latest.
THEOREM AnswersAllThatWait == Spec => AnswersWholeBurst
<1>1. Init => Base /\ Whole
  BY BaseInit, IdleTyped DEF Init, Whole, Chosen
<1>2. Base /\ Whole /\ [Next]_vars => (Base /\ Whole)'
  BY BaseStep, WholeStep
<1>3. ASSUME Base, Whole, [Next]_vars
      PROVE  [\A m \in Msg : (At(m, "token3") /\ run'[m].pc = "compose")
                => {n \in tokens : at[n] > lastBot} \subseteq run[m].batch]_vars
  BY <1>3, LooksLast DEF Whole, Chosen, At
<1>4. QED
  BY <1>1, <1>2, <1>3, PTL DEF Spec, AnswersWholeBurst

-----------------------------------------------------------------------------
(* A message gets one answer. *)

\* A step that is not a job's: messages come in, runs may stop.
LEMMA OnceOther ==
  ASSUME Base, Base', OnceInv, UNCHANGED <<lastBot, answered>>,
         \A m \in Msg : run'[m] = run[m] \/ run'[m].pc = "idle",
         \A m \in Msg : latest' = m => latest = m \/ run'[m].pc = "idle",
         \A m \in Msg : Stored(m) => Stored(m)' /\ at'[m] = at[m]
  PROVE  OnceInv'
<1>1. Alone'
  BY DEF OnceInv, Alone, Committed, Before, Chosen, At
<1>2. Fresh'
  BY DEF OnceInv, Fresh, Committed, Chosen, At
<1>3. Older'
  BY DEF OnceInv, Older
<1>4. Dated'
  BY RunFacts DEF OnceInv, Dated
<1>5. QED
  BY <1>1, <1>2, <1>3, <1>4 DEF OnceInv

\* A step of a job that sends nothing.
LEMMA OnceRun ==
  ASSUME Base, Base', OnceInv, NEW m \in Msg, \A n \in Msg : n # m => run'[n] = run[n],
         UNCHANGED <<stage, at, latest, answered, lastBot>>,
         Committed(m)' => \A k \in Msg : k # m => ~Committed(k) /\ (Before(k) => latest # k),
         Before(m)' /\ latest = m => \A k \in Msg : k # m => ~Committed(k),
         Committed(m)' \/ (Chosen(m)' /\ latest = m) => \A n \in run'[m].batch : answered[n] = 0,
         run'[m].pc \in {"send", "escalate"} => \A n \in run'[m].batch : at[n] <= run'[m].base
  PROVE  OnceInv'
<1>1. \A n \in Msg : n # m => /\ Committed(n)' = Committed(n) /\ Before(n)' = Before(n)
                              /\ Chosen(n)' = Chosen(n)
  BY DEF Committed, Before, Chosen, At
<1>2. Alone'
  BY <1>1 DEF OnceInv, Alone
<1>3. Fresh'
  BY <1>1 DEF OnceInv, Fresh
<1>4. Older'
  BY DEF OnceInv, Older, Stored
<1>5. Dated'
  BY DEF OnceInv, Dated
<1>6. QED
  BY <1>2, <1>3, <1>4, <1>5 DEF OnceInv

\* Its part of an answer ends.
LEMMA OnceEnds ==
  ASSUME Base, Base', OnceInv, NEW m \in Msg, run'[m].pc = "idle",
         \A n \in Msg : n # m => run'[n] = run[n],
         UNCHANGED <<stage, at, latest, answered, lastBot>>
  PROVE  OnceInv'
<1>1. ~Committed(m)' /\ ~Before(m)' /\ ~Chosen(m)'
  BY DEF Committed, Before, Chosen, At
<1>2. QED
  BY <1>1, OnceRun

\* It goes on before its last look.
LEMMA OnceGoesOn ==
  ASSUME Base, Base', OnceInv, NEW m \in Msg, Before(m), Before(m)',
         \A n \in Msg : n # m => run'[n] = run[n],
         UNCHANGED <<stage, at, latest, answered, lastBot>>,
         Chosen(m)' /\ latest = m => \A n \in run'[m].batch : answered[n] = 0
  PROVE  OnceInv'
<1>1. ~Committed(m)' /\ run'[m].pc \notin {"send", "escalate"}
  BY DEF Committed, Before, Chosen, At
<1>2. latest = m => \A k \in Msg : k # m => ~Committed(k)
  BY DEF OnceInv, Alone
<1>3. QED
  BY <1>1, <1>2, OnceRun

\* It goes on after it.
LEMMA OnceGoesOut ==
  ASSUME Base, Base', OnceInv, NEW m \in Msg, Committed(m), Committed(m)',
         run'[m].batch = run[m].batch, ~Before(m)',
         \A n \in Msg : n # m => run'[n] = run[n],
         UNCHANGED <<stage, at, latest, answered, lastBot>>,
         run'[m].pc \in {"send", "escalate"} => \A n \in run'[m].batch : at[n] <= run'[m].base
  PROVE  OnceInv'
<1>1. \A k \in Msg : k # m => ~Committed(k) /\ (Before(k) => latest # k)
  BY DEF OnceInv, Alone
<1>2. \A n \in run'[m].batch : answered[n] = 0
  BY DEF OnceInv, Fresh
<1>3. ~Chosen(m)'
  BY DEF Before
<1>4. QED
  BY <1>1, <1>2, <1>3, OnceRun

\* The first row of an answer: nobody else is about to answer any of its messages.
LEMMA OnceSends ==
  ASSUME Base, Base', OnceInv, NEW m \in Msg, SendPart(m)
  PROVE  OnceInv'
<1> USE DEF Jobs
<1>1. /\ \A n \in Msg : n # m => run'[n] = run[n]
      /\ UNCHANGED <<stage, at, tokens, latest>>
  BY RunKept DEF Work
<1>2. run[m].pc = "send" /\ lastBot' >= lastBot /\ lastBot' >= run[m].base /\ lastBot \in Nat /\ lastBot' \in Nat
  BY RunFacts, Typed DEF SendPart, At, Base
<1>3. ~Committed(m)' /\ ~Before(m)'
  <2>1. CASE run[m].part = Parts - 1
    BY <2>1, FinishEffect DEF SendPart, Base, Committed, Before, Chosen, At
  <2>2. CASE run[m].part # Parts - 1
    <3>1. run'[m].pc = "send" /\ run'[m].part > 0
      BY <1>2, <2>2, PartEffect DEF SendPart, Base
    <3>2. QED
      BY <3>1 DEF Committed, Before, Chosen, At
  <2>3. QED
    BY <2>1, <2>2
<1>4. Dated'
  <2>1. run'[m].pc = "send" => run'[m].batch = run[m].batch /\ run'[m].base = run[m].base
    BY <1>2, PartEffect, FinishEffect DEF SendPart, Base
  <2>2. run'[m].pc \in {"idle", "send"}
    BY <1>2, PartEffect, FinishEffect DEF SendPart, Base
  <2>3. QED
    BY <1>1, <1>2, <2>1, <2>2 DEF OnceInv, Dated
<1>5. \A n \in Msg : n # m => /\ Committed(n)' = Committed(n) /\ Before(n)' = Before(n)
                              /\ Chosen(n)' = Chosen(n)
  BY <1>1 DEF Committed, Before, Chosen, At
<1>6. Alone'
  BY <1>1, <1>3, <1>5 DEF OnceInv, Alone
<1>7. CASE run[m].part = 0
  <2>1. \A n \in Msg : answered'[n] = IF n \in run[m].batch THEN answered[n] + 1 ELSE answered[n]
    BY <1>7 DEF SendPart
  <2>2. Committed(m) /\ \A n \in run[m].batch : n \in Msg /\ answered[n] = 0 /\ Stored(n) /\ at[n] <= run[m].base
    BY <1>2, <1>7, RunFacts DEF OnceInv, Fresh, Dated, Committed, At
  <2>3. \A k \in Msg : k # m => ~Committed(k) /\ (Before(k) => latest # k)
    BY <2>2 DEF OnceInv, Alone
  <2>4. Fresh'
    BY <1>1, <1>3, <1>5, <2>3 DEF Fresh, Before
  <2>5. \A n \in Msg : answered'[n] <= 1
    BY <2>1, <2>2 DEF OnceInv
  <2>6. Older'
    <3>1. ASSUME NEW n \in Msg, answered'[n] > 0 PROVE Stored(n) /\ at[n] <= lastBot'
      <4>1. CASE n \in run[m].batch
        BY <1>2, <2>2, <4>1, RunFacts, Typed DEF Base
      <4>2. CASE n \notin run[m].batch
        BY <1>2, <2>1, <3>1, <4>2, Typed DEF OnceInv, Older, Base
      <4>3. QED
        BY <4>1, <4>2
    <3>2. QED
      BY <1>1, <3>1 DEF Older, Stored
  <2>7. QED
    BY <1>4, <1>6, <2>4, <2>5, <2>6 DEF OnceInv
<1>8. CASE run[m].part # 0
  <2>1. answered' = answered
    BY <1>8 DEF SendPart
  <2>2. Fresh'
    BY <1>1, <1>3, <1>5, <2>1 DEF OnceInv, Fresh, Before
  <2>3. Older'
    BY <1>1, <1>2, <2>1, Typed DEF OnceInv, Older, Stored, Base
  <2>4. QED
    BY <1>4, <1>6, <2>1, <2>2, <2>3 DEF OnceInv
<1>9. QED
  BY <1>7, <1>8

LEMMA OnceWork ==
  ASSUME Base, Base', OnceInv, Prompt, NEW m \in Msg, Work(m) \/ Throw(m)
  PROVE  OnceInv'
<1> USE DEF Steps, Jobs
<1>1. /\ \A n \in Msg : n # m => run'[n] = run[n]
      /\ UNCHANGED <<stage, at, tokens, latest>>
  BY RunKept
<1>2. ASSUME NEW s \in Jobs, Finish(m, s), UNCHANGED <<answered, lastBot>> PROVE OnceInv'
  BY <1>1, <1>2, FinishEffect, OnceEnds DEF Base
<1>3. ASSUME NEW p \in {"collect", "human", "generate", "token3"}, Goto(m, p), Before(m),
             p # "collect" => Chosen(m), UNCHANGED <<answered, lastBot>>
      PROVE  OnceInv'
  <2>1. run'[m].pc = p /\ run'[m].batch = run[m].batch
    BY <1>3, GotoEffect DEF Base
  <2>2. Before(m)' /\ (Chosen(m)' => Chosen(m))
    BY <1>3, <2>1 DEF Before, Chosen
  <2>3. QED
    BY <1>1, <1>3, <2>1, <2>2, OnceGoesOn DEF OnceInv, Fresh
<1>4. CASE Take(m)
  <2>1. /\ \A k \in Msg : ~Committed(k)
        /\ UNCHANGED <<answered, lastBot>>
    BY <1>4 DEF Take, botVars
  <2>2. run'[m].pc = "token"
    BY <1>4, GotoEffect DEF Take, Base
  <2>3. ~Committed(m)' /\ ~Chosen(m)'
    BY <2>2 DEF Committed, Chosen, At
  <2>4. QED
    BY <1>1, <2>1, <2>2, <2>3, OnceRun
<1>5. CASE LookFirst(m)
  BY <1>2, <1>3, <1>5 DEF LookFirst, Look, At, Before, botVars
<1>6. CASE Collect(m)
  <2>1. UNCHANGED <<answered, lastBot>> /\ Before(m)
    BY <1>6 DEF Collect, botVars, Before, At
  <2>2. CASE Chosen(m)'
    <3>1. run'[m].batch = {n \in Msg : Waiting(n)}
      BY <1>6, <2>2, ChosenSteps DEF Work, Collect, At, Chosen
    <3>2. \A n \in run'[m].batch : answered[n] = 0
      BY <3>1, Typed DEF OnceInv, Older, Waiting, Base
    <3>3. QED
      BY <1>1, <2>1, <2>2, <3>2, OnceGoesOn DEF Before
  <2>3. CASE ~Chosen(m)'
    <3> DEFINE batch == {n \in Msg : Waiting(n)}
    <3>1. batch = {}
      <4>1. ASSUME batch # {} PROVE FALSE
        <5>1. run' = [run EXCEPT ![m].pc = "token2", ![m].batch = batch]
          BY <1>6, <4>1 DEF Collect
        <5>2. batch \in SUBSET Msg
          OBVIOUS
        <5> HIDE DEF batch
        <5>3. QED
          BY <2>3, <5>1, <5>2, CollectEffect DEF Base, Chosen
      <4>2. QED
        BY <4>1
    <3>2. QED
      BY <1>2, <1>6, <2>1, <3>1 DEF Collect
  <2>4. QED
    BY <2>2, <2>3
<1>7. CASE LookSecond(m)
  BY <1>2, <1>3, <1>7 DEF LookSecond, Look, At, Before, Chosen, botVars
<1>8. CASE CheckHuman(m)
  BY <1>2, <1>3, <1>8 DEF CheckHuman, At, Before, Chosen
<1>9. CASE Generate(m)
  BY <1>3, <1>9 DEF Generate, At, Before, Chosen, botVars
<1>10. CASE LookLast(m)
  <2>1. CASE latest # m
    BY <1>2, <1>10, <2>1 DEF LookLast, Look, botVars
  <2>2. CASE latest = m
    <3>1. /\ run'[m].pc = "compose" /\ run'[m].batch = run[m].batch
          /\ UNCHANGED <<answered, lastBot>> /\ Chosen(m)
      BY <1>10, <2>2, GotoEffect DEF LookLast, Look, At, Chosen, Base, botVars
    <3>2. \A k \in Msg : k # m => ~Committed(k) /\ latest # k
      BY <2>2, <3>1 DEF OnceInv, Alone, Before
    <3>3. ~Before(m)' /\ \A n \in run'[m].batch : answered[n] = 0
      BY <2>2, <3>1 DEF OnceInv, Fresh, Before, Chosen
    <3>4. QED
      BY <1>1, <3>1, <3>2, <3>3, OnceRun
  <2>3. QED
    BY <2>1, <2>2
<1>11. CASE Compose(m)
  <2>1. PICK o \in Outcomes :
          \/ Finish(m, "done")
          \/ run' = [run EXCEPT ![m].pc = IF o = "text" THEN "send" ELSE "escalate",
                                ![m].base = clock + 1, ![m].silent = o = "silent_handoff"]
    BY <1>11 DEF Compose
  <2>2. UNCHANGED <<answered, lastBot>> /\ Committed(m) /\ run[m].pc = "compose"
    BY <1>11 DEF Compose, Committed, At
  <2>3. CASE Finish(m, "done")
    BY <1>2, <2>2, <2>3
  <2>4. CASE ~Finish(m, "done")
    <3> DEFINE p == IF o = "text" THEN "send" ELSE "escalate"
               q == o = "silent_handoff"
    <3>1. p \in Steps /\ q \in BOOLEAN /\ p \in {"send", "escalate"}
      OBVIOUS
    <3>2. run' = [run EXCEPT ![m].pc = p, ![m].base = clock + 1, ![m].silent = q]
      BY <2>1, <2>4
    <3> HIDE DEF p, q
    <3>3. /\ run'[m].pc \in {"send", "escalate"} /\ run'[m].batch = run[m].batch
          /\ run'[m].base = clock + 1 /\ run'[m].part = run[m].part
      BY <3>1, <3>2, ComposeEffect DEF Base
    <3>4. \A n \in run[m].batch : at[n] <= clock + 1
      BY RunFacts, Typed DEF Base, RunsOK
    <3>5. ~Before(m)'
      BY <3>3 DEF Before, Chosen
    <3>6. run[m].part = 0 => Committed(m)'
      BY <3>3 DEF Committed, At
    <3>7. QED
      BY <1>1, <2>2, <3>3, <3>4, <3>5, <3>6, RunFacts, OnceGoesOut
  <2>5. QED
    BY <2>3, <2>4
<1>12. CASE Escalate(m)
  <2>1. UNCHANGED <<answered, lastBot>> /\ Committed(m) /\ run[m].pc = "escalate"
    BY <1>12 DEF Escalate, Committed, At
  <2>2. CASE run[m].silent
    BY <1>2, <1>12, <2>1, <2>2 DEF Escalate
  <2>3. CASE ~run[m].silent
    <3>1. /\ run'[m].pc = "send" /\ run'[m].batch = run[m].batch /\ run'[m].base = run[m].base
          /\ run'[m].part = run[m].part
      BY <1>12, <2>3, GotoEffect DEF Escalate, Base
    <3>2. ~Before(m)' /\ (run[m].part = 0 => Committed(m)')
      BY <3>1 DEF Before, Chosen, Committed, At
    <3>3. \A n \in run[m].batch : at[n] <= run[m].base
      BY <2>1 DEF OnceInv, Dated
    <3>4. QED
      BY <1>1, <2>1, <3>1, <3>2, <3>3, RunFacts, OnceGoesOut
  <2>4. QED
    BY <2>2, <2>3
<1>13. CASE SendPart(m)
  BY <1>13, OnceSends
<1>14. CASE Throw(m)
  BY <1>2, <1>14 DEF Throw, botVars
<1>15. QED
  BY <1>4, <1>5, <1>6, <1>7, <1>8, <1>9, <1>10, <1>11, <1>12, <1>13, <1>14 DEF Work

LEMMA OnceStep ==
  ASSUME Base, OnceInv, Prompt, [Next]_vars
  PROVE  OnceInv'
<1>1. Base'
  BY BaseStep
<1>2. ASSUME NEW m \in Msg, Write(m) \/ Receive(m) \/ DropReply(m)
      PROVE  OnceInv'
  <2>1. UNCHANGED <<run, lastBot, answered>>
    BY <1>2 DEF Write, Receive, Store, SetToken, AddJob, DropReply, botVars
  <2>2. \A n \in Msg : Stored(n) => Stored(n)' /\ at'[n] = at[n]
    BY <1>2, Typed DEF Write, Receive, Store, SetToken, AddJob, DropReply, Stored, Base
  <2>3. \A n \in Msg : latest' = n => latest = n \/ run'[n].pc = "idle"
    <3>1. CASE SetToken(m)
      <4>1. run[m].pc = "idle"
        BY <3>1 DEF SetToken, Base, RunsOK
      <4>2. QED
        BY <2>1, <3>1, <4>1 DEF SetToken
    <3>2. CASE ~SetToken(m)
      BY <1>2, <3>2 DEF Write, Receive, Store, AddJob, DropReply
    <3>3. QED
      BY <3>1, <3>2
  <2>4. QED
    BY <1>1, <2>1, <2>2, <2>3, OnceOther
<1>3. ASSUME NEW m \in Msg, Work(m) \/ Throw(m)
      PROVE  OnceInv'
  BY <1>1, <1>3, OnceWork
<1>4. CASE (\E m \in Msg : Recover(m)) \/ Crash \/ Boot \/ ExpireToken \/ TakeOver \/ UNCHANGED vars
  <2>1. UNCHANGED <<lastBot, answered, at>>
    BY <1>4 DEF Recover, Crash, Boot, ExpireToken, TakeOver, vars, inVars, botVars
  <2>2. \A n \in Msg : run'[n] = run[n] \/ run'[n].pc = "idle"
    BY <1>4, IdleTyped DEF Recover, Crash, Boot, ExpireToken, TakeOver, vars
  <2>3. \A n \in Msg : Stored(n) => Stored(n)'
    BY <1>4, Typed DEF Recover, Crash, Boot, ExpireToken, TakeOver, vars, inVars, Stored, Base
  <2>4. \A n \in Msg : latest' = n => latest = n
    BY <1>4, AutoReplyAssumption DEF Recover, Crash, Boot, ExpireToken, TakeOver, vars
  <2>5. QED
    BY <1>1, <2>1, <2>2, <2>3, <2>4, OnceOther
<1>5. QED
  BY <1>2, <1>3, <1>4 DEF Next

\* A message gets one answer, whatever is tried again, stops or fails, if a job's delay
\* outlasts the time between another one's last look at the token and its first row
\* (scheduleChatbotAutoReply, maybeSendChatbotAutoReply).
THEOREM OneAnswerEach == Spec => []AnsweredOnce
<1>1. Init => Base /\ (Prompt => OnceInv)
  <2>1. ASSUME Init PROVE OnceInv
    BY <2>1, IdleTyped DEF Init, OnceInv, Alone, Fresh, Older, Dated, Committed, Chosen, At
  <2>2. QED
    BY BaseInit, <2>1
<1>2. Base /\ (Prompt => OnceInv) /\ [Next]_vars => (Base /\ (Prompt => OnceInv))'
  BY BaseStep, OnceStep
<1>3. Base /\ (Prompt => OnceInv) => AnsweredOnce
  BY DEF OnceInv, AnsweredOnce
<1>4. QED
  BY <1>1, <1>2, <1>3, PTL DEF Spec

===============================================================================
