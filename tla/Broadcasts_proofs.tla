-------------------------- MODULE Broadcasts_proofs --------------------------
(***************************************************************************)
(* Theorems about Broadcasts, for any number of requests, sweeps, workers  *)
(* and recipients, and any of the faults.                                  *)
(***************************************************************************)
EXTENDS Broadcasts, FiniteSetTheorems, TLAPS

WorkerState == [pc : Steps, job : Job \union {None}, at : Recipient, ok : 0..N, bad : 0..N + 1]

\* How far a worker is, and what it has counted.
Counted(x) ==
  /\ x.pc \in {"lookup", "clear", "start"} => x.at = 1 /\ x.ok = 0 /\ x.bad = 0
  /\ x.pc = "send" => x.ok < x.at /\ x.bad < x.at
  /\ x.pc = "sent" => x.ok <= x.at /\ x.bad < x.at
  /\ x.pc = "unsent" => x.ok <= x.at /\ x.bad <= x.at

WorkersOK == \A w \in Worker : Counted(wk[w])

\* A job is added once, as the last thing its request or sweep does.
AddedLast == \A j \in Job : job[j] # "none" => by[j] = "done"

HasJob == \A w \in Worker : wk[w].job # None => job[wk[w].job] # "none"

Base == TypeOK /\ WorkersOK /\ AddedLast /\ HasJob

-----------------------------------------------------------------------------
(* Types. *)

LEMMA IdleTyped == IdleWorker \in WorkerState /\ Counted(IdleWorker) /\ IdleWorker.pc = "idle"
BY BroadcastAssumption DEF IdleWorker, WorkerState, Counted, Steps, Recipient

\* One worker moves.
Becomes(w, x) == wk' = [wk EXCEPT ![w] = x]

LEMMA WorkerMoves ==
  ASSUME Base, NEW w \in Worker, NEW x \in WorkerState, Counted(x), Becomes(w, x)
  PROVE  /\ wk' \in [Worker -> WorkerState] /\ WorkersOK'
         /\ wk'[w] = x
         /\ \A v \in Worker : v # w => wk'[v] = wk[v]
<1>1. wk \in [Worker -> WorkerState]
  BY DEF Base, TypeOK, WorkerState
<1>2. /\ wk' \in [Worker -> WorkerState] /\ wk'[w] = x
      /\ \A v \in Worker : v # w => wk'[v] = wk[v]
  BY <1>1 DEF Becomes
<1>3. WorkersOK'
  BY <1>2 DEF WorkersOK, Base
<1>4. QED
  BY <1>2, <1>3

LEMMA GotoMoves ==
  ASSUME Base, NEW w \in Worker, NEW pc \in Steps, Goto(w, pc),
         Counted([wk[w] EXCEPT !.pc = pc])
  PROVE  /\ wk' \in [Worker -> WorkerState] /\ WorkersOK'
         /\ wk'[w] = [wk[w] EXCEPT !.pc = pc]
         /\ \A v \in Worker : v # w => wk'[v] = wk[v]
<1>1. wk \in [Worker -> WorkerState]
  BY DEF Base, TypeOK, WorkerState
<1>2. [wk[w] EXCEPT !.pc = pc] \in WorkerState
  BY <1>1 DEF WorkerState
<1>3. Becomes(w, [wk[w] EXCEPT !.pc = pc])
  BY <1>1 DEF Goto, Becomes
<1>4. QED
  BY <1>2, <1>3, WorkerMoves

LEMMA TypeInit == Init => Base
<1> SUFFICES ASSUME Init
             PROVE  Base
  OBVIOUS
<1>1. N \in Nat \ {0}
  BY BroadcastAssumption
<1>2. /\ wk \in [Worker -> WorkerState] /\ WorkersOK
  BY IdleTyped DEF Init, WorkersOK
<1>3. status \in Statuses /\ scheduled \in Nat /\ due \in BOOLEAN
  <2>1. CASE status = "draft" /\ due = TRUE /\ scheduled = 0
    BY <2>1 DEF Statuses
  <2>2. CASE status = "scheduled" /\ due = FALSE /\ scheduled = 1
    BY <2>2 DEF Statuses
  <2>3. QED
    BY <2>1, <2>2 DEF Init
<1>8. up \subseteq Worker /\ faults \subseteq Faults
  BY DEF Init
<1>7. /\ job \in [Job -> Jobs] /\ stalled \subseteq Job /\ by \in [Job -> Stages]
      /\ passed \in [Recipient -> Nat]
  BY DEF Init, Statuses, Jobs, Stages
<1>4. counts \in [ok : Nat, bad : Nat] /\ logs \in [Recipient -> [sent : Nat, failed : Nat]]
  BY DEF Init, NoCounts
<1>5. AddedLast /\ HasJob
  BY DEF Init, AddedLast, HasJob, IdleWorker
<1>6. QED
  BY <1>2, <1>3, <1>4, <1>5, <1>7, <1>8 DEF Base, TypeOK, WorkerState

\* The steps of a worker, as far as its own record goes.
WorkerStep(w) == Work(w) \/ Reject(w) \/ LogSentFails(w) \/ Throw(w) \/ Crash(w)

Same(w) == \A v \in Worker : v # w => wk'[v] = wk[v]

LEMMA NextRecipient ==
  ASSUME Base, NEW w \in Worker, wk[w].pc \in {"sent", "unsent"}, GoOn(w)
  PROVE  /\ wk' \in [Worker -> WorkerState] /\ WorkersOK' /\ Same(w)
         /\ wk'[w].job = wk[w].job
         /\ wk[w].at = N => wk'[w].pc = "finish"
         /\ wk[w].at # N => wk'[w].pc = "send" /\ wk'[w].at = wk[w].at + 1
<1> DEFINE x == [wk[w] EXCEPT !.pc = IF wk[w].at = N THEN "finish" ELSE "send",
                              !.at = IF @ = N THEN @ ELSE @ + 1]
<1>1. N \in Nat \ {0} /\ wk \in [Worker -> WorkerState] /\ Counted(wk[w])
  BY BroadcastAssumption DEF Base, TypeOK, WorkerState, WorkersOK
<1>2. /\ wk[w].at \in 1..N /\ wk[w].ok \in 0..N /\ wk[w].bad \in 0..N + 1
      /\ wk[w].job \in Job \union {None} /\ wk[w].pc \in Steps
  BY <1>1 DEF WorkerState, Recipient
<1>3. wk[w].ok <= wk[w].at /\ wk[w].bad <= wk[w].at
  BY <1>1, <1>2 DEF Counted
<1>4. /\ x.pc = (IF wk[w].at = N THEN "finish" ELSE "send")
      /\ x.at = (IF wk[w].at = N THEN wk[w].at ELSE wk[w].at + 1)
      /\ x.ok = wk[w].ok /\ x.bad = wk[w].bad /\ x.job = wk[w].job
  BY <1>1 DEF WorkerState
<1>5. x.at \in 1..N /\ x.pc \in Steps
  BY <1>1, <1>2, <1>4 DEF Steps
<1>6. x \in WorkerState
  BY <1>1, <1>5 DEF WorkerState, Recipient
<1>7. Counted(x)
  BY <1>2, <1>3, <1>4 DEF Counted
<1>8. Becomes(w, x)
  BY <1>1 DEF GoOn, Becomes
<1>9. QED
  BY <1>4, <1>6, <1>7, <1>8, WorkerMoves DEF Same

LEMMA Delivers ==
  ASSUME Base, NEW w \in Worker, Deliver(w)
  PROVE  /\ wk' \in [Worker -> WorkerState] /\ WorkersOK' /\ Same(w)
         /\ wk'[w].pc \in {"sent", "unsent"} /\ wk'[w].at = wk[w].at /\ wk'[w].job = wk[w].job
<1> DEFINE x == [wk[w] EXCEPT !.pc = "sent", !.ok = @ + 1]
           y == [wk[w] EXCEPT !.pc = "unsent", !.bad = @ + 1]
<1>1. N \in Nat \ {0} /\ wk \in [Worker -> WorkerState] /\ Counted(wk[w]) /\ wk[w].pc = "send"
  BY BroadcastAssumption DEF Base, TypeOK, WorkerState, WorkersOK, Deliver, At
<1>2. wk[w].at \in 1..N /\ wk[w].ok \in 0..N /\ wk[w].bad \in 0..N + 1
  BY <1>1 DEF WorkerState, Recipient
<1>3. wk[w].ok < wk[w].at /\ wk[w].bad < wk[w].at
  BY <1>1 DEF Counted
<1>4. /\ x.pc = "sent" /\ x.ok = wk[w].ok + 1 /\ x.at = wk[w].at /\ x.bad = wk[w].bad
      /\ y.pc = "unsent" /\ y.ok = wk[w].ok /\ y.at = wk[w].at /\ y.bad = wk[w].bad + 1
      /\ x.job = wk[w].job /\ y.job = wk[w].job
  BY <1>1 DEF WorkerState
<1>5. x.ok \in 0..N /\ y.bad \in 0..N + 1
  BY <1>1, <1>2, <1>3, <1>4
<1>6. x \in WorkerState /\ y \in WorkerState
  BY <1>1, <1>5 DEF WorkerState, Steps
<1>7. Counted(x) /\ Counted(y)
  BY <1>2, <1>3, <1>4 DEF Counted
<1>8. Becomes(w, x) \/ Becomes(w, y)
  BY <1>1 DEF Deliver, Becomes
<1>9. QED
  BY <1>4, <1>6, <1>7, <1>8, WorkerMoves DEF Same

\* The job a worker has after a step was its job, or has been taken.
JobOf(w) ==
  \/ wk'[w].job = wk[w].job \/ wk'[w].job = None
  \/ \E j \in Job : Take(w, j) /\ wk'[w].job = j

\* The steps that go on in the job, or end it.
LEMMA WorkerGoes ==
  ASSUME Base, NEW w \in Worker, WorkerStep(w)
  PROVE  wk' \in [Worker -> WorkerState] /\ WorkersOK' /\ Same(w) /\ JobOf(w)
<1>1. /\ wk \in [Worker -> WorkerState] /\ Counted(wk[w])
  BY DEF Base, TypeOK, WorkerState, WorkersOK
<1>2. ASSUME NEW pc \in Steps, Goto(w, pc),
             \/ pc \in {"fail", "finish"}
             \/ wk[w].pc = "lookup" /\ pc = "clear"
             \/ wk[w].pc = "clear" /\ pc = "start"
             \/ wk[w].pc = "start" /\ pc = "send"
      PROVE  wk' \in [Worker -> WorkerState] /\ WorkersOK' /\ Same(w) /\ JobOf(w)
  <2> DEFINE x == [wk[w] EXCEPT !.pc = pc]
  <2>1. x.pc = pc /\ x.at = wk[w].at /\ x.ok = wk[w].ok /\ x.bad = wk[w].bad /\ x.job = wk[w].job
    BY <1>1 DEF WorkerState
  <2>2. Counted(x)
    BY <1>1, <1>2, <2>1 DEF Counted
  <2>3. QED
    BY <1>2, <2>1, <2>2, GotoMoves DEF Same, JobOf
<1>3. ASSUME wk' = [wk EXCEPT ![w] = IdleWorker]
      PROVE  wk' \in [Worker -> WorkerState] /\ WorkersOK' /\ Same(w) /\ JobOf(w)
  BY <1>3, IdleTyped, WorkerMoves DEF Same, Becomes, JobOf, IdleWorker
<1>4. ASSUME NEW j \in Job, Take(w, j)
      PROVE  wk' \in [Worker -> WorkerState] /\ WorkersOK' /\ Same(w) /\ JobOf(w)
  <2> DEFINE x == [IdleWorker EXCEPT !.pc = "lookup", !.job = j]
  <2>1. x.pc = "lookup" /\ x.at = 1 /\ x.ok = 0 /\ x.bad = 0 /\ x.job = j
    BY DEF IdleWorker
  <2>2. x \in WorkerState
    BY IdleTyped DEF WorkerState, Steps
  <2>3. QED
    BY <1>4, <2>1, <2>2, WorkerMoves DEF Take, Becomes, Counted, Same, JobOf
<1>5. CASE LogSentFails(w)
  <2> DEFINE x == [wk[w] EXCEPT !.pc = "unsent", !.bad = @ + 1]
  <2>1. wk[w].pc = "sent" /\ N \in Nat
    BY <1>5, BroadcastAssumption DEF LogSentFails, At
  <2>2. wk[w].at \in 1..N /\ wk[w].ok <= wk[w].at /\ wk[w].bad < wk[w].at /\ wk[w].bad \in 0..N + 1
    BY <1>1, <2>1 DEF Counted, WorkerState, Recipient
  <2>3. x.pc = "unsent" /\ x.at = wk[w].at /\ x.ok = wk[w].ok /\ x.bad = wk[w].bad + 1 /\ x.job = wk[w].job
    BY <1>1 DEF WorkerState
  <2>4. x.bad \in 0..N + 1 /\ x.bad <= x.at
    BY <2>1, <2>2, <2>3
  <2>5. x \in WorkerState
    BY <1>1, <2>4 DEF WorkerState, Steps
  <2>6. Counted(x)
    BY <2>2, <2>3, <2>4 DEF Counted
  <2>7. Becomes(w, x)
    BY <1>1, <1>5 DEF LogSentFails, Becomes
  <2>8. QED
    BY <2>3, <2>5, <2>6, <2>7, WorkerMoves DEF Same, JobOf
<1>6. CASE Lookup(w) \/ ClearLogs(w) \/ Start(w)
  BY <1>2, <1>6 DEF Lookup, ClearLogs, Start, At, Steps
<1>7. CASE Reject(w) \/ Throw(w)
  BY <1>2, <1>7 DEF Reject, Throw, Steps
<1>8. CASE Finish(w) \/ Fail(w) \/ Crash(w)
  BY <1>3, <1>8 DEF Finish, Fail, Crash, End
<1>9. CASE LogSent(w) \/ LogFailed(w)
  BY <1>9, NextRecipient DEF LogSent, LogFailed, At, JobOf
<1>10. QED
  BY <1>4, <1>5, <1>6, <1>7, <1>8, <1>9, Delivers DEF WorkerStep, Work, JobOf

\* No worker adds a job.
LEMMA WorkerJobs ==
  ASSUME Base, NEW w \in Worker, WorkerStep(w)
  PROVE  /\ job' \in [Job -> Jobs]
         /\ \A j \in Job : /\ job'[j] # "none" <=> job[j] # "none"
                           /\ job'[j] = "waiting" => job[j] = "waiting"
<1> DEFINE Kept == /\ job' \in [Job -> Jobs]
                   /\ \A j \in Job : /\ job'[j] # "none" <=> job[j] # "none"
                                     /\ job'[j] = "waiting" => job[j] = "waiting"
<1>1. job \in [Job -> Jobs] /\ \A j \in Job : j = wk[w].job => job[j] # "none"
  BY BroadcastAssumption DEF Base, TypeOK, HasJob, Job
<1>2. ASSUME NEW i \in Job, Take(w, i)
      PROVE  Kept
  BY <1>1, <1>2 DEF Take, Jobs
<1>3. CASE Crash(w)
  <2>1. job' = [j \in Job |-> IF j = wk[w].job THEN "orphan" ELSE job[j]]
    BY <1>3 DEF Crash
  <2>2. QED
    BY <1>1, <2>1 DEF Jobs
<1>4. CASE Finish(w) \/ Fail(w)
  <2>1. job' = [job EXCEPT ![wk[w].job] = "ended"]
    BY <1>4 DEF Finish, Fail, End
  <2>2. QED
    BY <1>1, <2>1 DEF Jobs
<1>5. CASE Lookup(w) \/ ClearLogs(w) \/ Start(w) \/ Deliver(w) \/ LogSent(w) \/ LogFailed(w)
           \/ Reject(w) \/ LogSentFails(w) \/ Throw(w)
  BY <1>1, <1>5 DEF Lookup, ClearLogs, Start, Deliver, LogSent, LogFailed, Reject, LogSentFails,
                    Throw, jobVars
<1>6. QED
  BY <1>2, <1>3, <1>4, <1>5 DEF WorkerStep, Work

\* What a step of a worker does to the rest.
LEMMA WorkerTypes ==
  ASSUME Base, NEW w \in Worker, WorkerStep(w)
  PROVE  Base'
<1>1. wk' \in [Worker -> WorkerState] /\ WorkersOK' /\ Same(w) /\ JobOf(w)
  BY WorkerGoes
<1>2. UNCHANGED <<due, scheduled, by, stalled>>
  BY DEF WorkerStep, Work, Take, Lookup, ClearLogs, Start, Deliver, LogSent, LogFailed, Finish,
         Fail, Reject, LogSentFails, Throw, Crash, rowVars, jobVars
<1>3. status' \in Statuses /\ counts' \in [ok : Nat, bad : Nat]
  <2>1. N \in Nat /\ wk[w].ok \in 0..N /\ wk[w].bad \in 0..N + 1
    BY BroadcastAssumption DEF Base, TypeOK
  <2>2. CASE Finish(w)
    BY <2>1, <2>2 DEF Finish, Statuses
  <2>3. CASE Start(w)
    BY <2>3 DEF Start, Statuses, NoCounts
  <2>4. CASE Fail(w) \/ Reject(w)
    BY <2>4 DEF Fail, Reject, Base, TypeOK, rowVars, Statuses
  <2>5. CASE ~(Finish(w) \/ Start(w) \/ Fail(w) \/ Reject(w))
    <3>1. UNCHANGED <<status, counts>>
      BY <2>5 DEF WorkerStep, Work, Take, Lookup, ClearLogs, Deliver, LogSent, LogFailed,
                  LogSentFails, Throw, Crash, rowVars
    <3>2. QED
      BY <3>1 DEF Base, TypeOK
  <2>6. QED
    BY <2>2, <2>3, <2>4, <2>5
<1>4. logs' \in [Recipient -> [sent : Nat, failed : Nat]] /\ passed' \in [Recipient -> Nat]
  <2>1. /\ logs \in [Recipient -> [sent : Nat, failed : Nat]] /\ passed \in [Recipient -> Nat]
        /\ wk[w].at \in Recipient
    BY DEF Base, TypeOK
  <2>2. CASE ClearLogs(w)
    BY <2>1, <2>2 DEF ClearLogs
  <2>3. CASE LogSent(w)
    BY <2>1, <2>3 DEF LogSent
  <2>4. CASE LogFailed(w)
    BY <2>1, <2>4 DEF LogFailed
  <2>5. CASE Deliver(w)
    BY <2>1, <2>5 DEF Deliver
  <2>6. CASE ~(ClearLogs(w) \/ LogSent(w) \/ LogFailed(w) \/ Deliver(w))
    BY <2>1, <2>6 DEF WorkerStep, Work, Take, Lookup, Start, Finish, Fail, Reject, LogSentFails,
                      Throw, Crash
  <2>7. QED
    BY <2>2, <2>3, <2>4, <2>5, <2>6
<1>5. job' \in [Job -> Jobs] /\ \A j \in Job : job'[j] # "none" <=> job[j] # "none"
  BY WorkerJobs
<1>6. up' \subseteq Worker /\ faults' \subseteq Faults
  BY DEF WorkerStep, Work, Take, Lookup, ClearLogs, Start, Deliver, LogSent, LogFailed, Finish,
         Fail, Reject, LogSentFails, Throw, Crash, Fault, Base, TypeOK
<1>7. AddedLast'
  BY <1>2, <1>5 DEF Base, AddedLast
<1>8. HasJob'
  <2>1. ASSUME NEW v \in Worker, wk'[v].job # None
        PROVE  job'[wk'[v].job] # "none"
    <3>1. wk[v].job \in Job \union {None}
      BY DEF Base, TypeOK
    <3>2. CASE wk'[v].job = wk[v].job
      BY <1>5, <2>1, <3>1, <3>2 DEF Base, HasJob
    <3>3. CASE v = w /\ \E j \in Job : Take(w, j) /\ wk'[w].job = j
      BY <1>5, <3>3 DEF Take, Base, TypeOK
    <3>4. QED
      BY <1>1, <2>1, <3>2, <3>3 DEF Same, JobOf
  <2>2. QED
    BY <2>1 DEF HasJob
<1>9. QED
  BY <1>1, <1>2, <1>3, <1>4, <1>5, <1>6, <1>7, <1>8 DEF Base, TypeOK, WorkerState

\* The other steps leave the workers as they are.
OtherStep ==
  \/ TimePasses
  \/ \E t \in Send : Request(t)
  \/ \E d \in Sweep : Dispatch(d)
  \/ \E j \in Job : AddJob(j) \/ Stop(j) \/ Recover(j)
  \/ \E w \in Worker : Boot(w)

LEMMA NextCases ==
  ASSUME Next
  PROVE  OtherStep \/ \E w \in Worker : WorkerStep(w)
BY DEF Next, OtherStep, WorkerStep

LEMMA RequestTypes ==
  ASSUME Base, NEW j \in Job, (j \in Send /\ Request(j)) \/ (j \in Sweep /\ Dispatch(j))
  PROVE  /\ by' \in [Job -> Stages] /\ status' \in Statuses /\ scheduled' \in Nat
         /\ counts' \in [ok : Nat, bad : Nat]
         /\ by[j] # "done" /\ (\A i \in Job : i # j => by'[i] = by[i])
         /\ UNCHANGED <<due, logs, passed, jobVars, wk, up, faults>>
<1>1. /\ by \in [Job -> Stages] /\ status \in Statuses /\ scheduled \in Nat
      /\ counts \in [ok : Nat, bad : Nat]
  BY DEF Base, TypeOK
<1>2. CASE SendRead(j)
  BY <1>1, <1>2 DEF SendRead, Stages, rowVars
<1>3. CASE SendSchedule(j)
  BY <1>1, <1>3 DEF SendSchedule, Stages, Statuses
<1>4. CASE SendReserve(j)
  BY <1>1, <1>4 DEF SendReserve, Stages, Statuses, NoCounts
<1>5. CASE SweepRead(j)
  BY <1>1, <1>5 DEF SweepRead, Stages, rowVars
<1>6. CASE SweepClaim(j)
  BY <1>1, <1>6 DEF SweepClaim, Stages, Statuses
<1>7. QED
  BY <1>2, <1>3, <1>4, <1>5, <1>6 DEF Request, Dispatch

LEMMA OtherTypes ==
  ASSUME Base, OtherStep
  PROVE  Base'
<1>1. /\ by \in [Job -> Stages] /\ job \in [Job -> Jobs] /\ stalled \subseteq Job
  BY DEF Base, TypeOK
<1>2. CASE TimePasses
  BY <1>2 DEF TimePasses, Base, TypeOK, WorkersOK, AddedLast, HasJob, rowVars, jobVars
<1>3. CASE \E w \in Worker : Boot(w)
  BY <1>3 DEF Boot, Base, TypeOK, WorkersOK, AddedLast, HasJob, rowVars, jobVars
<1>4. ASSUME NEW j \in Job, (j \in Send /\ Request(j)) \/ (j \in Sweep /\ Dispatch(j))
      PROVE  Base'
  <2>1. UNCHANGED <<due, logs, passed, job, stalled, wk, up, faults>>
    BY <1>4, RequestTypes DEF jobVars
  <2>2. AddedLast'
    BY <1>4, <2>1, RequestTypes DEF Base, AddedLast
  <2>3. TypeOK'
    BY <1>4, <2>1, RequestTypes DEF Base, TypeOK
  <2>4. QED
    BY <2>1, <2>2, <2>3 DEF Base, WorkersOK, HasJob
<1>5. ASSUME NEW j \in Job, AddJob(j)
      PROVE  Base'
  <2>1. /\ by' \in [Job -> Stages] /\ job' \in [Job -> Jobs]
        /\ by'[j] = "done" /\ job'[j] # "none"
        /\ \A i \in Job : i # j => job'[i] = job[i] /\ by'[i] = by[i]
    BY <1>1, <1>5 DEF AddJob, Stages, Jobs
  <2>2. \A w \in Worker : wk[w].job \in Job \union {None}
    BY DEF Base, TypeOK
  <2>3. AddedLast' /\ HasJob'
    BY <1>5, <2>1, <2>2 DEF AddJob, Base, AddedLast, HasJob
  <2>4. QED
    BY <1>5, <2>1, <2>3 DEF AddJob, Base, TypeOK, WorkersOK, rowVars
<1>6. ASSUME NEW j \in Job, Stop(j)
      PROVE  Base'
  <2>1. /\ by' \in [Job -> Stages] /\ by'[j] = "done"
        /\ \A i \in Job : i # j => by'[i] = by[i]
    BY <1>1, <1>6 DEF Stop, Stages
  <2>2. faults' \subseteq Faults
    BY <1>6 DEF Stop, Fault, Base, TypeOK
  <2>3. QED
    BY <1>6, <2>1, <2>2 DEF Stop, Base, TypeOK, WorkersOK, AddedLast, HasJob, rowVars, jobVars
<1>7. ASSUME NEW j \in Job, Recover(j)
      PROVE  Base'
  <2>1. /\ job' \in [Job -> Jobs] /\ stalled' \subseteq Job
        /\ job[j] # "none" /\ job'[j] # "none"
        /\ \A i \in Job : i # j => job'[i] = job[i]
    BY <1>1, <1>7 DEF Recover, Jobs
  <2>2. \A w \in Worker : wk[w].job \in Job \union {None}
    BY DEF Base, TypeOK
  <2>3. AddedLast' /\ HasJob'
    BY <1>7, <2>1, <2>2 DEF Recover, Base, AddedLast, HasJob
  <2>4. QED
    BY <1>7, <2>1, <2>3 DEF Recover, Base, TypeOK, WorkersOK, rowVars
<1>8. QED
  BY <1>2, <1>3, <1>4, <1>5, <1>6, <1>7 DEF OtherStep, Job

LEMMA BaseStep == Base /\ [Next]_vars => Base'
<1>1. ASSUME Base, UNCHANGED vars
      PROVE  Base'
  BY <1>1 DEF Base, TypeOK, WorkersOK, AddedLast, HasJob, vars, rowVars, jobVars
<1>2. QED
  BY <1>1, NextCases, OtherTypes, WorkerTypes

\* Every variable has its type: a worker counts no recipient twice
\* (processBroadcastJob).
THEOREM BroadcastTypeCorrect == Spec => []TypeOK
<1>1. Base => TypeOK
  BY DEF Base
<1>2. QED
  BY TypeInit, BaseStep, <1>1, PTL DEF Spec

-----------------------------------------------------------------------------
(* Once per request and per worker lost. *)

Added  == {j \in Job : job[j] # "none"}
Queued == {j \in Job : job[j] = "waiting"}

\* A worker is still to pass the message to a recipient.
StillTo(w, r) ==
  \/ wk[w].pc \in {"lookup", "clear", "start"}
  \/ wk[w].pc = "send" /\ wk[w].at <= r
  \/ wk[w].pc \in {"sent", "unsent"} /\ wk[w].at < r
ToDo(r) == {w \in Worker : StillTo(w, r)}

\* What has been passed to a recipient, and what is still to be passed, is paid for by
\* the jobs added and the workers lost.
Account ==
  \A r \in Recipient :
    passed[r] + Cardinality(ToDo(r)) + Cardinality(Queued)
      <= Cardinality(Added) + Cardinality(stalled)

\* A schedule is taken by one sweep.
Taken == {d \in Sweep : by[d] = "add" \/ job[d] # "none"}
TakenOnce == Cardinality(Taken) + (IF status = "scheduled" THEN 1 ELSE 0) <= scheduled

LEMMA Finite ==
  ASSUME NEW r \in Recipient, stalled \subseteq Job
  PROVE  /\ IsFiniteSet(Job)
         /\ IsFiniteSet(ToDo(r)) /\ Cardinality(ToDo(r)) \in Nat
         /\ IsFiniteSet(Queued) /\ Cardinality(Queued) \in Nat
         /\ IsFiniteSet(Added) /\ Cardinality(Added) \in Nat
         /\ IsFiniteSet(stalled) /\ Cardinality(stalled) \in Nat
         /\ IsFiniteSet(Taken) /\ Cardinality(Taken) \in Nat
<1>1. IsFiniteSet(Job) /\ IsFiniteSet(Sweep) /\ IsFiniteSet(Worker)
  BY BroadcastAssumption, FS_Union DEF Job
<1>2. /\ ToDo(r) \in SUBSET Worker /\ Queued \in SUBSET Job /\ Added \in SUBSET Job
      /\ stalled \in SUBSET Job /\ Taken \in SUBSET Sweep
  BY DEF ToDo, Queued, Added, Taken
<1>3. IsFiniteSet(ToDo(r)) /\ IsFiniteSet(Queued) /\ IsFiniteSet(Added) /\ IsFiniteSet(stalled)
      /\ IsFiniteSet(Taken)
  BY <1>1, <1>2, FS_Subset
<1>4. QED
  BY <1>1, <1>3, FS_CardinalityType

LEMMA Fewer ==
  ASSUME NEW S, NEW T, IsFiniteSet(T), S \subseteq T
  PROVE  Cardinality(S) <= Cardinality(T)
BY FS_Subset

LEMMA AccountInit == Init => Account /\ TakenOnce
<1> SUFFICES ASSUME Init
             PROVE  Account /\ TakenOnce
  OBVIOUS
<1>1. Queued = {} /\ Added = {} /\ stalled = {} /\ Taken = {}
  BY DEF Init, Queued, Added, Taken, Stages, Job
<1>2. \A r \in Recipient : ToDo(r) = {} /\ passed[r] = 0
  BY DEF Init, ToDo, StillTo, IdleWorker
<1>3. Account
  BY <1>1, <1>2, FS_EmptySet DEF Account
<1>4. TakenOnce
  BY <1>1, FS_EmptySet DEF Init, TakenOnce
<1>5. QED
  BY <1>3, <1>4

\* Nothing is passed or added, and no more is to be passed.
LEMMA AccountQuiet ==
  ASSUME Base, Base', Account, UNCHANGED passed,
         \A w \in Worker, r \in Recipient : StillTo(w, r)' => StillTo(w, r),
         \A j \in Job : job'[j] = "waiting" => job[j] = "waiting",
         \A j \in Job : job'[j] = "none" => job[j] = "none",
         UNCHANGED stalled
  PROVE  Account'
<1> SUFFICES ASSUME NEW r \in Recipient
             PROVE  (passed[r] + Cardinality(ToDo(r)) + Cardinality(Queued)
                       <= Cardinality(Added) + Cardinality(stalled))'
  BY DEF Account
<1>1. stalled \subseteq Job /\ stalled' \subseteq Job /\ passed[r] \in Nat
  BY DEF Base, TypeOK
<1>2. ToDo(r)' \subseteq ToDo(r) /\ Queued' \subseteq Queued /\ Added \subseteq Added'
  BY DEF ToDo, Queued, Added
<1>3. /\ Cardinality(ToDo(r)') <= Cardinality(ToDo(r)) /\ Cardinality(ToDo(r)') \in Nat
      /\ Cardinality(Queued') <= Cardinality(Queued) /\ Cardinality(Queued') \in Nat
      /\ Cardinality(Added) <= Cardinality(Added') /\ Cardinality(Added') \in Nat
  <2>1. /\ IsFiniteSet(ToDo(r)') /\ Cardinality(ToDo(r)') \in Nat
        /\ IsFiniteSet(Queued') /\ Cardinality(Queued') \in Nat
        /\ IsFiniteSet(Added') /\ Cardinality(Added') \in Nat
    <3>1. IsFiniteSet(ToDo(r)) /\ IsFiniteSet(Queued) /\ IsFiniteSet(Job)
      BY <1>1, Finite
    <3>2. Added' \subseteq Job
      BY DEF Added
    <3>3. QED
      BY <1>2, <3>1, <3>2, FS_Subset, FS_CardinalityType
  <2>2. QED
    BY <1>1, <1>2, <2>1, Finite, Fewer
<1>4. /\ Cardinality(ToDo(r)) \in Nat /\ Cardinality(Queued) \in Nat /\ Cardinality(Added) \in Nat
      /\ Cardinality(stalled) \in Nat
  BY <1>1, Finite
<1>5. passed[r] + Cardinality(ToDo(r)) + Cardinality(Queued) <= Cardinality(Added) + Cardinality(stalled)
  BY DEF Account
<1>6. passed[r] + Cardinality(ToDo(r)') + Cardinality(Queued') <= Cardinality(Added') + Cardinality(stalled)
  BY <1>1, <1>3, <1>4, <1>5
<1>7. QED
  BY <1>6

\* A job is added: it pays for its first run.
LEMMA AccountAdds ==
  ASSUME Base, Base', Account, NEW j \in Job, AddJob(j)
  PROVE  Account'
<1> SUFFICES ASSUME NEW r \in Recipient
             PROVE  (passed[r] + Cardinality(ToDo(r)) + Cardinality(Queued)
                       <= Cardinality(Added) + Cardinality(stalled))'
  BY DEF Account
<1>1. /\ stalled \subseteq Job /\ passed[r] \in Nat /\ job \in [Job -> Jobs]
      /\ UNCHANGED <<stalled, passed, wk>> /\ job' = [job EXCEPT ![j] = "waiting"]
  BY DEF Base, TypeOK, AddJob
<1>2. job[j] = "none"
  BY DEF Base, AddedLast, AddJob
<1>3. ToDo(r)' = ToDo(r) /\ Queued' = Queued \union {j} /\ Added' = Added \union {j}
  BY <1>1 DEF ToDo, StillTo, Queued, Added
<1>4. j \notin Queued /\ j \notin Added
  BY <1>2 DEF Queued, Added
<1>5. /\ IsFiniteSet(Queued) /\ IsFiniteSet(Added)
      /\ Cardinality(ToDo(r)) \in Nat /\ Cardinality(Queued) \in Nat /\ Cardinality(Added) \in Nat
      /\ Cardinality(stalled) \in Nat
  BY <1>1, Finite
<1>6. Cardinality(Queued') = Cardinality(Queued) + 1 /\ Cardinality(Added') = Cardinality(Added) + 1
  BY <1>3, <1>4, <1>5, FS_AddElement
<1>7. passed[r] + Cardinality(ToDo(r)) + Cardinality(Queued) <= Cardinality(Added) + Cardinality(stalled)
  BY DEF Account
<1>8. passed[r] + Cardinality(ToDo(r)) + Cardinality(Queued') <= Cardinality(Added') + Cardinality(stalled)
  BY <1>1, <1>5, <1>6, <1>7
<1>9. QED
  BY <1>1, <1>3, <1>8

\* A job that is taken has its run before it.
LEMMA AccountTakes ==
  ASSUME Base, Base', Account, NEW w \in Worker, NEW j \in Job, Take(w, j)
  PROVE  Account'
<1> SUFFICES ASSUME NEW r \in Recipient
             PROVE  (passed[r] + Cardinality(ToDo(r)) + Cardinality(Queued)
                       <= Cardinality(Added) + Cardinality(stalled))'
  BY DEF Account
<1>1. /\ stalled \subseteq Job /\ passed[r] \in Nat /\ job \in [Job -> Jobs]
      /\ UNCHANGED <<stalled, passed>> /\ job' = [job EXCEPT ![j] = "active"] /\ job[j] = "waiting"
  BY DEF Base, TypeOK, Take
<1>2. Same(w)
  BY WorkerGoes DEF WorkerStep, Work
<1>3. /\ ToDo(r)' \subseteq ToDo(r) \union {w} /\ Queued' = Queued \ {j} /\ Added' = Added
      /\ j \in Queued
  BY <1>1, <1>2 DEF ToDo, StillTo, Queued, Added, Same
<1>4. /\ IsFiniteSet(ToDo(r)) /\ IsFiniteSet(Queued) /\ IsFiniteSet(Added)
      /\ Cardinality(ToDo(r)) \in Nat /\ Cardinality(Queued) \in Nat /\ Cardinality(Added) \in Nat
      /\ Cardinality(stalled) \in Nat
  BY <1>1, Finite
<1>5. Cardinality(Queued') = Cardinality(Queued) - 1
  BY <1>3, <1>4, FS_RemoveElement
<1>6. Cardinality(ToDo(r)') <= Cardinality(ToDo(r)) + 1 /\ Cardinality(ToDo(r)') \in Nat
  <2>1. /\ IsFiniteSet(ToDo(r) \union {w})
        /\ Cardinality(ToDo(r) \union {w}) <= Cardinality(ToDo(r)) + 1
        /\ Cardinality(ToDo(r) \union {w}) \in Nat
    <3>1. /\ IsFiniteSet(ToDo(r) \union {w})
          /\ Cardinality(ToDo(r) \union {w}) =
               IF w \in ToDo(r) THEN Cardinality(ToDo(r)) ELSE Cardinality(ToDo(r)) + 1
      BY <1>4, FS_AddElement
    <3>2. QED
      BY <1>4, <3>1
  <2>2. IsFiniteSet(ToDo(r)') /\ Cardinality(ToDo(r)') <= Cardinality(ToDo(r) \union {w})
    BY <1>3, <2>1, FS_Subset
  <2>3. Cardinality(ToDo(r)') \in Nat
    BY <2>2, FS_CardinalityType
  <2>4. QED
    BY <1>4, <2>1, <2>2, <2>3
<1>7. passed[r] + Cardinality(ToDo(r)) + Cardinality(Queued) <= Cardinality(Added) + Cardinality(stalled)
  BY DEF Account
<1>8. passed[r] + Cardinality(ToDo(r)') + Cardinality(Queued') <= Cardinality(Added) + Cardinality(stalled)
  BY <1>1, <1>4, <1>5, <1>6, <1>7
<1>9. QED
  BY <1>1, <1>3, <1>8

\* A recipient that is passed the message is no more to get it.
LEMMA AccountDelivers ==
  ASSUME Base, Base', Account, NEW w \in Worker, Deliver(w)
  PROVE  Account'
<1> SUFFICES ASSUME NEW r \in Recipient
             PROVE  (passed[r] + Cardinality(ToDo(r)) + Cardinality(Queued)
                       <= Cardinality(Added) + Cardinality(stalled))'
  BY DEF Account
<1>1. /\ stalled \subseteq Job /\ passed \in [Recipient -> Nat]
      /\ UNCHANGED <<stalled, job>> /\ wk[w].pc = "send" /\ wk[w].at \in Recipient
  BY DEF Base, TypeOK, Deliver, jobVars, At
<1>9. r \in Int /\ wk[w].at \in Int
  BY <1>1, BroadcastAssumption DEF Recipient
<1>2. Same(w) /\ wk'[w].pc \in {"sent", "unsent"} /\ wk'[w].at = wk[w].at
  BY Delivers
<1>3. Queued' = Queued /\ Added' = Added
  BY <1>1 DEF Queued, Added
<1>4. /\ IsFiniteSet(ToDo(r))
      /\ Cardinality(ToDo(r)) \in Nat /\ Cardinality(Queued) \in Nat /\ Cardinality(Added) \in Nat
      /\ Cardinality(stalled) \in Nat
  BY <1>1, Finite
<1>5. passed[r] + Cardinality(ToDo(r)) + Cardinality(Queued) <= Cardinality(Added) + Cardinality(stalled)
  BY DEF Account
<1>6. CASE r = wk[w].at
  <2>1. ToDo(r)' = ToDo(r) \ {w} /\ w \in ToDo(r)
    BY <1>1, <1>2, <1>6, <1>9 DEF ToDo, StillTo, Same
  <2>2. Cardinality(ToDo(r)') = Cardinality(ToDo(r)) - 1
    BY <1>4, <2>1, FS_RemoveElement
  <2>3. passed'[r] \in Nat /\ passed'[r] <= passed[r] + 1
    BY <1>1, <1>6 DEF Deliver
  <2>4. passed'[r] + Cardinality(ToDo(r)') + Cardinality(Queued) <= Cardinality(Added) + Cardinality(stalled)
    BY <1>1, <1>4, <1>5, <2>2, <2>3
  <2>5. QED
    BY <1>1, <1>3, <2>4
<1>7. CASE r # wk[w].at
  <2>1. ToDo(r)' = ToDo(r)
    BY <1>1, <1>2, <1>7, <1>9 DEF ToDo, StillTo, Same
  <2>2. passed'[r] = passed[r]
    BY <1>1, <1>7 DEF Deliver
  <2>3. QED
    BY <1>1, <1>3, <1>5, <2>1, <2>2
<1>8. QED
  BY <1>6, <1>7

\* A job whose worker was lost is paid for once more, or ends.
LEMMA AccountRecovers ==
  ASSUME Base, Base', Account, NEW j \in Job, Recover(j)
  PROVE  Account'
<1> SUFFICES ASSUME NEW r \in Recipient
             PROVE  (passed[r] + Cardinality(ToDo(r)) + Cardinality(Queued)
                       <= Cardinality(Added) + Cardinality(stalled))'
  BY DEF Account
<1>1. /\ stalled \subseteq Job /\ passed[r] \in Nat /\ job \in [Job -> Jobs]
      /\ UNCHANGED <<passed, wk>> /\ stalled' = stalled \union {j} /\ job[j] = "orphan"
      /\ job' = [job EXCEPT ![j] = IF j \in stalled THEN "ended" ELSE "waiting"]
  BY DEF Base, TypeOK, Recover
<1>2. ToDo(r)' = ToDo(r) /\ Added' = Added /\ j \notin Queued
  BY <1>1 DEF ToDo, StillTo, Queued, Added
<1>3. /\ IsFiniteSet(Queued) /\ IsFiniteSet(stalled)
      /\ Cardinality(ToDo(r)) \in Nat /\ Cardinality(Queued) \in Nat /\ Cardinality(Added) \in Nat
      /\ Cardinality(stalled) \in Nat
  BY <1>1, Finite
<1>4. passed[r] + Cardinality(ToDo(r)) + Cardinality(Queued) <= Cardinality(Added) + Cardinality(stalled)
  BY DEF Account
<1>5. CASE j \in stalled
  <2>1. stalled' = stalled /\ Queued' = Queued
    BY <1>1, <1>5 DEF Queued
  <2>2. QED
    BY <1>1, <1>2, <1>4, <2>1
<1>6. CASE j \notin stalled
  <2>1. Queued' = Queued \union {j}
    BY <1>1, <1>6 DEF Queued
  <2>2. /\ Cardinality(Queued') = Cardinality(Queued) + 1
        /\ Cardinality(stalled') = Cardinality(stalled) + 1
    BY <1>1, <1>2, <1>3, <1>6, <2>1, FS_AddElement
  <2>3. passed[r] + Cardinality(ToDo(r)) + Cardinality(Queued') <= Cardinality(Added) + Cardinality(stalled')
    BY <1>1, <1>3, <1>4, <2>2
  <2>4. QED
    BY <1>1, <1>2, <2>3
<1>7. QED
  BY <1>5, <1>6

\* Who neither takes a job nor passes a message has no more to pass than before.
LEMMA StillLess ==
  ASSUME Base, NEW w \in Worker, WorkerStep(w), ~Deliver(w), \A j \in Job : ~Take(w, j)
  PROVE  \A v \in Worker, r \in Recipient : StillTo(v, r)' => StillTo(v, r)
<1>1. /\ wk \in [Worker -> WorkerState] /\ Same(w) /\ N \in Nat
      /\ wk[w].at \in Int /\ \A r \in Recipient : r \in Int /\ r <= N
  <2>1. wk \in [Worker -> WorkerState] /\ Same(w) /\ N \in Nat
    BY WorkerGoes, BroadcastAssumption DEF Base, TypeOK, WorkerState
  <2>2. wk[w].at \in 1..N
    BY <2>1 DEF WorkerState, Recipient
  <2>3. QED
    BY <2>1, <2>2 DEF Recipient
<1>2. SUFFICES \A r \in Recipient : StillTo(w, r)' => StillTo(w, r)
  BY <1>1 DEF Same, StillTo
<1>3. CASE LogSent(w) \/ LogFailed(w)
  <2>1. wk[w].pc \in {"sent", "unsent"} /\ GoOn(w)
    BY <1>3 DEF LogSent, LogFailed, At
  <2>2. /\ wk[w].at = N => wk'[w].pc = "finish"
        /\ wk[w].at # N => wk'[w].pc = "send" /\ wk'[w].at = wk[w].at + 1
    BY <2>1, NextRecipient
  <2>3. QED
    BY <1>1, <2>1, <2>2 DEF StillTo
<1>4. CASE Lookup(w) \/ ClearLogs(w) \/ Start(w)
  BY <1>4 DEF Lookup, ClearLogs, Start, At, StillTo
<1>5. CASE Reject(w) \/ Throw(w)
  <2>1. wk' = [wk EXCEPT ![w].pc = "fail"]
    BY <1>5 DEF Reject, Throw, Goto
  <2>2. wk'[w].pc = "fail"
    BY <1>1, <2>1 DEF WorkerState
  <2>3. QED
    BY <2>2 DEF StillTo
<1>6. CASE LogSentFails(w)
  <2>1. /\ wk[w].pc = "sent" /\ wk' = [wk EXCEPT ![w].pc = "unsent", ![w].bad = @ + 1]
    BY <1>6 DEF LogSentFails, At
  <2>2. wk'[w].pc = "unsent" /\ wk'[w].at = wk[w].at
    BY <1>1, <2>1 DEF WorkerState
  <2>3. QED
    BY <2>1, <2>2 DEF StillTo
<1>7. CASE Finish(w) \/ Fail(w) \/ Crash(w)
  <2>1. wk' = [wk EXCEPT ![w] = IdleWorker]
    BY <1>7 DEF Finish, Fail, Crash, End
  <2>2. wk'[w].pc = "idle"
    BY <1>1, <2>1, IdleTyped
  <2>3. QED
    BY <2>2 DEF StillTo
<1>8. QED
  BY <1>3, <1>4, <1>5, <1>6, <1>7 DEF WorkerStep, Work

LEMMA AccountStep ==
  ASSUME Base, Account, Next
  PROVE  Account'
<1>1. Base'
  BY BaseStep
<1>2. ASSUME NEW w \in Worker, WorkerStep(w)
      PROVE  Account'
  <2>1. CASE Deliver(w)
    BY <1>1, <2>1, AccountDelivers
  <2>2. CASE \E j \in Job : Take(w, j)
    BY <1>1, <2>2, AccountTakes
  <2>3. CASE ~Deliver(w) /\ \A j \in Job : ~Take(w, j)
    <3>1. UNCHANGED <<passed, stalled>>
      BY <1>2, <2>3 DEF WorkerStep, Work, Lookup, ClearLogs, Start, LogSent, LogFailed, Finish,
             Fail, Reject, LogSentFails, Throw, Crash, rowVars, jobVars
    <3>2. \A v \in Worker, r \in Recipient : StillTo(v, r)' => StillTo(v, r)
      BY <1>2, <2>3, StillLess
    <3>3. \A j \in Job : /\ job'[j] = "waiting" => job[j] = "waiting"
                         /\ job'[j] = "none" => job[j] = "none"
      BY <1>2, WorkerJobs
    <3>4. QED
      BY <1>1, <3>1, <3>2, <3>3, AccountQuiet
  <2>4. QED
    BY <2>1, <2>2, <2>3
<1>3. CASE OtherStep
  <2>1. ASSUME NEW j \in Job, AddJob(j)
        PROVE  Account'
    BY <1>1, <2>1, AccountAdds
  <2>2. ASSUME NEW j \in Job, Recover(j)
        PROVE  Account'
    BY <1>1, <2>2, AccountRecovers
  <2>3. CASE UNCHANGED <<passed, job, stalled, wk>>
    <3>1. \A v \in Worker, r \in Recipient : StillTo(v, r)' => StillTo(v, r)
      BY <2>3 DEF StillTo
    <3>2. QED
      BY <1>1, <2>3, <3>1, AccountQuiet
  <2>4. ASSUME NEW j \in Job, (j \in Send /\ Request(j)) \/ (j \in Sweep /\ Dispatch(j))
        PROVE  UNCHANGED <<passed, job, stalled, wk>>
    BY <2>4, RequestTypes DEF jobVars
  <2>5. ASSUME TimePasses \/ (\E j \in Job : Stop(j)) \/ (\E w \in Worker : Boot(w))
        PROVE  UNCHANGED <<passed, job, stalled, wk>>
    BY <2>5 DEF TimePasses, Stop, Boot, jobVars
  <2>6. QED
    BY <1>3, <2>1, <2>2, <2>3, <2>4, <2>5 DEF OtherStep, Job
<1>4. QED
  BY <1>2, <1>3, NextCases

LEMMA TakenQuiet ==
  ASSUME Base, Base', TakenOnce, Taken' \subseteq Taken, scheduled' = scheduled,
         status' = "scheduled" => status = "scheduled"
  PROVE  TakenOnce'
<1>1. /\ IsFiniteSet(Taken) /\ Cardinality(Taken) \in Nat /\ scheduled \in Nat
  <2>1. 1 \in Recipient /\ stalled \subseteq Job
    BY BroadcastAssumption DEF Recipient, Base, TypeOK
  <2>2. QED
    BY <2>1, Finite DEF Base, TypeOK
<1>2. Cardinality(Taken') <= Cardinality(Taken) /\ Cardinality(Taken') \in Nat
  BY <1>1, FS_Subset, FS_CardinalityType
<1>3. QED
  BY <1>1, <1>2 DEF TakenOnce

LEMMA TakenStep ==
  ASSUME Base, TakenOnce, Next
  PROVE  TakenOnce'
<1>1. Base'
  BY BaseStep
<1>2. /\ by \in [Job -> Stages] /\ job \in [Job -> Jobs] /\ scheduled \in Nat
      /\ Sweep \subseteq Job /\ Send \intersect Sweep = {}
      /\ IsFiniteSet(Taken) /\ Cardinality(Taken) \in Nat
  <2>1. 1 \in Recipient /\ stalled \subseteq Job
    BY BroadcastAssumption DEF Recipient, Base, TypeOK
  <2>2. QED
    BY <2>1, Finite, BroadcastAssumption DEF Base, TypeOK, Job
<1>3. ASSUME NEW w \in Worker, WorkerStep(w)
      PROVE  TakenOnce'
  <2>1. /\ UNCHANGED <<by, scheduled>> /\ (status' = "scheduled" => status = "scheduled")
    BY <1>3 DEF WorkerStep, Work, Take, Lookup, ClearLogs, Start, Deliver, LogSent, LogFailed,
           Finish, Fail, Reject, LogSentFails, Throw, Crash, rowVars
  <2>2. Taken' \subseteq Taken
    BY <1>2, <1>3, <2>1, WorkerJobs DEF Taken
  <2>3. QED
    BY <1>1, <2>1, <2>2, TakenQuiet
<1>4. ASSUME NEW t \in Send, Request(t)
      PROVE  TakenOnce'
  <2>1. t \in Job /\ t \notin Sweep
    BY <1>2 DEF Job
  <2>2. Taken' = Taken
    BY <1>2, <1>4, <2>1, RequestTypes DEF Taken, jobVars
  <2>3. CASE SendSchedule(t)
    <3>1. scheduled' = scheduled + 1 /\ status' = "scheduled"
      BY <2>3 DEF SendSchedule
    <3>2. QED
      BY <1>2, <2>2, <3>1 DEF TakenOnce
  <2>4. CASE SendRead(t) \/ SendReserve(t)
    <3>1. scheduled' = scheduled /\ (status' = "scheduled" => status = "scheduled")
      BY <2>4 DEF SendRead, SendReserve, rowVars
    <3>2. QED
      BY <1>1, <2>2, <3>1, TakenQuiet
  <2>5. QED
    BY <1>4, <2>3, <2>4 DEF Request
<1>5. ASSUME NEW d \in Sweep, Dispatch(d)
      PROVE  TakenOnce'
  <2>1. d \in Job
    BY <1>2
  <2>2. CASE SweepRead(d)
    <3>1. Taken' \subseteq Taken
      BY <1>2, <2>1, <2>2 DEF Taken, SweepRead, jobVars
    <3>2. QED
      BY <1>1, <2>2, <3>1, TakenQuiet DEF SweepRead, rowVars
  <2>3. CASE SweepClaim(d) /\ status = "scheduled"
    <3>1. /\ by' = [by EXCEPT ![d] = "add"] /\ status' = "sending" /\ UNCHANGED <<job, scheduled>>
      BY <2>3 DEF SweepClaim, jobVars
    <3>2. Taken' = Taken \union {d}
      BY <1>2, <2>1, <3>1 DEF Taken
    <3>3. Cardinality(Taken') <= Cardinality(Taken) + 1 /\ Cardinality(Taken') \in Nat
      <4>1. Cardinality(Taken') = IF d \in Taken THEN Cardinality(Taken) ELSE Cardinality(Taken) + 1
        BY <1>2, <3>2, FS_AddElement
      <4>2. QED
        BY <1>2, <4>1
    <3>4. QED
      BY <1>2, <2>3, <3>1, <3>3 DEF TakenOnce
  <2>4. CASE SweepClaim(d) /\ status # "scheduled"
    <3>1. /\ by' = [by EXCEPT ![d] = "done"] /\ UNCHANGED <<status, job, scheduled>>
      BY <2>4 DEF SweepClaim, jobVars
    <3>2. Taken' \subseteq Taken
      BY <1>2, <2>1, <3>1 DEF Taken
    <3>3. QED
      BY <1>1, <3>1, <3>2, TakenQuiet
  <2>5. QED
    BY <1>5, <2>2, <2>3, <2>4 DEF Dispatch
<1>6. ASSUME NEW j \in Job, AddJob(j) \/ Stop(j) \/ Recover(j)
      PROVE  TakenOnce'
  <2>1. Taken' \subseteq Taken
    <3>1. CASE AddJob(j)
      BY <1>2, <3>1 DEF Taken, AddJob
    <3>2. CASE Stop(j)
      BY <1>2, <3>2 DEF Taken, Stop, jobVars
    <3>3. CASE Recover(j)
      BY <1>2, <3>3 DEF Taken, Recover
    <3>4. QED
      BY <1>6, <3>1, <3>2, <3>3
  <2>2. UNCHANGED <<status, scheduled>>
    BY <1>6 DEF AddJob, Stop, Recover, rowVars
  <2>3. QED
    BY <1>1, <2>1, <2>2, TakenQuiet
<1>7. CASE TimePasses \/ \E w \in Worker : Boot(w)
  <2>1. UNCHANGED <<status, scheduled, by, job>>
    BY <1>7 DEF TimePasses, Boot, rowVars, jobVars
  <2>2. Taken' \subseteq Taken
    BY <2>1 DEF Taken
  <2>3. QED
    BY <1>1, <2>1, <2>2, TakenQuiet
<1>8. QED
  BY <1>3, <1>4, <1>5, <1>6, <1>7, NextCases DEF OtherStep

\* A recipient gets the broadcast at most once for every request by hand, every
\* schedule and every worker lost over it (processBroadcastJob, and the claim of
\* dispatchDueScheduledBroadcasts): the jobs added, and the jobs handed out again, pay
\* for every pass over the recipients.
THEOREM OncePerRequest == Spec => []SentPerRequest
<1> DEFINE Inv == Base /\ Account /\ TakenOnce
<1>1. Init => Inv
  BY TypeInit, AccountInit
<1>2. Inv /\ [Next]_vars => Inv'
  <2>1. ASSUME Inv, UNCHANGED vars
        PROVE  (Account /\ TakenOnce)'
    BY <2>1 DEF Account, ToDo, StillTo, Queued, Added, TakenOnce, Taken, vars, rowVars, jobVars
  <2>2. QED
    BY <2>1, BaseStep, AccountStep, TakenStep
<1>3. Inv => SentPerRequest
  <2> SUFFICES ASSUME Inv, NEW r \in Recipient
               PROVE  passed[r] <= scheduled + Cardinality({s \in Send : job[s] # "none"})
                                     + Cardinality(stalled)
    BY DEF SentPerRequest
  <2> DEFINE A == {s \in Send : job[s] # "none"}
             B == {d \in Sweep : job[d] # "none"}
  <2>1. /\ stalled \subseteq Job /\ passed[r] \in Nat /\ scheduled \in Nat
    BY DEF Base, TypeOK
  <2>2. /\ Cardinality(ToDo(r)) \in Nat /\ Cardinality(Queued) \in Nat
        /\ Cardinality(Added) \in Nat /\ Cardinality(stalled) \in Nat
        /\ IsFiniteSet(Taken) /\ Cardinality(Taken) \in Nat
    BY <2>1, Finite
  <2>3. /\ IsFiniteSet(A) /\ Cardinality(A) \in Nat /\ IsFiniteSet(B) /\ Cardinality(B) \in Nat
    BY BroadcastAssumption, FS_Subset, FS_CardinalityType
  <2>4. Added = A \union B /\ A \intersect B = {}
    BY BroadcastAssumption DEF Added, Job
  <2>5. Cardinality(Added) = Cardinality(A) + Cardinality(B)
    BY <2>3, <2>4, FS_Union, FS_EmptySet
  <2>6. Cardinality(B) <= Cardinality(Taken)
    BY <2>2, Fewer DEF Taken
  <2>7. Cardinality(Taken) <= scheduled
    BY <2>1, <2>2 DEF TakenOnce
  <2>8. passed[r] + Cardinality(ToDo(r)) + Cardinality(Queued) <= Cardinality(Added) + Cardinality(stalled)
    BY DEF Account
  <2>9. QED
    BY <2>1, <2>2, <2>3, <2>5, <2>6, <2>7, <2>8
<1>4. QED
  BY <1>1, <1>2, <1>3, PTL DEF Spec

-----------------------------------------------------------------------------
(* Nobody is left out. *)

\* A worker at work has an active job of its own.
HoldOK ==
  \A w \in Worker : IF wk[w].pc = "idle" THEN wk[w].job = None
                    ELSE wk[w].job \in Job /\ job[wk[w].job] = "active"
Apart ==
  \A v, w \in Worker : v # w /\ wk[v].pc # "idle" => wk[v].job # wk[w].job

\* One worker is lost at most: no job is given up.
LostOnce ==
  /\ "crash" \notin faults => stalled = {} /\ \A j \in Job : job[j] # "orphan"
  /\ \A j \in Job : job[j] = "orphan" => j \notin stalled

SentPassed == \A w \in Worker : wk[w].pc = "sent" => passed[wk[w].at] > 0

HoldInv == HoldOK /\ Apart /\ LostOnce /\ SentPassed

\* The steps of a worker that stay in its job.
Stays(w) ==
  \/ Lookup(w) \/ ClearLogs(w) \/ Start(w) \/ Deliver(w) \/ LogSent(w) \/ LogFailed(w)
  \/ Reject(w) \/ LogSentFails(w) \/ Throw(w)
Leaves(w) == Finish(w) \/ Fail(w) \/ Crash(w)

LEMMA StepCases ==
  ASSUME NEW w \in Worker, WorkerStep(w)
  PROVE  Stays(w) \/ Leaves(w) \/ \E j \in Job : Take(w, j)
BY DEF WorkerStep, Work, Stays, Leaves

LEMMA StaysEffect ==
  ASSUME Base, NEW w \in Worker, Stays(w)
  PROVE  /\ UNCHANGED <<job, stalled>> /\ wk'[w].job = wk[w].job
         /\ wk[w].pc # "idle" /\ wk'[w].pc # "idle" /\ Same(w)
<1>1. wk \in [Worker -> WorkerState] /\ WorkerStep(w)
  BY DEF Base, TypeOK, WorkerState, Stays, WorkerStep, Work
<1>2. Same(w)
  BY <1>1, WorkerGoes
<1>3. UNCHANGED <<job, stalled>> /\ wk[w].pc # "idle"
  BY DEF Stays, Lookup, ClearLogs, Start, Deliver, LogSent, LogFailed, Reject, LogSentFails, Throw,
         jobVars, At
<1>4. wk'[w].job = wk[w].job /\ wk'[w].pc # "idle"
  <2>1. CASE Deliver(w)
    BY <2>1, Delivers
  <2>2. CASE LogSent(w) \/ LogFailed(w)
    BY <2>2, NextRecipient DEF LogSent, LogFailed, At
  <2>3. CASE LogSentFails(w)
    BY <1>1, <2>3 DEF LogSentFails, WorkerState
  <2>4. ASSUME NEW pc \in Steps, Goto(w, pc)
        PROVE  wk'[w].job = wk[w].job /\ wk'[w].pc = pc
    BY <1>1, <2>4 DEF Goto, WorkerState
  <2>5. QED
    BY <2>1, <2>2, <2>3, <2>4 DEF Stays, Lookup, ClearLogs, Start, Reject, Throw, Steps
<1>5. QED
  BY <1>2, <1>3, <1>4

LEMMA LeavesEffect ==
  ASSUME Base, NEW w \in Worker, Leaves(w)
  PROVE  /\ wk'[w] = IdleWorker /\ Same(w)
         /\ \A j \in Job : j # wk[w].job => job'[j] = job[j]
         /\ Crash(w) \/ (wk[w].pc # "idle" /\ \A j \in Job : j = wk[w].job => job'[j] = "ended")
         /\ Crash(w) => \A j \in Job : j = wk[w].job => job'[j] = "orphan"
         /\ UNCHANGED <<stalled, passed, logs>>
<1>1. wk \in [Worker -> WorkerState] /\ job \in [Job -> Jobs] /\ WorkerStep(w)
  BY DEF Base, TypeOK, WorkerState, Leaves, WorkerStep, Work
<1>2. Same(w)
  BY <1>1, WorkerGoes
<1>3. CASE Crash(w)
  BY <1>1, <1>2, <1>3 DEF Crash
<1>4. CASE Finish(w) \/ Fail(w)
  <2>1. /\ wk' = [wk EXCEPT ![w] = IdleWorker] /\ job' = [job EXCEPT ![wk[w].job] = "ended"]
        /\ wk[w].pc # "idle" /\ UNCHANGED <<stalled, passed, logs>>
    BY <1>4 DEF Finish, Fail, End, At
  <2>2. CASE ~Crash(w)
    BY <1>1, <1>2, <2>1, <2>2
  <2>3. QED
    BY <1>3, <2>2
<1>5. QED
  BY <1>3, <1>4 DEF Leaves

LEMMA TakeEffect ==
  ASSUME Base, NEW w \in Worker, NEW j \in Job, Take(w, j)
  PROVE  /\ wk'[w].pc = "lookup" /\ wk'[w].job = j /\ wk[w].pc = "idle" /\ Same(w)
         /\ job[j] = "waiting" /\ job'[j] = "active" /\ \A i \in Job : i # j => job'[i] = job[i]
         /\ UNCHANGED <<stalled, passed, logs, faults>>
<1>1. wk \in [Worker -> WorkerState] /\ job \in [Job -> Jobs] /\ WorkerStep(w)
  BY DEF Base, TypeOK, WorkerState, WorkerStep, Work
<1>2. Same(w)
  BY <1>1, WorkerGoes
<1>3. wk'[w] = [IdleWorker EXCEPT !.pc = "lookup", !.job = j]
  BY <1>1 DEF Take
<1>4. wk'[w].pc = "lookup" /\ wk'[w].job = j
  BY <1>3 DEF IdleWorker
<1>5. QED
  BY <1>1, <1>2, <1>4 DEF Take, At

LEMMA HoldInit == Init => HoldInv
BY DEF Init, HoldInv, HoldOK, Apart, LostOnce, SentPassed, IdleWorker

LEMMA HoldWorker ==
  ASSUME Base, HoldInv, NEW w \in Worker, WorkerStep(w)
  PROVE  HoldOK' /\ Apart' /\ LostOnce'
<1>1. None \notin Job /\ faults \subseteq faults'
  BY BroadcastAssumption
     DEF Job, WorkerStep, Work, Take, Lookup, ClearLogs, Start, Deliver, LogSent, LogFailed,
         Finish, Fail, Reject, LogSentFails, Throw, Crash, Fault
<1>2. CASE Stays(w)
  BY <1>1, <1>2, StaysEffect DEF HoldInv, HoldOK, Apart, LostOnce, Same
<1>3. ASSUME NEW j \in Job, Take(w, j)
      PROVE  HoldOK' /\ Apart' /\ LostOnce'
  <2>1. HoldOK'
    BY <1>1, <1>3, TakeEffect DEF HoldInv, HoldOK, Same
  <2>2. Apart'
    BY <1>1, <1>3, TakeEffect DEF HoldInv, HoldOK, Apart, Same
  <2>3. LostOnce'
    BY <1>1, <1>3, TakeEffect DEF HoldInv, LostOnce
  <2>4. QED
    BY <2>1, <2>2, <2>3
<1>4. CASE Leaves(w)
  <2>1. IdleWorker.pc = "idle" /\ IdleWorker.job = None
    BY DEF IdleWorker
  <2>2. HoldOK' /\ Apart'
    BY <1>1, <1>4, <2>1, LeavesEffect DEF HoldInv, HoldOK, Apart, Same
  <2>3. CASE Crash(w)
    <3>1. "crash" \in faults' /\ "crash" \notin faults
      BY <2>3 DEF Crash, Fault
    <3>2. stalled' = {}
      BY <1>4, <3>1, LeavesEffect DEF HoldInv, LostOnce
    <3>3. QED
      BY <2>2, <3>1, <3>2 DEF LostOnce
  <2>4. CASE ~Crash(w)
    <3>1. \A j \in Job : job'[j] = "orphan" => job[j] = "orphan"
      BY <1>4, <2>4, LeavesEffect
    <3>2. QED
      BY <1>1, <1>4, <2>2, <3>1, LeavesEffect DEF HoldInv, LostOnce
  <2>5. QED
    BY <2>3, <2>4
<1>5. QED
  BY <1>2, <1>3, <1>4, StepCases

LEMMA PassedGrows ==
  ASSUME Base, NEW w \in Worker, WorkerStep(w)
  PROVE  SentPassed => SentPassed'
<1>1. /\ passed \in [Recipient -> Nat] /\ wk \in [Worker -> WorkerState]
      /\ \A v \in Worker : wk[v].at \in Recipient
  BY DEF Base, TypeOK, WorkerState
<1>2. Same(w)
  BY WorkerGoes
<1>3. CASE Deliver(w)
  <2>1. wk'[w].at = wk[w].at /\ wk'[w].pc \in {"sent", "unsent"}
    BY <1>3, Delivers
  <2>2. \A r \in Recipient : passed[r] > 0 => passed'[r] > 0
    BY <1>1, <1>3 DEF Deliver
  <2>3. wk'[w].pc = "sent" => passed'[wk[w].at] > 0
    <3>1. wk'[w].pc = "sent" => passed' = [passed EXCEPT ![wk[w].at] = @ + 1]
      <4>1. ASSUME wk' = [wk EXCEPT ![w].pc = "unsent", ![w].bad = @ + 1]
            PROVE  wk'[w].pc = "unsent"
        BY <1>1, <4>1 DEF WorkerState
      <4>2. QED
        BY <1>3, <4>1 DEF Deliver
    <3>2. QED
      BY <1>1, <3>1
  <2>4. QED
    BY <1>1, <1>2, <2>1, <2>2, <2>3 DEF SentPassed, Same
<1>4. CASE ~Deliver(w)
  <2>1. passed' = passed
    BY <1>4 DEF WorkerStep, Work, Take, Lookup, ClearLogs, Start, LogSent, LogFailed, Finish, Fail,
           Reject, LogSentFails, Throw, Crash
  <2>2. wk'[w].pc # "sent"
    <3>1. CASE LogSent(w) \/ LogFailed(w)
      BY <3>1, NextRecipient DEF LogSent, LogFailed, At
    <3>2. CASE Leaves(w)
      BY <3>2, LeavesEffect, IdleTyped
    <3>3. CASE \E j \in Job : Take(w, j)
      BY <3>3, TakeEffect
    <3>4. CASE LogSentFails(w)
      BY <1>1, <3>4 DEF LogSentFails, WorkerState
    <3>5. ASSUME NEW pc \in Steps, Goto(w, pc)
          PROVE  wk'[w].pc = pc
      BY <1>1, <3>5 DEF Goto, WorkerState
    <3>6. CASE Lookup(w) \/ ClearLogs(w) \/ Start(w) \/ Reject(w) \/ Throw(w)
      BY <3>5, <3>6 DEF Lookup, ClearLogs, Start, Reject, Throw, Steps
    <3>7. QED
      BY <1>4, <3>1, <3>2, <3>3, <3>4, <3>6, StepCases DEF Stays
  <2>3. QED
    BY <1>2, <2>1, <2>2 DEF SentPassed, Same
<1>5. QED
  BY <1>3, <1>4

LEMMA OtherKeeps ==
  ASSUME Base, OtherStep
  PROVE  /\ UNCHANGED <<wk, passed, logs>> /\ faults \subseteq faults'
         /\ \/ UNCHANGED <<job, stalled>>
            \/ \E j \in Job : AddJob(j) \/ Recover(j)
<1>1. ASSUME NEW j \in Job, (j \in Send /\ Request(j)) \/ (j \in Sweep /\ Dispatch(j))
      PROVE  UNCHANGED <<wk, passed, logs, faults, job, stalled>>
  BY <1>1, RequestTypes DEF jobVars
<1>2. QED
  BY <1>1 DEF OtherStep, TimePasses, AddJob, Stop, Recover, Boot, Job, jobVars, Fault

LEMMA HoldStep == Base /\ HoldInv /\ [Next]_vars => HoldInv'
<1> SUFFICES ASSUME Base, HoldInv, [Next]_vars
             PROVE  HoldInv'
  OBVIOUS
<1>1. ASSUME NEW w \in Worker, WorkerStep(w)
      PROVE  HoldInv'
  BY <1>1, HoldWorker, PassedGrows DEF HoldInv
<1>2. CASE OtherStep
  <2>1. UNCHANGED <<wk, passed, logs>> /\ faults \subseteq faults'
    BY <1>2, OtherKeeps
  <2>2. job \in [Job -> Jobs]
    BY DEF Base, TypeOK
  <2>3. CASE UNCHANGED <<job, stalled>>
    BY <2>1, <2>3 DEF HoldInv, HoldOK, Apart, LostOnce, SentPassed
  <2>4. ASSUME NEW j \in Job, AddJob(j)
        PROVE  HoldInv'
    <3>1. /\ job[j] = "none" /\ job'[j] = "waiting" /\ (\A i \in Job : i # j => job'[i] = job[i])
          /\ stalled' = stalled
      BY <2>2, <2>4 DEF AddJob, Base, AddedLast
    <3>2. QED
      BY <2>1, <3>1 DEF HoldInv, HoldOK, Apart, LostOnce, SentPassed
  <2>5. ASSUME NEW j \in Job, Recover(j)
        PROVE  HoldInv'
    <3>1. /\ job[j] = "orphan" /\ job'[j] \in {"waiting", "ended"}
          /\ (\A i \in Job : i # j => job'[i] = job[i])
          /\ stalled' = stalled \union {j}
      BY <2>2, <2>5 DEF Recover
    <3>2. "crash" \in faults'
      BY <2>1, <3>1 DEF HoldInv, LostOnce
    <3>3. QED
      BY <2>1, <3>1, <3>2 DEF HoldInv, HoldOK, Apart, LostOnce, SentPassed
  <2>6. QED
    BY <1>2, <2>3, <2>4, <2>5, OtherKeeps
<1>3. CASE UNCHANGED vars
  BY <1>3 DEF HoldInv, HoldOK, Apart, LostOnce, SentPassed, vars, rowVars, jobVars
<1>4. QED
  BY <1>1, <1>2, <1>3, NextCases

\* What the recipients' logs say.
Logged(r) == (logs[r].sent > 0 /\ passed[r] > 0) \/ logs[r].failed > 0
Complete  == \A r \in Recipient : Logged(r)

Excepted  == {"throw", "invalid"} \intersect faults # {}
NoneFails == \A w \in Worker : wk[w].pc # "fail"
NotBegun  == (\A j \in Job : job[j] = "none") /\ status # "completed"

\* A worker that will have logged every recipient when it finishes.
Ahead(w) ==
  \/ wk[w].pc \in {"lookup", "clear"}
  \/ /\ wk[w].pc \in {"start", "send", "sent", "unsent"}
     /\ \A r \in Recipient : r < wk[w].at => Logged(r)
Going ==
  \/ \E j \in Job : job[j] \in {"waiting", "orphan"}
  \/ \E w \in Worker : Ahead(w)

\* Unless a run threw: no job was added yet, or one has yet to log every recipient, or
\* every recipient has a log.
LogInv == ~Excepted => NoneFails /\ (NotBegun \/ Going \/ Complete)

LEMMA LogInit == Init => LogInv
BY DEF Init, LogInv, NoneFails, NotBegun, IdleWorker

LEMMA LogStays ==
  ASSUME Base, NEW w \in Worker, WorkerStep(w), ~ClearLogs(w)
  PROVE  \A r \in Recipient : Logged(r) => Logged(r)'
<1>1. /\ logs \in [Recipient -> [sent : Nat, failed : Nat]] /\ passed \in [Recipient -> Nat]
      /\ wk[w].at \in Recipient
  BY DEF Base, TypeOK
<1>2. CASE LogSent(w)
  <2>1. \A r \in Recipient : logs'[r].sent >= logs[r].sent /\ logs'[r].failed = logs[r].failed
    BY <1>1, <1>2 DEF LogSent
  <2>2. UNCHANGED passed
    BY <1>2 DEF LogSent
  <2>3. logs' \in [Recipient -> [sent : Nat, failed : Nat]]
    BY <1>1, <1>2 DEF LogSent
  <2>4. QED
    BY <1>1, <2>1, <2>2, <2>3 DEF Logged
<1>3. CASE LogFailed(w)
  <2>1. \A r \in Recipient : logs'[r].sent = logs[r].sent /\ logs'[r].failed >= logs[r].failed
    BY <1>1, <1>3 DEF LogFailed
  <2>2. UNCHANGED passed
    BY <1>3 DEF LogFailed
  <2>3. logs' \in [Recipient -> [sent : Nat, failed : Nat]]
    BY <1>1, <1>3 DEF LogFailed
  <2>4. QED
    BY <1>1, <2>1, <2>2, <2>3 DEF Logged
<1>4. CASE Deliver(w)
  <2>1. UNCHANGED logs /\ \A r \in Recipient : passed[r] > 0 => passed'[r] > 0
    BY <1>1, <1>4 DEF Deliver
  <2>2. QED
    BY <2>1 DEF Logged
<1>5. CASE ~(LogSent(w) \/ LogFailed(w) \/ Deliver(w))
  <2>1. UNCHANGED <<logs, passed>>
    BY <1>5 DEF WorkerStep, Work, Take, Lookup, ClearLogs, Start, Finish, Fail, Reject,
                LogSentFails, Throw, Crash
  <2>2. QED
    BY <2>1 DEF Logged
<1>6. QED
  BY <1>2, <1>3, <1>4, <1>5

\* A worker that is ahead stays so until it has logged the last recipient or is lost.
LEMMA StaysAhead ==
  ASSUME Base, HoldInv, NEW w \in Worker, WorkerStep(w), Ahead(w), ~Excepted'
  PROVE  Going' \/ Complete'
<1>1. /\ N \in Nat \ {0} /\ wk \in [Worker -> WorkerState] /\ wk[w].at \in 1..N /\ Counted(wk[w])
      /\ wk[w].at \in Recipient /\ Recipient = 1..N
      /\ logs \in [Recipient -> [sent : Nat, failed : Nat]] /\ passed \in [Recipient -> Nat]
  BY BroadcastAssumption DEF Base, TypeOK, WorkerState, WorkersOK, Recipient
<1>2. wk[w].pc \in {"lookup", "clear", "start", "send", "sent", "unsent"}
  BY DEF Ahead
<1>3. \A r \in Recipient : Logged(r) => Logged(r)' \/ ClearLogs(w)
  BY LogStays
<1>4. ASSUME NEW pc \in Steps, Goto(w, pc)
      PROVE  wk'[w].pc = pc /\ wk'[w].at = wk[w].at
  BY <1>1, <1>4 DEF Goto, WorkerState
<1>5. CASE Lookup(w)
  BY <1>4, <1>5 DEF Lookup, Going, Ahead, Steps
<1>6. CASE ClearLogs(w)
  <2>1. wk'[w].pc = "start" /\ wk'[w].at = 1
    BY <1>1, <1>4, <1>6 DEF ClearLogs, At, Steps, Counted
  <2>2. \A r \in Recipient : ~(r < wk'[w].at)
    BY <1>1, <2>1
  <2>3. QED
    BY <2>1, <2>2 DEF Going, Ahead
<1>7. CASE Start(w) \/ Deliver(w) \/ LogSentFails(w)
  <2>1. /\ wk[w].pc \in {"start", "send", "sent"} /\ ~ClearLogs(w)
    BY <1>7 DEF Start, Deliver, LogSentFails, ClearLogs, At
  <2>2. wk'[w].pc \in {"send", "sent", "unsent"} /\ wk'[w].at = wk[w].at
    <3>1. CASE Start(w)
      BY <1>4, <3>1 DEF Start, Steps
    <3>2. CASE Deliver(w)
      BY <3>2, Delivers
    <3>3. CASE LogSentFails(w)
      BY <1>1, <3>3 DEF LogSentFails, WorkerState
    <3>4. QED
      BY <1>7, <3>1, <3>2, <3>3
  <2>3. \A r \in Recipient : r < wk[w].at => Logged(r)'
    BY <1>3, <2>1 DEF Ahead
  <2>4. Ahead(w)'
    BY <2>2, <2>3 DEF Ahead
  <2>5. QED
    BY <2>4 DEF Going
<1>8. CASE LogSent(w) \/ LogFailed(w)
  <2>1. wk[w].pc \in {"sent", "unsent"} /\ GoOn(w) /\ ~ClearLogs(w)
    BY <1>8 DEF LogSent, LogFailed, ClearLogs, At
  <2>2. \A r \in Recipient : r = wk[w].at => Logged(r)'
    <3>1. CASE LogSent(w)
      <4>1. passed'[wk[w].at] > 0
        BY <3>1 DEF LogSent, At, HoldInv, SentPassed
      <4>2. logs'[wk[w].at].sent > 0
        BY <1>1, <3>1 DEF LogSent
      <4>3. QED
        BY <4>1, <4>2 DEF Logged
    <3>2. CASE LogFailed(w)
      <4>1. logs'[wk[w].at].failed > 0
        BY <1>1, <3>2 DEF LogFailed
      <4>2. QED
        BY <4>1 DEF Logged
    <3>3. QED
      BY <1>8, <3>1, <3>2
  <2>3. \A r \in Recipient : r <= wk[w].at => Logged(r)'
    <3>1. \A r \in Recipient : r < wk[w].at => Logged(r)'
      BY <1>3, <2>1 DEF Ahead
    <3>2. \A r \in Recipient : r <= wk[w].at => r < wk[w].at \/ r = wk[w].at
      BY <1>1
    <3>3. QED
      BY <2>2, <3>1, <3>2
  <2>4. CASE wk[w].at = N
    <3>1. \A r \in Recipient : r <= wk[w].at
      BY <1>1, <2>4
    <3>2. QED
      BY <2>3, <3>1 DEF Complete
  <2>5. CASE wk[w].at # N
    <3>1. wk'[w].pc = "send" /\ wk'[w].at = wk[w].at + 1
      BY <2>1, <2>5, NextRecipient
    <3>2. \A r \in Recipient : r < wk'[w].at => r <= wk[w].at
      BY <1>1, <3>1
    <3>3. Ahead(w)'
      BY <2>3, <3>1, <3>2 DEF Ahead
    <3>4. QED
      BY <3>3 DEF Going
  <2>6. QED
    BY <2>4, <2>5
<1>9. ~Reject(w) /\ ~Throw(w)
  BY DEF Reject, Throw, Fault, Excepted
<1>10. ASSUME NEW j \in Job, Take(w, j)
       PROVE  FALSE
  BY <1>2, <1>10 DEF Take, At
<1>11. CASE Crash(w)
  <2>1. wk[w].job \in Job /\ job' = [j \in Job |-> IF j = wk[w].job THEN "orphan" ELSE job[j]]
    BY <1>2, <1>11 DEF Crash, HoldInv, HoldOK
  <2>2. job'[wk[w].job] = "orphan"
    BY <2>1
  <2>3. QED
    BY <2>1, <2>2 DEF Going
<1>12. ~Finish(w) /\ ~Fail(w)
  BY <1>2 DEF Finish, Fail, At
<1>13. QED
  BY <1>5, <1>6, <1>7, <1>8, <1>9, <1>10, <1>11, <1>12, StepCases DEF Stays, Leaves

\* A job that waits for a worker is taken by this one, or still waits.
LEMMA StaysWaiting ==
  ASSUME Base, HoldInv, NEW w \in Worker, WorkerStep(w),
         NEW j \in Job, job[j] \in {"waiting", "orphan"}
  PROVE  Going'
<1>1. None \notin Job /\ (wk[w].job = None \/ job[wk[w].job] = "active")
  BY BroadcastAssumption DEF Job, HoldInv, HoldOK
<1>2. j # wk[w].job
  BY <1>1
<1>3. CASE Stays(w)
  BY <1>3, StaysEffect DEF Going
<1>4. CASE Leaves(w)
  BY <1>2, <1>4, LeavesEffect DEF Going
<1>5. ASSUME NEW i \in Job, Take(w, i)
      PROVE  Going'
  <2>1. Ahead(w)'
    BY <1>5, TakeEffect DEF Ahead
  <2>2. QED
    BY <2>1 DEF Going
<1>6. QED
  BY <1>3, <1>4, <1>5, StepCases

LEMMA LogWorker ==
  ASSUME Base, HoldInv, LogInv, NEW w \in Worker, WorkerStep(w)
  PROVE  LogInv'
<1> SUFFICES ASSUME ~Excepted'
             PROVE  NoneFails' /\ (NotBegun' \/ Going' \/ Complete')
  BY DEF LogInv
<1>1. ~Excepted
  BY DEF Excepted, WorkerStep, Work, Take, Lookup, ClearLogs, Start, Deliver, LogSent, LogFailed,
         Finish, Fail, Reject, LogSentFails, Throw, Crash, Fault
<1>2. NoneFails /\ (NotBegun \/ Going \/ Complete)
  BY <1>1 DEF LogInv
<1>3. wk \in [Worker -> WorkerState] /\ Same(w)
  BY WorkerGoes DEF Base, TypeOK, WorkerState
<1>4. ~Reject(w) /\ ~Throw(w)
  BY DEF Reject, Throw, Fault, Excepted
<1>5. NoneFails'
  <2>1. wk'[w].pc # "fail"
    <3>1. CASE Deliver(w)
      BY <3>1, Delivers
    <3>2. CASE LogSent(w) \/ LogFailed(w)
      BY <3>2, NextRecipient DEF LogSent, LogFailed, At
    <3>3. CASE LogSentFails(w)
      BY <1>3, <3>3 DEF LogSentFails, WorkerState
    <3>4. CASE Leaves(w)
      BY <3>4, LeavesEffect, IdleTyped
    <3>5. CASE \E j \in Job : Take(w, j)
      BY <3>5, TakeEffect
    <3>6. CASE Lookup(w) \/ ClearLogs(w) \/ Start(w)
      BY <1>3, <3>6 DEF Lookup, ClearLogs, Start, Goto, WorkerState
    <3>7. QED
      BY <1>4, <3>1, <3>2, <3>3, <3>4, <3>5, <3>6, StepCases DEF Stays
  <2>2. QED
    BY <1>2, <1>3, <2>1 DEF NoneFails, Same
<1>6. CASE NotBegun
  <2>1. wk[w].pc = "idle" /\ wk[w].job = None
    BY <1>6 DEF NotBegun, HoldInv, HoldOK
  <2>2. ~Stays(w) /\ ~Finish(w) /\ ~Fail(w)
    BY <2>1, StaysEffect DEF Finish, Fail, At
  <2>3. ASSUME NEW j \in Job, Take(w, j)
        PROVE  FALSE
    BY <1>6, <2>3 DEF Take, NotBegun
  <2>4. Crash(w)
    BY <2>2, <2>3, StepCases DEF Leaves
  <2>5. UNCHANGED status /\ None \notin Job
    BY <2>4, BroadcastAssumption DEF Crash, rowVars, Job
  <2>6. \A j \in Job : job'[j] = job[j]
    BY <2>1, <2>4, <2>5, LeavesEffect DEF Leaves
  <2>7. QED
    BY <1>5, <1>6, <2>5, <2>6 DEF NotBegun
<1>7. ASSUME NEW j \in Job, job[j] \in {"waiting", "orphan"}
      PROVE  Going'
  BY <1>7, StaysWaiting
<1>8. CASE ClearLogs(w)
  <2>1. wk'[w].pc = "start" /\ wk'[w].at = 1
    BY <1>3, <1>8 DEF ClearLogs, At, Goto, Counted, WorkerState, Base, WorkersOK
  <2>2. \A r \in Recipient : ~(r < wk'[w].at)
    BY <2>1, BroadcastAssumption DEF Recipient
  <2>3. Ahead(w)'
    BY <2>1, <2>2 DEF Ahead
  <2>4. QED
    BY <1>5, <2>3 DEF Going
<1>9. ASSUME NEW v \in Worker, Ahead(v), v # w, ~ClearLogs(w)
      PROVE  Ahead(v)'
  <2>1. wk'[v] = wk[v]
    BY <1>3, <1>9 DEF Same
  <2>2. \A r \in Recipient : Logged(r) => Logged(r)'
    BY <1>9, LogStays
  <2>3. QED
    BY <1>9, <2>1, <2>2 DEF Ahead
<1>10. CASE Going /\ ~ClearLogs(w)
  BY <1>5, <1>7, <1>9, <1>10, StaysAhead DEF Going
<1>11. CASE Complete /\ ~ClearLogs(w)
  BY <1>5, <1>11, LogStays DEF Complete
<1>12. QED
  BY <1>2, <1>6, <1>8, <1>10, <1>11

LEMMA LogStep == Base /\ HoldInv /\ LogInv /\ [Next]_vars => LogInv'
<1> SUFFICES ASSUME Base, HoldInv, LogInv, [Next]_vars
             PROVE  LogInv'
  OBVIOUS
<1>1. CASE OtherStep
  <2> SUFFICES ASSUME ~Excepted'
               PROVE  NoneFails' /\ (NotBegun' \/ Going' \/ Complete')
    BY DEF LogInv
  <2>1. UNCHANGED <<wk, passed, logs>> /\ faults \subseteq faults'
    BY <1>1, OtherKeeps
  <2>2. NoneFails /\ (NotBegun \/ Going \/ Complete)
    BY <2>1 DEF LogInv, Excepted
  <2>3. NoneFails' /\ (Complete => Complete') /\ \A w \in Worker : Ahead(w) => Ahead(w)'
    BY <2>1, <2>2 DEF NoneFails, Complete, Ahead, Logged
  <2>4. job \in [Job -> Jobs]
    BY DEF Base, TypeOK
  <2>5. ASSUME NEW j \in Job, AddJob(j)
        PROVE  Going'
    BY <2>4, <2>5 DEF AddJob, Going
  <2>6. ASSUME NEW j \in Job, Recover(j)
        PROVE  Going'
    <3>1. job'[j] = "waiting"
      BY <2>4, <2>6 DEF Recover, HoldInv, LostOnce
    <3>2. QED
      BY <3>1 DEF Going
  <2>7. CASE UNCHANGED job
    <3>1. Going => Going'
      BY <2>3, <2>7 DEF Going
    <3>2. NotBegun => NotBegun'
      <4>1. ASSUME status # "completed"
            PROVE  status' # "completed"
        <5>1. CASE \E t \in Send : Request(t)
          BY <4>1, <5>1 DEF Request, SendRead, SendSchedule, SendReserve, rowVars
        <5>2. CASE \E d \in Sweep : Dispatch(d)
          BY <4>1, <5>2 DEF Dispatch, SweepRead, SweepClaim, rowVars
        <5>3. QED
          BY <1>1, <4>1, <5>1, <5>2 DEF OtherStep, TimePasses, AddJob, Stop, Recover, Boot, rowVars
      <4>2. QED
        BY <2>7, <4>1 DEF NotBegun
    <3>3. QED
      BY <2>2, <2>3, <3>1, <3>2
  <2>8. QED
    BY <1>1, <2>3, <2>5, <2>6, <2>7, OtherKeeps
<1>2. CASE UNCHANGED vars
  BY <1>2 DEF LogInv, Excepted, NoneFails, NotBegun, Going, Ahead, Complete, Logged,
              vars, rowVars, jobVars
<1>3. QED
  BY <1>1, <1>2, LogWorker, NextCases

\* When a broadcast is completed, no job is left and none threw, every recipient has a
\* log, of a message the provider took or of a failure, however many workers ran it
\* at once and deleted each other's logs (processBroadcastJob): the last to delete
\* them writes all of them, or its job is handed out again.
THEOREM NobodyIsLeftOut == Spec => []NobodyLeftOut
<1> DEFINE Inv == Base /\ HoldInv /\ LogInv
<1>1. Init => Inv
  BY TypeInit, HoldInit, LogInit
<1>2. Inv /\ [Next]_vars => Inv'
  BY BaseStep, HoldStep, LogStep
<1>3. Inv => NobodyLeftOut
  <2> SUFFICES ASSUME Inv, status = "completed", \A j \in Job : ~Alive(j), ~Excepted
               PROVE  Complete
    BY DEF NobodyLeftOut, Complete, Logged, Excepted
  <2>1. \A w \in Worker : wk[w].pc = "idle"
    BY DEF HoldInv, HoldOK, Alive
  <2>2. ~Going
    BY <2>1 DEF Going, Ahead, Alive
  <2>3. QED
    BY <2>2 DEF LogInv, NotBegun
<1>4. QED
  BY <1>1, <1>2, <1>3, PTL DEF Spec

=============================================================================
