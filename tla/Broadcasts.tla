----------------------------- MODULE Broadcasts -----------------------------
(***************************************************************************)
(* One broadcast: a message to many recipients.  A user sends it by hand   *)
(* (modules/broadcast/service.ts), or it is scheduled and a sweep claims   *)
(* it once it is due (workers/index.ts); each adds a job to the outbound   *)
(* queue.  The job writes its recipients' logs anew, passes the message to *)
(* the provider for one recipient after the other, and settles the         *)
(* broadcast.  A worker process runs one of these jobs at a time.          *)
(*                                                                         *)
(* A job names who added it.  BullMQ (external) tries these jobs once, and *)
(* once more when their worker is gone.                                    *)
(***************************************************************************)
EXTENDS Integers, FiniteSets

CONSTANTS
  Send,       \* requests to send the broadcast by hand
  Sweep,      \* runs of dispatchDueScheduledBroadcasts
  Worker,     \* worker processes
  N,          \* recipients
  None,       \* no job
  Faults,     \* what may go wrong in this instance
  MaxFault    \* bound on how many of them do, each at most once

FaultKind == {"invalid", "throw", "log", "mark", "crash", "refused", "lost_answer",
              "send_stops", "sweep_stops"}

ASSUME BroadcastAssumption ==
  /\ N \in Nat \ {0}
  /\ IsFiniteSet(Send) /\ IsFiniteSet(Sweep) /\ IsFiniteSet(Worker)
  /\ Send \intersect Sweep = {} /\ None \notin Send \union Sweep
  /\ Faults \subseteq FaultKind /\ MaxFault \in Nat

Job       == Send \union Sweep
Recipient == 1..N

VARIABLES
  status,    \* broadcasts.status
  due,       \* scheduled_at is not in the future
  counts,    \* broadcasts.success_count and failed_count
  logs,      \* broadcast_logs of a recipient, sent and failed
  passed,    \* how often the provider took the message for a recipient
  scheduled, \* how often the broadcast was put to scheduled
  by,        \* how far a request or a sweep is
  job,       \* what BullMQ has of a job
  stalled,   \* jobs handed out again because their worker was gone
  wk,        \* what each worker does
  up,        \* the worker processes that run
  faults     \* what went wrong so far

rowVars == <<status, counts, scheduled>>
jobVars == <<job, stalled>>
vars    == <<rowVars, due, logs, passed, by, jobVars, wk, up, faults>>

Statuses == {"draft", "scheduled", "sending", "completed", "failed"}
Stages   == {"new", "schedule", "reserve", "add", "claim", "done"}
Jobs     == {"none", "waiting", "active", "orphan", "ended"}
Steps    == {"idle", "lookup", "clear", "start", "send", "sent", "unsent", "finish", "fail"}

IdleWorker == [pc |-> "idle", job |-> None, at |-> 1, ok |-> 0, bad |-> 0]
NoCounts   == [ok |-> 0, bad |-> 0]

TypeOK ==
  /\ status \in Statuses /\ due \in BOOLEAN
  /\ counts \in [ok : Nat, bad : Nat]
  /\ logs \in [Recipient -> [sent : Nat, failed : Nat]]
  /\ passed \in [Recipient -> Nat]
  /\ scheduled \in Nat
  /\ by \in [Job -> Stages]
  /\ job \in [Job -> Jobs] /\ stalled \subseteq Job
  /\ wk \in [Worker -> [pc : Steps, job : Job \union {None}, at : Recipient,
                        ok : 0..N, bad : 0..N + 1]]
  /\ up \subseteq Worker
  /\ faults \subseteq Faults

Init ==
  /\ \/ status = "draft" /\ due = TRUE /\ scheduled = 0
     \/ status = "scheduled" /\ due = FALSE /\ scheduled = 1
  /\ counts = NoCounts
  /\ logs = [r \in Recipient |-> [sent |-> 0, failed |-> 0]]
  /\ passed = [r \in Recipient |-> 0]
  /\ by = [j \in Job |-> "new"]
  /\ job = [j \in Job |-> "none"] /\ stalled = {}
  /\ wk = [w \in Worker |-> IdleWorker]
  /\ up = Worker
  /\ faults = {}

Fault(f) ==
  /\ f \in Faults \ faults
  /\ Cardinality(faults) < MaxFault
  /\ faults' = faults \union {f}

\* The schedule's time comes.
TimePasses ==
  /\ ~due /\ due' = TRUE
  /\ UNCHANGED <<rowVars, logs, passed, by, jobVars, wk, up, faults>>

-----------------------------------------------------------------------------
\* sendBroadcast.

\* The row is read: a broadcast that is being sent is refused.
SendRead(s) ==
  /\ by[s] = "new"
  /\ by' = [by EXCEPT ![s] = IF status = "sending" THEN "done"
                             ELSE IF due THEN "reserve" ELSE "schedule"]
  /\ UNCHANGED <<rowVars, due, logs, passed, jobVars, wk, up, faults>>

SendSchedule(s) ==
  /\ by[s] = "schedule"
  /\ by' = [by EXCEPT ![s] = "done"]
  /\ status' = "scheduled" /\ scheduled' = scheduled + 1
  /\ UNCHANGED <<counts, due, logs, passed, jobVars, wk, up, faults>>

SendReserve(s) ==
  /\ by[s] = "reserve"
  /\ by' = [by EXCEPT ![s] = "add"]
  /\ status' = "sending" /\ counts' = NoCounts
  /\ UNCHANGED <<scheduled, due, logs, passed, jobVars, wk, up, faults>>

\* dispatchDueScheduledBroadcasts, for this broadcast.

SweepRead(d) ==
  /\ up # {} /\ by[d] = "new"
  /\ status = "scheduled" /\ due
  /\ by' = [by EXCEPT ![d] = "claim"]
  /\ UNCHANGED <<rowVars, due, logs, passed, jobVars, wk, up, faults>>

\* A claim that takes what was read for granted.
MutSweepClaim(d) ==
  /\ by[d] = "claim"
  /\ by' = [by EXCEPT ![d] = "add"]
  /\ status' = "sending"
  /\ UNCHANGED <<counts, scheduled, due, logs, passed, jobVars, wk, up, faults>>

\* The claim: scheduled becomes sending, if it is scheduled still.
SweepClaim(d) ==
  /\ by[d] = "claim"
  /\ IF status = "scheduled"
     THEN by' = [by EXCEPT ![d] = "add"] /\ status' = "sending"
     ELSE by' = [by EXCEPT ![d] = "done"] /\ UNCHANGED status
  /\ UNCHANGED <<counts, scheduled, due, logs, passed, jobVars, wk, up, faults>>

\* Either adds the job,
AddJob(j) ==
  /\ by[j] = "add"
  /\ by' = [by EXCEPT ![j] = "done"]
  /\ job' = [job EXCEPT ![j] = "waiting"]
  /\ UNCHANGED <<rowVars, due, logs, passed, stalled, wk, up, faults>>

\* or stops before, or finds Redis gone.
Stop(j) ==
  /\ \/ j \in Send /\ by[j] \in {"schedule", "reserve", "add"} /\ Fault("send_stops")
     \/ j \in Sweep /\ by[j] \in {"claim", "add"} /\ Fault("sweep_stops")
  /\ by' = [by EXCEPT ![j] = "done"]
  /\ UNCHANGED <<rowVars, due, logs, passed, jobVars, wk, up>>

-----------------------------------------------------------------------------
\* processBroadcastJob.

At(w, pc)   == wk[w].pc = pc
Goto(w, pc) == wk' = [wk EXCEPT ![w].pc = pc]

Take(w, j) ==
  /\ w \in up /\ At(w, "idle") /\ job[j] = "waiting"
  /\ job' = [job EXCEPT ![j] = "active"]
  /\ wk' = [wk EXCEPT ![w] = [IdleWorker EXCEPT !.pc = "lookup", !.job = j]]
  /\ UNCHANGED <<rowVars, due, logs, passed, by, stalled, up, faults>>

\* The broadcast, its channel and its audience are read.
Lookup(w) ==
  /\ At(w, "lookup")
  /\ Goto(w, "clear")
  /\ UNCHANGED <<rowVars, due, logs, passed, by, jobVars, up, faults>>

\* The logs of an earlier run are deleted.
ClearLogs(w) ==
  /\ At(w, "clear")
  /\ logs' = [r \in Recipient |-> [sent |-> 0, failed |-> 0]]
  /\ Goto(w, "start")
  /\ UNCHANGED <<rowVars, due, passed, by, jobVars, up, faults>>

Start(w) ==
  /\ At(w, "start")
  /\ status' = "sending" /\ counts' = NoCounts
  /\ Goto(w, "send")
  /\ UNCHANGED <<scheduled, due, logs, passed, by, jobVars, up, faults>>

\* No channel, no recipient or no content: markBroadcastFailed, and the job throws.
Reject(w) ==
  /\ Fault("invalid")
  /\ At(w, "lookup") \/ (At(w, "send") /\ wk[w].at = 1)
  /\ status' = "failed"
  /\ Goto(w, "fail")
  /\ UNCHANGED <<counts, scheduled, due, logs, passed, by, jobVars, up>>

\* sendWhatsAppMessage for the next recipient: taken, or refused, or taken with
\* the answer lost.
Deliver(w) ==
  LET r == wk[w].at
      taken   == wk' = [wk EXCEPT ![w].pc = "sent", ![w].ok = @ + 1]
      refused == wk' = [wk EXCEPT ![w].pc = "unsent", ![w].bad = @ + 1]
  IN  /\ At(w, "send")
      /\ \/ taken /\ passed' = [passed EXCEPT ![r] = @ + 1] /\ UNCHANGED faults
         \/ Fault("lost_answer") /\ refused /\ passed' = [passed EXCEPT ![r] = @ + 1]
         \/ Fault("refused") /\ refused /\ UNCHANGED passed
      /\ UNCHANGED <<rowVars, due, logs, by, jobVars, up>>

\* One recipient too many.
MutGoOn(w) ==
  wk' = [wk EXCEPT ![w].pc = IF wk[w].at > N THEN "finish" ELSE "send", ![w].at = @ + 1]

\* To the next recipient.
GoOn(w) ==
  wk' = [wk EXCEPT ![w].pc = IF wk[w].at = N THEN "finish" ELSE "send",
                   ![w].at = IF @ = N THEN @ ELSE @ + 1]

LogSent(w) ==
  /\ At(w, "sent")
  /\ logs' = [logs EXCEPT ![wk[w].at].sent = @ + 1]
  /\ GoOn(w)
  /\ UNCHANGED <<rowVars, due, passed, by, jobVars, up, faults>>

\* The log cannot be written: the recipient counts as failed, too.
LogSentFails(w) ==
  /\ Fault("log")
  /\ At(w, "sent")
  /\ wk' = [wk EXCEPT ![w].pc = "unsent", ![w].bad = @ + 1]
  /\ UNCHANGED <<rowVars, due, logs, passed, by, jobVars, up>>

\* A failed recipient that leaves no log.
MutLogFailed(w) ==
  /\ At(w, "unsent")
  /\ GoOn(w)
  /\ UNCHANGED <<rowVars, due, logs, passed, by, jobVars, up, faults>>

LogFailed(w) ==
  /\ At(w, "unsent")
  /\ logs' = [logs EXCEPT ![wk[w].at].failed = @ + 1]
  /\ GoOn(w)
  /\ UNCHANGED <<rowVars, due, passed, by, jobVars, up, faults>>

\* The job is over.
End(w) ==
  /\ job' = [job EXCEPT ![wk[w].job] = "ended"]
  /\ wk' = [wk EXCEPT ![w] = IdleWorker]

Finish(w) ==
  /\ At(w, "finish")
  /\ status' = IF wk[w].ok > 0 THEN "completed" ELSE "failed"
  /\ counts' = [ok |-> wk[w].ok, bad |-> wk[w].bad]
  /\ End(w)
  /\ UNCHANGED <<scheduled, due, logs, passed, by, stalled, up, faults>>

\* A statement throws.
Throw(w) ==
  /\ Fault("throw")
  /\ wk[w].pc \in {"lookup", "clear", "start", "unsent", "finish"}
  /\ Goto(w, "fail")
  /\ UNCHANGED <<rowVars, due, logs, passed, by, jobVars, up>>

\* An exception that leaves the broadcast as it is.
MutFail(w) ==
  /\ At(w, "fail")
  /\ End(w)
  /\ UNCHANGED <<rowVars, due, logs, passed, by, stalled, up, faults>>

\* The catch block marks the broadcast failed; that it cannot is ignored.
Fail(w) ==
  /\ At(w, "fail")
  /\ \/ status' = "failed" /\ UNCHANGED faults
     \/ Fault("mark") /\ UNCHANGED status
  /\ End(w)
  /\ UNCHANGED <<counts, scheduled, due, logs, passed, by, stalled, up>>

-----------------------------------------------------------------------------
\* A worker process stops and boots.

Crash(w) ==
  /\ Fault("crash")
  /\ w \in up /\ up' = up \ {w}
  /\ job' = [j \in Job |-> IF j = wk[w].job THEN "orphan" ELSE job[j]]
  /\ wk' = [wk EXCEPT ![w] = IdleWorker]
  /\ UNCHANGED <<rowVars, due, logs, passed, by, stalled>>

Boot(w) ==
  /\ w \notin up /\ up' = up \union {w}
  /\ UNCHANGED <<rowVars, due, logs, passed, by, jobVars, wk, faults>>

\* BullMQ finds a job whose worker is gone.
Recover(j) ==
  /\ up # {} /\ job[j] = "orphan"
  /\ job' = [job EXCEPT ![j] = IF j \in stalled THEN "ended" ELSE "waiting"]
  /\ stalled' = stalled \union {j}
  /\ UNCHANGED <<rowVars, due, logs, passed, by, wk, up, faults>>

-----------------------------------------------------------------------------
Request(s) == SendRead(s) \/ SendSchedule(s) \/ SendReserve(s)
Dispatch(d) == SweepRead(d) \/ SweepClaim(d)

Work(w) ==
  \/ \E j \in Job : Take(w, j)
  \/ Lookup(w) \/ ClearLogs(w) \/ Start(w) \/ Deliver(w) \/ LogSent(w) \/ LogFailed(w)
  \/ Finish(w) \/ Fail(w)

Next ==
  \/ TimePasses
  \/ \E s \in Send : Request(s)
  \/ \E d \in Sweep : Dispatch(d)
  \/ \E j \in Job : AddJob(j) \/ Stop(j) \/ Recover(j)
  \/ \E w \in Worker : Work(w) \/ Reject(w) \/ LogSentFails(w) \/ Throw(w) \/ Crash(w) \/ Boot(w)

Spec == Init /\ [][Next]_vars

\* Time passes; requests and sweeps go on with what they have begun, workers
\* with their jobs; the process manager boots a worker again.
FairSpec ==
  /\ Spec
  /\ WF_vars(TimePasses)
  /\ \A d \in Sweep : WF_vars(Dispatch(d))
  /\ \A j \in Job : WF_vars(AddJob(j)) /\ WF_vars(Recover(j))
  /\ \A w \in Worker : WF_vars(Work(w)) /\ WF_vars(Boot(w))

-----------------------------------------------------------------------------
Alive(j) == job[j] \in {"waiting", "active", "orphan"}

\* A recipient gets the broadcast at most once for every time somebody asked for
\* it, by a schedule or by hand, and for every worker lost over it: sweeps of
\* several worker processes never both take a schedule (workers/index.ts,
\* dispatchDueScheduledBroadcasts).
SentPerRequest ==
  \A r \in Recipient :
    passed[r] <= scheduled + Cardinality({s \in Send : job[s] # "none"}) + Cardinality(stalled)

\* When a broadcast is completed, no job is left and none threw, nobody was passed
\* over: each recipient has a log, of a message the provider took or of a failure,
\* also when two workers ran it at once and deleted each other's logs, or one was
\* lost (processBroadcastJob).
NobodyLeftOut ==
  (status = "completed" /\ (\A j \in Job : ~Alive(j)) /\ {"throw", "invalid"} \intersect faults = {})
    => \A r \in Recipient : (logs[r].sent > 0 /\ passed[r] > 0) \/ logs[r].failed > 0

\* A broadcast whose job was added does not stay in sending: its job settles it,
\* also when the first worker is lost, unless the last write fails.
BroadcastEnds ==
  \A j \in Job :
    job[j] = "waiting" ~> (status \in {"completed", "failed"} \/ "mark" \in faults)

=============================================================================
