-------------------------- MODULE OutboundDelivery --------------------------
(***************************************************************************)
(* Outgoing messages of OpenCRM: MessageService creates a message with     *)
(* status pending and enqueues a job for it; a worker runs the job         *)
(* (workers/index.ts, processOutboundMessageJob), which sends the message  *)
(* through its channel's provider.  The messages of a conversation are to  *)
(* go out in the order they were created, each once.                       *)
(*                                                                         *)
(* Several worker processes run, one job at a time each.  They may stop at *)
(* any step.  A job is kept by BullMQ (external): it is handed out again   *)
(* when the worker that runs it has not been heard of for a while, once.   *)
(* A message may have several jobs: its first, a deferred one for every    *)
(* time it was not its turn, one replayed when a worker process boots.     *)
(* They do the same and are counted, not named.                            *)
(***************************************************************************)
EXTENDS Integers, FiniteSets

CONSTANTS
  NMsg,      \* messages, numbered by created_at
  Conv,      \* conversations
  ConvOf,    \* the conversation of a message
  Worker,    \* worker processes
  Bridge,    \* messages whose status webhooks name them by internal id
  Free,      \* the value of a lock nobody holds
  Events,    \* what may go wrong or come from outside in this instance
  MaxFault   \* bound on the worker stops and lost jobs

Msg   == 1..NMsg
NoMsg == 0

ASSUME OutboundAssumption ==
  /\ NMsg \in Nat /\ MaxFault \in Nat
  /\ ConvOf \in [Msg -> Conv]
  /\ Bridge \subseteq Msg
  /\ Free \notin Worker
  /\ Events \subseteq {"delete", "status", "patch", "repend", "late_row", "error",
                       "mark_error", "crash", "api_crash", "job_lost", "lock_expiry"}

VARIABLES
  status,    \* messages.status ("none": no row)
  deleted,   \* messages.is_deleted (and deleted_at)
  extId,     \* messages.external_id is set
  unqueued,  \* messages whose sender has created the row and not yet added the job
  waiting,   \* jobs of a message in the queue; TRUE: those handed out again
  orphan,    \* jobs whose worker is gone or is not heard of
  replayed,  \* messages with a job id outbound-replay-<id> in the queue's records
  lock,      \* lock:outbound:conversation:<id> in Redis: the worker whose token it holds
  wk,        \* what each worker does
  aged,      \* messages 1..aged are more than 15 seconds old
  sends,     \* how often the provider took the message
  faults     \* worker stops and lost jobs so far

msgVars == <<status, deleted, extId, unqueued>>
jobVars == <<waiting, orphan, replayed>>
vars    == <<msgVars, jobVars, lock, wk, aged, sends, faults>>

Reports == {"sent", "delivered", "read", "failed"}
Status  == {"none", "pending"} \union Reports

PC == {"idle", "down", "read", "first", "wait", "second", "reload", "send",
       "commit", "requeue", "release", "throw", "failing"}

\* A worker: where it is, the message of its job, whether the job was handed
\* out again, whether it has the token of the conversation lock, and whether
\* the job is still its own.
WorkerState == [pc : PC, m : Msg \union {NoMsg}, again : BOOLEAN, held : BOOLEAN, own : BOOLEAN]

Idle == [pc |-> "idle", m |-> NoMsg, again |-> FALSE, held |-> FALSE, own |-> FALSE]
Down == [Idle EXCEPT !.pc = "down"]

At(w, label) == wk[w].pc = label
Goto(w, label) == wk' = [wk EXCEPT ![w].pc = label]
LockOf(w) == lock[ConvOf[wk[w].m]]

Init ==
  /\ status = [m \in Msg |-> "none"]
  /\ deleted = [m \in Msg |-> FALSE]
  /\ extId = [m \in Msg |-> FALSE]
  /\ unqueued = {}
  /\ waiting = [m \in Msg |-> [b \in BOOLEAN |-> 0]]
  /\ orphan = [m \in Msg |-> [b \in BOOLEAN |-> 0]]
  /\ replayed = {}
  /\ lock = [c \in Conv |-> Free]
  /\ wk \in [Worker -> {Idle, Down}]      \* some processes start later
  /\ aged = 0
  /\ sends = [m \in Msg |-> 0]
  /\ faults = 0

-----------------------------------------------------------------------------
(* MessageService and the routes. *)

\* sendMessage creates the row ...  A late row has an earlier created_at than
\* one that is there already: the auto reply and the follow-ups date all parts
\* of an answer from the time they begin to send it.
SendMessage(m) ==
  /\ status[m] = "none"
  /\ (\A n \in Msg : n < m => status[n] # "none") \/ "late_row" \in Events
  /\ status' = [status EXCEPT ![m] = "pending"]
  /\ unqueued' = unqueued \union {m}
  /\ UNCHANGED <<deleted, extId, jobVars, lock, wk, aged, sends, faults>>

\* ... and, after other writes, adds the job.
Enqueue(m) ==
  /\ m \in unqueued
  /\ unqueued' = unqueued \ {m}
  /\ waiting' = [waiting EXCEPT ![m][FALSE] = @ + 1]
  /\ UNCHANGED <<status, deleted, extId, orphan, replayed, lock, wk, aged, sends, faults>>

\* The API process stops, or a write fails, in between.  A second call with
\* the same unique_temp_id returns the row and adds no job either.
SenderFails(m) ==
  /\ "api_crash" \in Events /\ m \in unqueued
  /\ unqueued' = unqueued \ {m}
  /\ UNCHANGED <<status, deleted, extId, jobVars, lock, wk, aged, sends, faults>>

DeleteMessage(m) ==
  /\ "delete" \in Events /\ status[m] # "none"
  /\ deleted' = [deleted EXCEPT ![m] = TRUE]
  /\ UNCHANGED <<status, extId, unqueued, jobVars, lock, wk, aged, sends, faults>>

\* A status webhook of the channel about a message it took: late, repeated or
\* overtaken by another.  It is dropped while no row has the external id.
\* A status without a name here is stored as sent.
\* Mutant: it is stored as it came.
MutApplyStatus(m, s) ==
  /\ "status" \in Events /\ sends[m] > 0
  /\ extId[m] \/ m \in Bridge
  /\ status' = [status EXCEPT ![m] = IF s = "sent" THEN "played" ELSE s]
  /\ UNCHANGED <<deleted, extId, unqueued, jobVars, lock, wk, aged, sends, faults>>

ApplyStatus(m, s) ==
  /\ "status" \in Events /\ sends[m] > 0
  /\ extId[m] \/ m \in Bridge
  /\ status' = [status EXCEPT ![m] = s]
  /\ UNCHANGED <<deleted, extId, unqueued, jobVars, lock, wk, aged, sends, faults>>

\* PATCH /messages/:id/status, with or without an external id.  The status may
\* be any text, pending ("repend") as well.
UpdateMessageStatus(m, s) ==
  /\ "patch" \in Events /\ status[m] # "none"
  /\ s = "pending" => "repend" \in Events
  /\ status' = [status EXCEPT ![m] = s]
  /\ \E known \in BOOLEAN : extId' = [extId EXCEPT ![m] = @ \/ known]
  /\ UNCHANGED <<deleted, unqueued, jobVars, lock, wk, aged, sends, faults>>

-----------------------------------------------------------------------------
(* The outbound job. *)

Take(w, m, again) ==
  /\ At(w, "idle") /\ waiting[m][again] > 0
  /\ waiting' = [waiting EXCEPT ![m][again] = @ - 1]
  /\ wk' = [wk EXCEPT ![w] = [pc |-> "read", m |-> m, again |-> again,
                              held |-> FALSE, own |-> TRUE]]
  /\ UNCHANGED <<msgVars, orphan, replayed, lock, aged, sends, faults>>

\* 'message_deleted', 'message_status_...': nothing to do.
ReadMessage(w) ==
  LET m == wk[w].m IN
  /\ At(w, "read")
  /\ Goto(w, IF deleted[m] \/ status[m] # "pending" THEN "release" ELSE "first")
  /\ UNCHANGED <<msgVars, jobVars, lock, aged, sends, faults>>

Pending(c) == {n \in Msg : ConvOf[n] = c /\ status[n] = "pending" /\ ~deleted[n]}

\* isNextPendingOutboundMessage: m is the earliest pending message of its
\* conversation, or there is none.
\* Mutant: any pending message may go.
MutIsNext(m) == m = m
IsNext(m) ==
  LET P == Pending(ConvOf[m]) IN P = {} \/ (m \in P /\ \A n \in P : m <= n)

FirstCheck(w) ==
  /\ At(w, "first")
  /\ Goto(w, IF IsNext(wk[w].m) THEN "wait" ELSE "requeue")
  /\ UNCHANGED <<msgVars, jobVars, lock, aged, sends, faults>>

\* waitForOutboundConversationLock
\* Mutant: SET without NX.
MutAcquire(w) ==
  /\ At(w, "wait")
  /\ lock' = [lock EXCEPT ![ConvOf[wk[w].m]] = w]
  /\ wk' = [wk EXCEPT ![w].pc = "second", ![w].held = TRUE]
  /\ UNCHANGED <<msgVars, jobVars, aged, sends, faults>>

Acquire(w) ==
  /\ At(w, "wait") /\ LockOf(w) = Free
  /\ lock' = [lock EXCEPT ![ConvOf[wk[w].m]] = w]
  /\ wk' = [wk EXCEPT ![w].pc = "second", ![w].held = TRUE]
  /\ UNCHANGED <<msgVars, jobVars, aged, sends, faults>>

\* The lock is not free in time, or the message has been dealt with.
GiveUp(w) ==
  /\ At(w, "wait") /\ LockOf(w) # Free
  /\ Goto(w, IF status[wk[w].m] # "pending" THEN "release" ELSE "requeue")
  /\ UNCHANGED <<msgVars, jobVars, lock, aged, sends, faults>>

SecondCheck(w) ==
  /\ At(w, "second")
  /\ Goto(w, IF IsNext(wk[w].m) THEN "reload" ELSE "requeue")
  /\ UNCHANGED <<msgVars, jobVars, lock, aged, sends, faults>>

Reload(w) ==
  /\ At(w, "reload")
  /\ Goto(w, IF status[wk[w].m] # "pending" THEN "release" ELSE "send")
  /\ UNCHANGED <<msgVars, jobVars, lock, aged, sends, faults>>

\* The provider takes the message; the answer may be lost.
Send(w) ==
  /\ At(w, "send")
  /\ sends' = [sends EXCEPT ![wk[w].m] = @ + 1]
  /\ \/ Goto(w, "commit")
     \/ "error" \in Events /\ Goto(w, "throw")
  /\ UNCHANGED <<msgVars, jobVars, lock, aged, faults>>

\* The transaction that marks the message sent, whatever its status is now.
\* Not every provider answers with an external id.
Commit(w) ==
  LET m == wk[w].m IN
  /\ At(w, "commit")
  /\ status' = [status EXCEPT ![m] = "sent"]
  /\ \E known \in BOOLEAN : extId' = [extId EXCEPT ![m] = known]
  /\ Goto(w, "release")
  /\ UNCHANGED <<deleted, unqueued, jobVars, lock, aged, sends, faults>>

\* requeueOutboundMessage: a delayed job, or the one that another job of the
\* message has added in the same time bucket.
\* Mutant: the deferred job is forgotten.
MutRequeue(w) ==
  /\ At(w, "requeue")
  /\ Goto(w, "release")
  /\ UNCHANGED <<msgVars, jobVars, lock, aged, sends, faults>>

Requeue(w) ==
  /\ At(w, "requeue")
  /\ \/ waiting' = [waiting EXCEPT ![wk[w].m][FALSE] = @ + 1]
     \/ waiting[wk[w].m][FALSE] > 0 /\ UNCHANGED waiting
  /\ Goto(w, "release")
  /\ UNCHANGED <<msgVars, orphan, replayed, lock, aged, sends, faults>>

\* finally: the lock is deleted if it still holds the worker's token.  A failure
\* to delete it is swallowed and leaves it to expire.
ReleaseLock(w) ==
  \/ /\ wk[w].held /\ LockOf(w) = w
     /\ lock' = [lock EXCEPT ![ConvOf[wk[w].m]] = Free]
  \/ /\ wk[w].held /\ LockOf(w) = w => "error" \in Events
     /\ UNCHANGED lock

\* The job ends.
Release(w) ==
  /\ At(w, "release")
  /\ ReleaseLock(w)
  /\ wk' = [wk EXCEPT ![w] = Idle]
  /\ UNCHANGED <<msgVars, jobVars, aged, sends, faults>>

\* Any step may throw: a query, Redis, the provider, a missing recipient.
Throw(w) ==
  /\ "error" \in Events
  /\ wk[w].pc \in {"read", "first", "wait", "second", "reload", "send", "commit", "requeue"}
  /\ Goto(w, "throw")
  /\ UNCHANGED <<msgVars, jobVars, lock, aged, sends, faults>>

Unwind(w) ==
  /\ At(w, "throw")
  /\ ReleaseLock(w)
  /\ wk' = [wk EXCEPT ![w].pc = "failing", ![w].held = FALSE]
  /\ UNCHANGED <<msgVars, jobVars, aged, sends, faults>>

\* catch: the message is marked failed, whatever its status is now, and the
\* job fails.  It is not tried again: jobs have one attempt.
\* Mutant: a failed job is tried again.
MutMarkFailed(w) ==
  /\ At(w, "failing")
  /\ waiting' = [waiting EXCEPT ![wk[w].m][FALSE] = @ + 1]
  /\ wk' = [wk EXCEPT ![w] = Idle]
  /\ UNCHANGED <<msgVars, orphan, replayed, lock, aged, sends, faults>>

MarkFailed(w) ==
  /\ At(w, "failing")
  /\ \/ status' = [status EXCEPT ![wk[w].m] = "failed"]
     \/ "mark_error" \in Events /\ UNCHANGED status
  /\ wk' = [wk EXCEPT ![w] = Idle]
  /\ UNCHANGED <<deleted, extId, unqueued, jobVars, lock, aged, sends, faults>>

-----------------------------------------------------------------------------
(* Worker processes, the queue and the lock. *)

Drop(w) == IF wk[w].own THEN [orphan EXCEPT ![wk[w].m][wk[w].again] = @ + 1] ELSE orphan

Crash(w) ==
  /\ "crash" \in Events /\ faults < MaxFault /\ ~At(w, "down")
  /\ faults' = faults + 1
  /\ orphan' = Drop(w)
  /\ wk' = [wk EXCEPT ![w] = Down]
  /\ UNCHANGED <<msgVars, waiting, replayed, lock, aged, sends>>

\* replayPendingOutboundMessages, in order of creation: those older than 15
\* seconds, up to n if an error ends it there.  An id the queue still knows, of
\* a job that has ended as well (removeOnComplete, removeOnFail), is not added
\* again.
Boot(w, n) ==
  LET again == {m \in 1..n : status[m] = "pending" /\ ~deleted[m]} \ replayed IN
  /\ At(w, "down")
  /\ n <= aged /\ (n < aged => "error" \in Events)
  /\ waiting' = [m \in Msg |-> IF m \in again THEN [waiting[m] EXCEPT ![FALSE] = @ + 1]
                              ELSE waiting[m]]
  /\ replayed' = replayed \union again
  /\ wk' = [wk EXCEPT ![w] = Idle]
  /\ UNCHANGED <<msgVars, orphan, lock, aged, sends, faults>>

Age ==
  /\ aged < NMsg /\ status[aged + 1] # "none"
  /\ aged' = aged + 1
  /\ UNCHANGED <<msgVars, jobVars, lock, wk, sends, faults>>

\* External: BullMQ hands a job out again when its worker has not been heard
\* of for 30 seconds, and fails it the second time (maxStalledCount 1).
Stall(m, again) ==
  /\ orphan[m][again] > 0 /\ m <= aged
  /\ orphan' = [orphan EXCEPT ![m][again] = @ - 1]
  /\ waiting' = IF again THEN waiting ELSE [waiting EXCEPT ![m][TRUE] = @ + 1]
  /\ UNCHANGED <<msgVars, replayed, lock, wk, aged, sends, faults>>

\* External: a worker is not heard of for a while and goes on.
LoseJob(w) ==
  /\ "job_lost" \in Events /\ faults < MaxFault /\ wk[w].own
  /\ faults' = faults + 1
  /\ orphan' = Drop(w)
  /\ wk' = [wk EXCEPT ![w].own = FALSE]
  /\ UNCHANGED <<msgVars, waiting, replayed, lock, aged, sends>>

\* The lock's time to live.  The holder renews it, unless it is cut off from
\* Redis for longer than that.
Holds(w, c) == wk[w].held /\ ConvOf[wk[w].m] = c

Expire(c) ==
  /\ lock[c] # Free
  /\ ~Holds(lock[c], c) \/ "lock_expiry" \in Events
  /\ lock' = [lock EXCEPT ![c] = Free]
  /\ UNCHANGED <<msgVars, jobVars, wk, aged, sends, faults>>

-----------------------------------------------------------------------------
Step(w) ==
  \/ ReadMessage(w) \/ FirstCheck(w) \/ Acquire(w) \/ GiveUp(w) \/ SecondCheck(w)
  \/ Reload(w) \/ Send(w) \/ Commit(w) \/ Requeue(w) \/ Release(w) \/ Unwind(w)
  \/ MarkFailed(w)

Next ==
  \/ \E m \in Msg : SendMessage(m) \/ Enqueue(m) \/ SenderFails(m) \/ DeleteMessage(m)
  \/ \E m \in Msg, s \in Reports : ApplyStatus(m, s)
  \/ \E m \in Msg, s \in Reports \union {"pending"} : UpdateMessageStatus(m, s)
  \/ \E w \in Worker, m \in Msg, b \in BOOLEAN : Take(w, m, b)
  \/ \E m \in Msg, b \in BOOLEAN : Stall(m, b)
  \/ \E w \in Worker : Step(w) \/ Throw(w) \/ Crash(w) \/ LoseJob(w)
  \/ \E w \in Worker, n \in 0..NMsg : Boot(w, n)
  \/ \E c \in Conv : Expire(c)
  \/ Age

Spec == Init /\ [][Next]_vars

(* Fairness: a worker that runs goes on, one that stopped is restarted and  *)
(* replays what is old enough, the queue serves every job in its turn and   *)
(* takes back the jobs of workers that are gone, a lock nobody renews       *)
(* expires, a sender goes on to its enqueue.                                *)
Fairness ==
  /\ \A w \in Worker : WF_vars(Step(w)) /\ WF_vars(Boot(w, aged))
  /\ \A m \in Msg : SF_vars(\E w \in Worker, b \in BOOLEAN : Take(w, m, b))
  /\ WF_vars(\E m \in Msg, b \in BOOLEAN : Stall(m, b))
  /\ \A c \in Conv : WF_vars(Expire(c))
  /\ WF_vars(\E m \in Msg : Enqueue(m))
  /\ WF_vars(Age)

FairSpec == Spec /\ Fairness

-----------------------------------------------------------------------------
TypeOK ==
  /\ status \in [Msg -> Status]
  /\ deleted \in [Msg -> BOOLEAN]
  /\ extId \in [Msg -> BOOLEAN]
  /\ unqueued \subseteq Msg
  /\ waiting \in [Msg -> [BOOLEAN -> Nat]]
  /\ orphan \in [Msg -> [BOOLEAN -> Nat]]
  /\ replayed \subseteq Msg
  /\ lock \in [Conv -> Worker \union {Free}]
  /\ wk \in [Worker -> WorkerState]
  /\ sends \in [Msg -> Nat]
  /\ aged \in 0..NMsg
  /\ faults \in 0..MaxFault

\* The provider gets the messages of a conversation in the order of created_at
\* ('waiting_previous_message'), whatever stops or fails: once a later message
\* has gone out, no earlier one is sent, or sent again.  (A deleted message may
\* be: the look at a message that follows the lock asks for its status only.)
InOrder ==
  [][\A m, n \in Msg :
       (m < n /\ ConvOf[m] = ConvOf[n] /\ sends[n] > 0 /\ ~deleted[m])
         => sends'[m] = sends[m]]_vars

\* A message that has several jobs (deferred, handed out again, replayed) is
\* sent once, while no worker stops, no answer is lost and no lock expires,
\* whatever statuses arrive meanwhile.
SentOnce == \A m \in Msg : sends[m] <= 1

\* Whatever fails, a message is not sent over and over: no more often than it
\* has been enqueued, replayed and handed out again.
SendsBounded ==
  \A m \in Msg : sends[m] <= 1 + Cardinality({m} \intersect replayed) + faults

\* A pending message is on its way: its sender is about to enqueue it, a job of
\* it is in the queue, or a worker is at it.
Covered(m) ==
  \/ m \in unqueued
  \/ waiting[m][FALSE] + waiting[m][TRUE] + orphan[m][FALSE] > 0
  \/ \E w \in Worker : wk[w].m = m

\* No message is forgotten by the jobs that defer it, however often workers
\* lose their jobs to others.
PendingCovered == \A m \in Msg : status[m] = "pending" /\ ~deleted[m] => Covered(m)

\* Every message leaves pending (sent or failed), unless it is deleted: as NMsg
\* messages are all there are, a time comes when none is pending.
Settled(m) == status[m] # "pending" \/ deleted[m]
PendingSettles == (\E m \in Msg : ~Settled(m)) ~> (\A m \in Msg : Settled(m))
=============================================================================
