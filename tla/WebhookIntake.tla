---------------------------- MODULE WebhookIntake ----------------------------
(***************************************************************************)
(* What the messaging channels post to OpenCRM.  The API keeps each        *)
(* notification as a row of webhook_events and enqueues a job for it       *)
(* (modules/webhook/service.ts); a worker process handles several jobs at  *)
(* a time: it stores the messages of the notification, every one in its    *)
(* contact's conversation, and settles the event's row.  Events that       *)
(* failed are claimed and enqueued again every minute, events still        *)
(* pending when a worker process boots (workers/index.ts).                 *)
(*                                                                         *)
(* A channel repeats a notification until it is answered, so two events    *)
(* may carry the same message.  BullMQ (external) runs a job again that    *)
(* threw, as often as its attempts allow, and once more when its worker    *)
(* is gone; it ignores an add under a job id it knows.                     *)
(***************************************************************************)
EXTENDS Integers, Sequences, FiniteSets

CONSTANTS
  Event,        \* rows of webhook_events
  Msg,          \* external ids of messages
  Contact,      \* senders
  Batch,        \* the messages of a notification, in its order
  SenderOf,     \* the sender of a message
  Known,        \* events of a channel that exists
  Conv,         \* ids for conversations
  Handler,      \* jobs the worker process may run at a time
  Loop,         \* runs of the retry: at boot and of the minute's job
  MaxRetries,   \* WEBHOOK_MAX_RETRIES
  Attempts,     \* WEBHOOK_JOB_ATTEMPTS
  ReplayTries,  \* WEBHOOK_REPLAY_JOB_ATTEMPTS
  None,         \* no event, no contact, no job
  Faults,       \* what may go wrong or come from outside in this instance
  MaxFault      \* bound on how many of them do, each at most once

FaultKind == {"lookup", "message", "settle", "crash", "api_crash", "resolve", "delete",
              "forget"}

ASSUME IntakeAssumption ==
  /\ Batch \in [Event -> Seq(Msg)] /\ \A e \in Event : Len(Batch[e]) > 0
  /\ SenderOf \in [Msg -> Contact]
  /\ Known \subseteq Event
  /\ MaxRetries \in Nat /\ Attempts \in Nat \ {0} /\ ReplayTries \in Nat \ {0}
  /\ Faults \subseteq FaultKind /\ MaxFault \in Nat
  /\ None \notin Event \union Contact \union Msg \union Conv

\* A job id names its event and why it was added: webhook-<id>,
\* webhook-replay-<id>, webhook-retry-<id>-r<n>-<time>; the time is left out, as
\* an event is claimed once per count.
First(e)      == <<e, "first", 0>>
Replayed(e)   == <<e, "replay", 0>>
Retried(e, n) == <<e, "retry", n>>

JobId == UNION {{First(e), Replayed(e)} \union {Retried(e, n) : n \in 1..MaxRetries} :
                  e \in Event}
NoJob   == <<None, "none", 0>>
NoClaim == <<None, 0>>

VARIABLES
  status,    \* webhook_events.status
  retries,   \* webhook_events.retry_count
  unqueued,  \* events whose row is created and whose job is not added yet
  job,       \* what BullMQ has of a job id
  tries,     \* attempts of a job that threw
  stalled,   \* jobs that were handed out again because their worker was gone
  known,     \* contacts with a row
  conv,      \* conversations: contact and whether it is open
  live,      \* rows of messages with this external id and no deleted_at
  stored,    \* rows of messages with this external id ever created
  hd,        \* what each handler does
  up,        \* the worker process runs
  replaying, \* events the replay at boot has still to enqueue
  cand,      \* events a retry has read as failed, with the count it has read
  claimed,   \* the event a retry has claimed and not enqueued yet
  faults     \* those that happened so far

evVars   == <<status, retries, unqueued>>
jobVars  == <<job, tries, stalled>>
dataVars == <<known, conv, live, stored>>
loopVars == <<replaying, cand, claimed>>
vars     == <<evVars, jobVars, dataVars, loopVars, hd, up, faults>>

EventStatus == {"none", "pending", "processed", "failed"}
JobState    == {"none", "waiting", "active", "orphan", "kept"}
ConvState   == {"none", "open", "resolved"}
Steps       == {"idle", "lookup", "contact", "newcontact", "conv", "newconv", "lock",
                "insert", "settle"}

IdleHandler == [pc |-> "idle", job |-> NoJob, at |-> 1, conv |-> None,
                taken |-> 0, errors |-> 0, thrown |-> FALSE]

TypeOK ==
  /\ status \in [Event -> EventStatus]
  /\ retries \in [Event -> Nat]
  /\ unqueued \subseteq Event
  /\ job \in [JobId -> JobState]
  /\ tries \in [JobId -> Nat]
  /\ stalled \subseteq JobId
  /\ known \subseteq Contact
  /\ conv \in [Conv -> [of : Contact \union {None}, st : ConvState]]
  /\ live \in [Msg -> Nat] /\ stored \in [Msg -> Nat]
  /\ hd \in [Handler -> [pc : Steps, job : JobId \union {NoJob}, at : Nat \ {0},
                         conv : Conv \union {None}, taken : Nat, errors : Nat,
                         thrown : BOOLEAN]]
  /\ up \in BOOLEAN
  /\ replaying \subseteq Event
  /\ cand \in [Loop -> SUBSET (Event \X Nat)]
  /\ claimed \in [Loop -> (Event \X Nat) \union {NoClaim}]
  /\ faults \subseteq Faults

Init ==
  /\ status = [e \in Event |-> "none"]
  /\ retries = [e \in Event |-> 0]
  /\ unqueued = {}
  /\ job = [j \in JobId |-> "none"]
  /\ tries = [j \in JobId |-> 0]
  /\ stalled = {}
  /\ known = {}
  /\ conv = [k \in Conv |-> [of |-> None, st |-> "none"]]
  /\ live = [m \in Msg |-> 0]
  /\ stored = [m \in Msg |-> 0]
  /\ hd = [h \in Handler |-> IdleHandler]
  /\ up = TRUE
  /\ replaying = {}
  /\ cand = [l \in Loop |-> {}]
  /\ claimed = [l \in Loop |-> NoClaim]
  /\ faults = {}

Fault(f) ==
  /\ f \in Faults \ faults
  /\ Cardinality(faults) < MaxFault
  /\ faults' = faults \union {f}

\* webhookQueue.add: nothing happens under an id the queue knows.
Add(j) == job' = [job EXCEPT ![j] = IF @ = "none" THEN "waiting" ELSE @]

AttemptsOf(j) == IF j[2] = "first" THEN Attempts ELSE ReplayTries

-----------------------------------------------------------------------------
\* The API: processWhatsAppPayload and its two siblings.

\* The row is created.
Receive(e) ==
  /\ status[e] = "none"
  /\ status' = [status EXCEPT ![e] = "pending"]
  /\ unqueued' = unqueued \union {e}
  /\ UNCHANGED <<retries, jobVars, dataVars, loopVars, hd, up, faults>>

\* The job is added, and the channel gets its answer.
Enqueue(e) ==
  /\ e \in unqueued
  /\ unqueued' = unqueued \ {e}
  /\ Add(First(e))
  /\ UNCHANGED <<status, retries, tries, stalled, dataVars, loopVars, hd, up, faults>>

\* The API stops in between, or Redis does not answer.
ApiFails(e) ==
  /\ Fault("api_crash")
  /\ e \in unqueued
  /\ unqueued' = unqueued \ {e}
  /\ UNCHANGED <<status, retries, jobVars, dataVars, loopVars, hd, up>>

-----------------------------------------------------------------------------
\* The handler of a job: handleWhatsAppInbound, and the like for the other
\* channels.

EventAt(h) == hd[h].job[1]
MsgAt(h)   == Batch[EventAt(h)][hd[h].at]
Sender(h)  == SenderOf[MsgAt(h)]

Take(h, j) ==
  /\ up /\ hd[h].pc = "idle" /\ job[j] = "waiting"
  /\ job' = [job EXCEPT ![j] = "active"]
  /\ hd' = [hd EXCEPT ![h] = [IdleHandler EXCEPT !.pc = "lookup", !.job = j]]
  /\ UNCHANGED <<evVars, tries, stalled, dataVars, loopVars, up, faults>>

\* The channel is looked up; messages of an unknown one are passed over.
Lookup(h) ==
  /\ hd[h].pc = "lookup"
  /\ hd' = [hd EXCEPT ![h].pc = IF EventAt(h) \in Known THEN "contact" ELSE "settle"]
  /\ UNCHANGED <<evVars, jobVars, dataVars, loopVars, up, faults>>

\* The lookup throws: the finally block still settles the event.
LookupFails(h) ==
  /\ Fault("lookup")
  /\ hd[h].pc = "lookup"
  /\ hd' = [hd EXCEPT ![h].pc = "settle", ![h].thrown = TRUE]
  /\ UNCHANGED <<evVars, jobVars, dataVars, loopVars, up>>

\* The next message of the batch, after this one came to its end.
After(h, ok) ==
  LET last == hd[h].at = Len(Batch[EventAt(h)])
  IN  [hd[h] EXCEPT !.pc = IF last THEN "settle" ELSE "contact",
                    !.at = IF last THEN @ ELSE @ + 1,
                    !.conv = None,
                    !.taken = IF ok THEN @ + 1 ELSE @,
                    !.errors = IF ok THEN @ ELSE @ + 1]

\* A statement for a message throws: the error is counted, the rest of the
\* batch goes on.
MessageFails(h) ==
  /\ Fault("message")
  /\ hd[h].pc \in {"contact", "newcontact", "conv", "newconv", "lock", "insert"}
  /\ hd' = [hd EXCEPT ![h] = After(h, FALSE)]
  /\ UNCHANGED <<evVars, jobVars, dataVars, loopVars, up>>

FindContact(h) ==
  /\ hd[h].pc = "contact"
  /\ hd' = [hd EXCEPT ![h].pc = IF Sender(h) \in known THEN "conv" ELSE "newcontact"]
  /\ UNCHANGED <<evVars, jobVars, dataVars, loopVars, up, faults>>

\* contacts.identifier is unique: who comes second gets an error.
CreateContact(h) ==
  /\ hd[h].pc = "newcontact"
  /\ IF Sender(h) \in known
     THEN /\ hd' = [hd EXCEPT ![h] = After(h, FALSE)]
          /\ UNCHANGED known
     ELSE /\ hd' = [hd EXCEPT ![h].pc = "conv"]
          /\ known' = known \union {Sender(h)}
  /\ UNCHANGED <<evVars, jobVars, conv, live, stored, loopVars, up, faults>>

OpenOf(c) == {k \in Conv : conv[k] = [of |-> c, st |-> "open"]}

\* A conversation that is not resolved is used again.
FindConversation(h) ==
  /\ hd[h].pc = "conv"
  /\ IF OpenOf(Sender(h)) = {}
     THEN hd' = [hd EXCEPT ![h].pc = "newconv"]
     ELSE \E k \in OpenOf(Sender(h)) :
            hd' = [hd EXCEPT ![h].pc = "lock", ![h].conv = k]
  /\ UNCHANGED <<evVars, jobVars, dataVars, loopVars, up, faults>>

CreateConversation(h) ==
  /\ hd[h].pc = "newconv"
  /\ \E k \in Conv :
       /\ conv[k].st = "none"
       /\ conv' = [conv EXCEPT ![k] = [of |-> Sender(h), st |-> "open"]]
       /\ hd' = [hd EXCEPT ![h].pc = "lock", ![h].conv = k]
  /\ UNCHANGED <<evVars, jobVars, known, live, stored, loopVars, up, faults>>

\* The transaction takes the advisory lock of the external id, which it holds
\* to its end, and looks for a row.
LockFree(m, h) == \A g \in Handler \ {h} : ~(hd[g].pc = "insert" /\ MsgAt(g) = m)

\* A lookup that takes no lock.
MutLockAndLook(h) ==
  /\ hd[h].pc = "lock"
  /\ hd' = [hd EXCEPT ![h] = IF live[MsgAt(h)] > 0
                             THEN After(h, TRUE)
                             ELSE [@ EXCEPT !.pc = "insert"]]
  /\ UNCHANGED <<evVars, jobVars, dataVars, loopVars, up, faults>>

LockAndLook(h) ==
  /\ hd[h].pc = "lock"
  /\ LockFree(MsgAt(h), h)
  /\ hd' = [hd EXCEPT ![h] = IF live[MsgAt(h)] > 0
                             THEN After(h, TRUE)
                             ELSE [@ EXCEPT !.pc = "insert"]]
  /\ UNCHANGED <<evVars, jobVars, dataVars, loopVars, up, faults>>

\* The row is created, the conversation is open; the transaction commits.
Insert(h) ==
  /\ hd[h].pc = "insert"
  /\ live' = [live EXCEPT ![MsgAt(h)] = @ + 1]
  /\ stored' = [stored EXCEPT ![MsgAt(h)] = @ + 1]
  /\ conv' = [conv EXCEPT ![hd[h].conv].st = "open"]
  /\ hd' = [hd EXCEPT ![h] = After(h, TRUE)]
  /\ UNCHANGED <<evVars, jobVars, known, loopVars, up, faults>>

\* What becomes of the job: done, or thrown and perhaps tried again.
Ended(j, threw) ==
  /\ tries' = IF threw THEN [tries EXCEPT ![j] = @ + 1] ELSE tries
  /\ job' = [job EXCEPT ![j] = IF threw /\ tries[j] + 1 < AttemptsOf(j) THEN "waiting"
                                                                       ELSE "kept"]

\* Every event that was gone through is processed.
MutSettle(h) ==
  /\ hd[h].pc = "settle"
  /\ status' = [status EXCEPT ![EventAt(h)] = "processed"]
  /\ Ended(hd[h].job, hd[h].thrown)
  /\ hd' = [hd EXCEPT ![h] = IdleHandler]
  /\ UNCHANGED <<retries, unqueued, stalled, dataVars, loopVars, up, faults>>

\* The finally block settles the event's row: failed when nothing of it was
\* taken and something went wrong.  An exception of the batch goes on from here.
Settle(h) ==
  LET e    == EventAt(h)
      fail == hd[h].errors > 0 /\ hd[h].taken = 0
  IN  /\ hd[h].pc = "settle"
      /\ status' = [status EXCEPT ![e] = IF fail THEN "failed" ELSE "processed"]
      /\ retries' = [retries EXCEPT ![e] = IF fail THEN @ + 1 ELSE @]
      /\ Ended(hd[h].job, hd[h].thrown)
      /\ hd' = [hd EXCEPT ![h] = IdleHandler]
      /\ UNCHANGED <<unqueued, stalled, dataVars, loopVars, up, faults>>

\* The update of the row throws.
SettleFails(h) ==
  /\ Fault("settle")
  /\ hd[h].pc = "settle"
  /\ Ended(hd[h].job, TRUE)
  /\ hd' = [hd EXCEPT ![h] = IdleHandler]
  /\ UNCHANGED <<evVars, stalled, dataVars, loopVars, up>>

-----------------------------------------------------------------------------
\* The worker process stops and boots.

Crash ==
  /\ Fault("crash")
  /\ up /\ up' = FALSE
  /\ job' = [j \in JobId |-> IF job[j] = "active" THEN "orphan" ELSE job[j]]
  /\ hd' = [h \in Handler |-> IdleHandler]
  /\ replaying' = {}
  /\ cand' = [l \in Loop |-> {}]
  /\ claimed' = [l \in Loop |-> NoClaim]
  /\ UNCHANGED <<evVars, tries, stalled, dataVars>>

\* A boot that leaves the pending events to the jobs they had.
MutBoot ==
  /\ ~up /\ up' = TRUE
  /\ UNCHANGED <<evVars, jobVars, dataVars, loopVars, hd, faults>>

\* replayPendingWebhookEvents reads the pending events.
Boot ==
  /\ ~up /\ up' = TRUE
  /\ replaying' = {e \in Event : status[e] = "pending"}
  /\ UNCHANGED <<evVars, jobVars, dataVars, cand, claimed, hd, faults>>

ReplayPending(e) ==
  /\ e \in replaying
  /\ replaying' = replaying \ {e}
  /\ Add(Replayed(e))
  /\ UNCHANGED <<evVars, tries, stalled, dataVars, cand, claimed, hd, up, faults>>

\* BullMQ finds a job whose worker is gone: once it may run again.
Recover(j) ==
  /\ up /\ job[j] = "orphan"
  /\ job' = [job EXCEPT ![j] = IF j \in stalled THEN "kept" ELSE "waiting"]
  /\ stalled' = stalled \union {j}
  /\ UNCHANGED <<evVars, tries, dataVars, loopVars, hd, up, faults>>

\* BullMQ keeps the ids of its last 2000 jobs only.
Forget(j) ==
  /\ Fault("forget")
  /\ job[j] = "kept"
  /\ job' = [job EXCEPT ![j] = "none"]
  /\ tries' = [tries EXCEPT ![j] = 0]
  /\ stalled' = stalled \ {j}
  /\ UNCHANGED <<evVars, dataVars, loopVars, hd, up>>

-----------------------------------------------------------------------------
\* replayRetryableFailedWebhookEvents: at boot and every minute.

Retryable == {e \in Event : status[e] = "failed" /\ retries[e] < MaxRetries}

RetryRead(l) ==
  /\ up /\ cand[l] = {} /\ claimed[l] = NoClaim
  /\ Retryable # {}
  /\ cand' = [cand EXCEPT ![l] = {<<e, retries[e]>> : e \in Retryable}]
  /\ UNCHANGED <<evVars, jobVars, dataVars, replaying, claimed, hd, up, faults>>

\* A claim whatever became of the event since it was read.
MutRetryClaim(l, e, n) ==
  /\ <<e, n>> \in cand[l] /\ claimed[l] = NoClaim
  /\ cand' = [cand EXCEPT ![l] = @ \ {<<e, n>>}]
  /\ status' = [status EXCEPT ![e] = "pending"]
  /\ claimed' = [claimed EXCEPT ![l] = <<e, n>>]
  /\ UNCHANGED <<retries, unqueued, jobVars, dataVars, replaying, hd, up, faults>>

\* Claims the event if it is still as it was read.
RetryClaim(l, e, n) ==
  /\ <<e, n>> \in cand[l] /\ claimed[l] = NoClaim
  /\ cand' = [cand EXCEPT ![l] = @ \ {<<e, n>>}]
  /\ IF status[e] = "failed" /\ retries[e] = n
     THEN /\ status' = [status EXCEPT ![e] = "pending"]
          /\ claimed' = [claimed EXCEPT ![l] = <<e, n>>]
     ELSE UNCHANGED <<status, claimed>>
  /\ UNCHANGED <<retries, unqueued, jobVars, dataVars, replaying, hd, up, faults>>

RetryAdd(l) ==
  /\ claimed[l] # NoClaim
  /\ Add(Retried(claimed[l][1], claimed[l][2] + 1))
  /\ claimed' = [claimed EXCEPT ![l] = NoClaim]
  /\ UNCHANGED <<evVars, tries, stalled, dataVars, replaying, cand, hd, up, faults>>

-----------------------------------------------------------------------------
\* Others: an agent resolves a conversation (updateStatus), a message is
\* deleted (deleteMessage).

Resolve(k) ==
  /\ Fault("resolve")
  /\ conv[k].st = "open"
  /\ conv' = [conv EXCEPT ![k].st = "resolved"]
  /\ UNCHANGED <<evVars, jobVars, known, live, stored, loopVars, hd, up>>

\* A message deleted again.
MutDelete(m) ==
  /\ Fault("delete")
  /\ live' = [live EXCEPT ![m] = @ - 1]
  /\ UNCHANGED <<evVars, jobVars, known, conv, stored, loopVars, hd, up>>

Delete(m) ==
  /\ Fault("delete")
  /\ live[m] > 0
  /\ live' = [live EXCEPT ![m] = @ - 1]
  /\ UNCHANGED <<evVars, jobVars, known, conv, stored, loopVars, hd, up>>

-----------------------------------------------------------------------------
Handle(h) ==
  \/ \E j \in JobId : Take(h, j)
  \/ Lookup(h) \/ FindContact(h) \/ CreateContact(h) \/ FindConversation(h)
  \/ CreateConversation(h) \/ LockAndLook(h) \/ Insert(h) \/ Settle(h)

HandlerFails(h) == LookupFails(h) \/ MessageFails(h) \/ SettleFails(h)

RetryFailed(l) ==
  \/ RetryRead(l)
  \/ \E e \in Event, n \in 0..MaxRetries : RetryClaim(l, e, n)
  \/ RetryAdd(l)

Next ==
  \/ \E e \in Event : Receive(e) \/ Enqueue(e) \/ ApiFails(e) \/ ReplayPending(e)
  \/ \E h \in Handler : Handle(h) \/ HandlerFails(h)
  \/ \E j \in JobId : Recover(j) \/ Forget(j)
  \/ \E l \in Loop : RetryFailed(l)
  \/ \E k \in Conv : Resolve(k)
  \/ \E m \in Msg : Delete(m)
  \/ Crash \/ Boot

Spec == Init /\ [][Next]_vars

\* What goes on by itself: the API's call that has begun, the handlers of a
\* running worker, BullMQ's look for stalled jobs, the replay and the minute's
\* retry, and the process manager that boots the worker again.
FairSpec ==
  /\ Spec
  /\ \A e \in Event : WF_vars(Enqueue(e)) /\ WF_vars(ReplayPending(e))
  /\ \A h \in Handler : WF_vars(Handle(h))
  /\ \A j \in JobId : WF_vars(Recover(j))
  /\ \A l \in Loop : WF_vars(RetryFailed(l))
  /\ WF_vars(Boot)

-----------------------------------------------------------------------------
\* A message is in the inbox once, however often and however concurrently the
\* channel delivers it and the jobs run: the advisory lock of its external id
\* and the lookup under it (webhook/service.ts, storeNormalizedWhatsAppInboundMessage).
StoredOnce == \A m \in Msg : live[m] <= 1

\* A job that is still to do something.
Alive(j) == job[j] \in {"waiting", "active", "orphan"}

\* No message that comes alone in a notification of a known channel is forgotten: as
\* long as it was never stored, its event is pending or failed, or a job of the event
\* is still to come (an exception of the batch leaves the event processed and the job
\* to be tried again).  Of several messages one may fail and the event still counts as
\* processed.
NotForgotten ==
  \A e \in Known :
    status[e] = "processed" =>
      \/ \A i \in 1..Len(Batch[e]) : stored[Batch[e][i]] > 0
      \/ \E j \in JobId : j[1] = e /\ Alive(j)

\* Two runs of the retry never both claim a failure of an event: its job is
\* added once per failure.
ClaimedOnce ==
  \A l1, l2 \in Loop : l1 # l2 /\ claimed[l1] # NoClaim => claimed[l1] # claimed[l2]

\* An event the API has enqueued is settled in the end: processed, or failed as
\* often as it is retried, although the worker may stop between the claim of a
\* failed event and its job (workers/index.ts, replayRetryableFailedWebhookEvents).
Settled(e) == status[e] = "processed" \/ (status[e] = "failed" /\ retries[e] >= MaxRetries)

EventsSettle == \A e \in Event : job[First(e)] # "none" ~> Settled(e)

=============================================================================
