# OpenCRM in TLA+

Specifications of the backend of OpenCRM (`src/apps/backend`), a multi-channel
CRM: the TLA+ modules translate the code of its services, TLC checks them on
small instances, and TLAPS proves the most important properties for instances
of every size. The code is the reference; where it disagrees with one of its
own error messages, the run of kind *violation* shows how, and section 3 lists
the other disagreements met on the way.

## 1. The system

One Bun process image runs, depending on `APP_MODE`, as an API server (Elysia),
as a BullMQ worker, as a scheduler, or as all of them; several processes of each
kind may run. They share a PostgreSQL database (through Prisma, READ COMMITTED,
few transactions and almost no explicit locks) and a Redis server (BullMQ
queues, a lock per conversation, debounce tokens). Outside are the messaging
channels (WhatsApp Cloud API, a Baileys bridge, Instagram, TikTok), the payment
provider Pakasir, and customers' own webhook receivers.

| Component | Source (under `src/apps/backend/src`) | State it keeps | Operations | Hard behaviour | What makes it correct |
|---|---|---|---|---|---|
| Commerce | `modules/commerce/service.ts`, `modules/webhooks/pakasir.ts` | `orders`, `order_invoices`, `product_variants`, `stock_reservations`, `stock_movements`, Pakasir's `webhook_events` | addToCart, checkoutOrder, sendPaymentLink, cancelOrder, adjustVariantStock, handlePakasirWebhook | checks made before a transaction or a provider call, stock rows read and then overwritten, repeated and concurrent webhooks, failures in the middle | a paid order has a paid, verified invoice and holds no stock; stock is taken once; no oversell |
| Outbound pipeline | `workers/index.ts`, `modules/message/service.ts`, `lib/queue.ts` | `messages.status`, BullMQ jobs, the Redis lock of a conversation | sendMessage, deleteMessage, the outbound job, its requeue, the replay at boot | several workers, crashes between the provider's call and the update, stalled jobs, retained job ids, lock expiry | messages of a conversation go out in order, each once; none stays pending |
| Message status | `modules/webhook/service.ts` (`applyWhatsAppStatus`, `applyBridgeWhatsAppStatus`) | `messages.status`, `message_status_history` | status webhooks of the channel | statuses delayed, repeated, out of order, before the worker has stored the external id | late and lost statuses do no harm to the delivery of the message |
| Webhook intake | `modules/webhook/service.ts`, `workers/index.ts` | inbound `webhook_events`, jobs, incoming `messages`, `conversations.unread_count` | process*Payload, handle*Inbound, the two replays | job lost between insert and enqueue, at-least-once jobs, partial failure of a batch | every accepted message is stored once |
| Auto reply | `modules/webhook/service.ts` (2566-3675) | Redis latest token and burst counter, reply jobs | schedule, debounce, reply, escalate | a newer message while the reply is being generated, retried jobs | a burst of messages gets one answer, which takes in all of it |
| Follow-ups | `modules/chatbot/followup-service.ts` | `additional_attributes.chatbot_followup` of a conversation (a JSON column it shares with hand-over and assignment), delayed jobs | schedule, clear, claim, send, release | claims that go stale, clear racing a dispatch, read-modify-write of the shared column | a rule's follow-up is sent once, and not after the customer has answered |
| Hand-over | `modules/handover/service.ts` | `handover_requests`, `conversations.status`, attributes | request, approve, reject, escalation sweep | status checked and then updated without condition, several supervisors | the conversation shows what became of its latest request; triage only after the escalations |
| Assignment | `modules/conversation` (`service.ts`, `index.ts`, `bulk-service.ts`), `modules/orchestration/service.ts` | `conversations.assignee_id`, `conversation_agents`, history | assignAgent, removal of an agent, bulk edits, executeHandoff | five unguarded writes per assignment | there is a primary agent; the assignee takes part |
| Broadcasts | `modules/broadcast/service.ts`, `workers/index.ts` | `broadcasts`, `broadcast_logs`, jobs | create, send, scheduled dispatch, the broadcast job | crash in the middle of the list, two sends, claim without enqueue | a recipient gets a broadcast once per request; nobody is passed over; it ends |
| Response log | `modules/chatbot/response-log-service.ts` | `ai_response_logs`, retry and analysis jobs | create, retry, analyse | retries | no log lost |
| Knowledge indexing | `modules/knowledge/indexing-service.ts` | documents in the vector store, job chain | change event, sync, purge | out-of-order jobs | the index ends up as the source |
| Baileys runtime | `modules/whatsapp/baileys-runtime.ts` | sockets in memory, session rows | bootstrap, connect, reconnect, send | callbacks of an old socket after a new one | one live socket per channel |
| Business webhooks | `modules/business-webhooks` | configured targets | dispatch | best effort, no retry | - |
| Flow runtime, decision engine | `modules/flow` | flow executions, conversation attributes | executeInbound | large interpreter, LLM calls | - |
| AI, chatbot simulation | `modules/ai`, `modules/chatbot` | prompts, logs | text generation | LLM calls | - |
| CRUD services | customer, contact, label, team, agent, auth, developer-keys, forms, media, metrics, inbox, orders, instagram | their tables | create, read, update, delete | single statements | - |
| scalebiz-compat | `modules/scalebiz-compat` | the same tables under older routes | routes | duplicates other services | - |
| Frontend | `src/apps/frontend` | React state | pages | - | - |

Interactions. Commerce and the flow runtime create messages through
MessageService, whose jobs the outbound worker runs. Channel webhooks are stored
as events, handled by the webhook worker, which stores incoming messages, clears
follow-ups, runs flows and schedules auto replies; these create messages again
and schedule follow-ups. The flow runtime and the auto reply request hand-overs;
an approved hand-over assigns the conversation. Broadcast jobs share the
outbound queue. `conversations.additional_attributes` is read, changed and
written back whole by the hand-over, the follow-ups, the flow runtime and the
AI services.

## 2. Modules

| Module | What it is |
|---|---|
| `Commerce` | the order journey: requests over the database rows and the payment provider |
| `StockLedger` | abstract: what a shop promises about one variant |
| `OrderSettlement` | abstract: how reservations are held and spent by orders, for any interleaving |
| `MCCommerce` | the instances of `Commerce` TLC checks |
| `Commerce_proofs` | requests that overlap: type correctness, the safety theorems, the action property, the implementation of `OrderSettlement` |
| `CommerceSerial_proofs` | one request at a time: stock and reservations agree, no oversell, one message, the implementation of `StockLedger` |
| `OutboundDelivery` | outgoing messages: sender, queue, workers, conversation lock, replay, status webhooks |
| `MCOutboundDelivery` | the instances of `OutboundDelivery` TLC checks |
| `OutboundDelivery_proofs` | type correctness, the lock, order, at most once, none forgotten, sends bounded |
| `WebhookIntake` | notifications of the channels: event row, job, storing of messages, retries |
| `WebhookIntake_proofs` | type correctness, a message stored once, a failure claimed once, none forgotten |
| `AutoReply` | the chatbot's debounced answers in one conversation |
| `AutoReply_proofs` | type correctness, an answer takes in the whole burst, one answer each |
| `Broadcasts` | one broadcast: requests, sweeps, jobs, recipients |
| `FollowUps` | the planned follow-ups of one conversation, in a shared JSON column |
| `FollowUps_proofs` | type correctness, none sent after a message, each sent once |
| `Handover` | hand-over requests, escalation and assignment of one conversation |
| `Handover_proofs` | type correctness, primary agent, assignee, what the queue shows, order of triage |
| `Broadcasts_proofs` | type correctness, once per request, nobody left out |
| `MCWebhookIntake`, `MCAutoReply`, `MCBroadcasts`, `MCFollowUps`, `MCHandover` | the instances TLC checks |

A module has one action per statement (or group of statements without an
`await` that others could notice) of the code. What may go wrong is named: a
constant `Faults` (`Events` in `OutboundDelivery`) says which faults an
instance allows, `MaxFault` how many of them happen, each at most once in the
newer modules. A definition whose name begins with `Mut` is a deliberately
faulty variant of the definition it precedes; it is used by no specification.
`PROJECT.json` names for each property one that it rejects.

How the modules fit together: each is about one part of the database, and
takes what the others do to that part as actions of its own. An answer of
`AutoReply` becomes rows that `OutboundDelivery` sends (the parts of an answer
are its `late_row`); the messages `WebhookIntake` stores are those `AutoReply`
and `FollowUps` begin with (`Store`, `Write`); `Handover`'s read-modify-write of
`additional_attributes` is the other writer in `FollowUps` (`OtherRead`,
`OtherWrite`); `TakeOver` in `AutoReply` is what an assignment does to the bot.
There is no module that runs two of them together: their common state is the
single value each of these actions changes, and the product of two of the
instances is beyond TLC.

### 2.1 Commerce

A *request* (`Req`) is a service call in progress. It is a record: its program
counter, and what it has read so far (order, event, invoice, quantity, active
reservations, stock row, status). The code awaits between its reads, its calls
and its transactions, so each of these is a step: `AddToCart` reads the item,
`AddToCartCommit` writes quantity + 1; `Checkout`, `CheckoutReservations`,
`CheckoutVariant`, `CheckoutCommit`; and so on. The writes of a transaction
become visible together, in its commit step, which is what READ COMMITTED gives
to the other requests. What READ COMMITTED does not give is modelled as well:
the reads of a transaction may be stale when it commits.

Row locks matter in one place: an `UPDATE` holds its row until the transaction
ends. The paid transaction updates the invoice and the order first and reads the
reservations after that, so no other request can commit a write to this order in
between. `OrderFree` and `InvoiceFree` derive these locks from the program
counters. In the other transactions the order's row is the last or the only one
written, and the commit step takes and frees it at once. PostgreSQL may find a
deadlock (variant row and order row are taken in different orders): it aborts a
transaction, which is a `Fail`.

`Fail` ends a request at any step: the process stops, the provider's call or a
statement throws, or the transaction is aborted. Nothing it committed is undone.

The webhook: `delivery` is the provider's own record (a notification that is due
is delivered again until a 200), `row` the `webhook_events` row. Its external id
is the first id the payload has, down to the order id
(`buildWebhookExternalId`): with `FreshIds = FALSE` notifications of one order
may share an id, and then every later one, the one that says PAID as well, finds
the row processed and changes nothing. The provider (external) knows a transaction by the order's id, and PAID is
final. `Chatless` are the orders without a conversation (created through
`modules/scalebiz-compat/index.ts`): no message is sent for them.

Simplifications: one variant, one item per order (quantities 1..`MaxQty`); the
loop over several items repeats the same steps on other rows; amounts, texts and
addresses are left out. The release of reservations is one step with its reads
before it. Reservations have an `expires_at` that no code reads: there is no
action for it.

Abstract specifications: with one request at a time the code implements
`StockLedger` (`LedgerRefinement`); with any number of requests, failing
anywhere, it implements `OrderSettlement` (`SettlementRefinement`). Both are
proved.

### 2.2 OutboundDelivery

A message is a number, its place by `created_at`. `status`, `deleted` and
`extId` are columns of `messages`; `lock` is the Redis key of a conversation
(the worker whose token it holds); `wk` is what each worker process does:
program counter, the message of its job, whether it has a lock token (`held`),
whether BullMQ still counts the job as its own (`own`). Every `await` of
`processOutboundMessageJob` is a step:

| Action | Code (`workers/index.ts` unless named) |
|---|---|
| `SendMessage`, `Enqueue`, `SenderFails` | `MessageService.sendMessage`: the row, then other writes, then the job; a failure in between |
| `DeleteMessage`, `UpdateMessageStatus` | the service's other writes |
| `ApplyStatus` | `applyWhatsAppStatus`, `applyBridgeWhatsAppStatus` (webhook service) |
| `Take`, `ReadMessage` | the job starts: deleted and no longer pending messages are skipped |
| `FirstCheck`, `SecondCheck` | `isNextPendingOutboundMessage`, before and after the lock |
| `Acquire`, `GiveUp` | `waitForOutboundConversationLock`; after the wait the job is requeued |
| `Reload`, `Send`, `Commit` | the second look at the message, the provider's call, the transaction |
| `Requeue` | `requeueOutboundMessage`: a delayed job, unless the id of this time bucket exists |
| `Release`, `Throw`, `Unwind`, `MarkFailed` | `finally` and `catch` |
| `Boot` | `replayPendingOutboundMessages` |
| `Crash`, `Stall`, `LoseJob` | a process stops; BullMQ hands its job out again, once (`maxStalledCount` 1); a worker that is not heard of goes on while its job is handed out again |
| `Expire` | the lock's time to live; the holder renews it |

The jobs of a message do the same and are counted: `waiting` in the queue,
`orphan` without a live worker, each split by whether the job was handed out
again already. `Events` names what may go wrong or come from outside in an
instance; every property says which of them it needs absent.

| Event | What it lets happen |
|---|---|
| `delete`, `status`, `patch` | the writes of the routes and the webhooks |
| `repend` | the status route sets a status back to `pending` (it takes any text) |
| `late_row` | a row with an earlier `created_at` than an existing one: the parts of an answer are dated from one base time |
| `error`, `mark_error` | a step throws (or the provider's answer is lost); marking the message failed throws as well |
| `crash`, `api_crash` | a worker stops; a sender stops between row and job |
| `job_lost`, `lock_expiry` | BullMQ takes a job from a live worker; the conversation lock expires under its holder |

What is coarse: `Age` lets the messages pass the age of 15 seconds in order and
stands for the clock. A retained job id is retained for ever (the code: until
2000 later jobs have ended). One conversation's provider is as good as another's, so the
channels' branches are one `Send`. The batch of 500 of the replay is left out.
A crash before `Commit` leaves the message pending although the provider has it,
and the next job sends it again: `SentOnce` excludes crashes, `SendsBounded`
counts them.

What the model brought up: a sender that stops before
its `Enqueue` blocks the conversation's later messages until some worker
process boots (their jobs are deferred over and over); a message is marked failed although
the provider took it if the transaction after the call throws; a message with
two lost jobs is not replayed a second time.

### 2.3 WebhookIntake

`status` and `retries` are columns of `webhook_events`; `job` is what BullMQ
knows of a job id (`webhook-<id>`, `webhook-replay-<id>`,
`webhook-retry-<id>-r<n>-...`), `hd` what each handler of the worker process is
at, `cand` and `claimed` what a run of the retry has read and claimed, `live`
and `stored` the rows of `messages` with an external id (`live`: not deleted).

| Action | Code (`modules/webhook/service.ts` unless named) |
|---|---|
| `Receive`, `Enqueue`, `ApiFails` | `processWhatsAppPayload`: the row, then the job; the API stops in between |
| `Take`, `Lookup`, `LookupFails` | the job starts, the channel is looked up; an exception still reaches `finally` |
| `FindContact`, `CreateContact`, `FindConversation`, `CreateConversation` | `storeNormalizedWhatsAppInboundMessage`: find or create, without a transaction |
| `LockAndLook`, `Insert` | its transaction: advisory lock of the external id, lookup, row and conversation |
| `MessageFails` | the `catch` around one message: counted, the batch goes on |
| `Settle`, `SettleFails` | `finally`: failed only if nothing was taken and something went wrong |
| `Boot`, `ReplayPending` | `replayPendingWebhookEvents` (`workers/index.ts`) |
| `RetryRead`, `RetryClaim`, `RetryAdd` | `replayRetryableFailedWebhookEvents` (`workers/index.ts`), at boot and every minute |
| `Resolve`, `Delete` | a conversation is resolved, a message deleted meanwhile |
| `Crash`, `Recover`, `Forget` | the worker process stops; BullMQ hands a job out once more; it keeps the ids of 2000 jobs only |

| Fault | What it lets happen |
|---|---|
| `lookup`, `message`, `settle` | a statement throws before the batch, for one message, in `finally` |
| `crash`, `api_crash` | the worker process stops; the API stops between row and job |
| `resolve`, `delete` | the conversation is resolved, the message deleted |
| `forget` | BullMQ drops a finished job's id |

Simplifications: the three WhatsApp and Instagram paths differ in parsing only and
are one; a contact has one channel; texts, media and unread counts are left out.

### 2.4 AutoReply

`stage` is how far the webhook handler is with a message, `latest` the Redis key
of the conversation's latest token, `job` its debounced job, `run` what that
job does, `lastBot` the `created_at` of the bot's last row.

| Action | Code (`modules/webhook/service.ts`) |
|---|---|
| `Store`, `SetToken`, `AddJob`, `DropReply` | `processCreatedWhatsAppInboundResult`, `scheduleChatbotAutoReply`; a flow that answers instead, a Redis failure |
| `Take`, `LookFirst` | `processDebouncedAutoReplyJob` |
| `Collect` | `collectPendingInboundBatch`: every message after the bot's last row |
| `LookSecond`, `CheckHuman`, `Generate`, `LookLast` | `maybeSendChatbotAutoReply`: the token again, hand-off and `message_limit`, the model, the token once more |
| `Compose`, `SendPart` | the rows of the answer, dated from one base time |
| `Escalate` | `escalateConversationToHuman`; its failure is logged only |
| `Throw`, `Crash`, `Boot`, `Recover` | attempts of the job; the process stops |
| `ExpireToken`, `TakeOver` | the key's time to live; an agent takes the conversation |

Faults: `throw` (a statement or the model), `crash`, `redis` (the token or the
job cannot be written), `flow` (a flow answers), `expire`, `takeover`,
`escalation` (its failure). `Outcomes` are the kinds of answers a model may give.

`Prompt` says that a debounced job starts later than another job needs from its
last look at the token to its first row. The delay is seconds, that
stretch a few statements (and, for a hand-off, one assignment); nothing in the
code enforces it, so it is a constant, and `AnsweredOnce` has it as its premise.

### 2.5 Broadcasts

`status`, `counts` and `logs` are the rows of one broadcast; `passed` is what the
provider took; `by` is how far each request by hand (`Send`) and each run of
the sweep (`Sweep`) is.

| Action | Code |
|---|---|
| `SendRead`, `SendSchedule`, `SendReserve`, `AddJob` | `BroadcastService.sendBroadcast` |
| `SweepRead`, `SweepClaim`, `AddJob` | `dispatchDueScheduledBroadcasts` (`workers/index.ts`): a conditional update claims |
| `Take`, `Lookup`, `ClearLogs`, `Start`, `Reject` | `processBroadcastJob`: audience and content; the logs of an earlier run are deleted |
| `Deliver`, `LogSent`, `LogSentFails`, `LogFailed` | its loop over the recipients |
| `Finish`, `Throw`, `Fail` | its end and its `catch` |
| `Stop`, `Crash`, `Boot`, `Recover` | a request, a sweep, a worker process stops; BullMQ hands the job out once more |

Faults: `invalid` (no channel, audience or content), `throw`, `log` (a log
cannot be written), `mark` (marking the broadcast failed throws), `crash`,
`refused` and `lost_answer` (the provider), `send_stops`, `sweep_stops`.

### 2.6 FollowUps

`plan` is the `chatbot_followup` key of `additional_attributes`: the rule, the
anchor its interval counts from, the token of a claim, and (for the
properties) the answer it is for. `dp` is what a dispatcher is at and what it has
read, `writer` another service that has read the column.

| Action | Code (`modules/chatbot/followup-service.ts` unless named) |
|---|---|
| `Write`, `Store`, `ClearRead`, `ClearWrite` | the customer's message; `clearOnInboundContactMessage` |
| `Schedule` | `scheduleFromAiReply` |
| `Select`, `Read`, `Look`, `Config` | `dispatchDueFollowupsBatch`, `processDueConversation`: due, not resolved, nothing written since the anchor, still configured |
| `Claim` | `claimFollowupDispatch`: one conditional update |
| `Existing`, `Generate`, `SendRows` | a delivered follow-up of the rule; the text; `sendFollowupSegments` |
| `ReadAnalytics`, `WriteAnalytics` | `upsertAiAnalytics` (`modules/conversation/service.ts`), on the same column |
| `AfterRule`, `PlanNext`, `ClearPlanRead`, `ClearPlan` | the next rule, or `clearFollowupState` |
| `Throw`, `Crash` | `releaseFollowupDispatchClaim`; a claim that is left behind |
| `OtherRead`, `OtherWrite` | a service that changes another key and writes the whole column |
| `TurnOff`, `Resolve`, `TimePasses` | configuration, an agent, the clock |

Faults: `throw`, `crash`, `stale` (a claim gets too old while its holder works),
`write` (the other writer), `late` (a message is stored later than it is dated),
`empty` (the generated text comes to nothing), `off`, `resolve`. `Prompt` bounds
the run: no interval (minutes at least) goes by while a dispatcher works. No
property needs it.

`restored` notes that somebody has written the column back (`WriteBack`) over a
plan later than the one he had read. A claim is a part of the plan, so it goes
with it, and what it protects may happen again. `SentOnce` excepts it: a
dispatcher that has lost its claim (a message was answered meanwhile, and the
plan is another one's now) still runs `upsertAiAnalytics`, which puts back what it read before
another dispatcher claimed; a third one finds the plan without a claim and
sends what the second is about to send. TLC finds it with one message, three
dispatchers, no fault and `Prompt = FALSE` (an interval goes by while the first one
works), and with two dispatchers when the first throws after its write.

### 2.7 Handover

`req` are the rows of `handover_requests`, in the order of `created_at`; `shown`
is the `handover` key of the conversation's attributes, which the queue of
hand-overs reads; `row` and `primary` are columns of `conversation_agents`,
`assignee` is `conversations.assignee_id`. A call is a record with its program
counter and what it has read.

| Action | Code (`modules/handover/service.ts` unless named) |
|---|---|
| `CreateRequest`, `InsertRequest`, `ShowRequest` | `createRequest` |
| `Workflow`, `LookForPending`, `Retarget`, `SetDeadline`, `ShowRequest` | `createWorkflowApprovalRequest` |
| `Decide`, `WriteVerdict`, `ShowVerdict`, `Resolve` | `approveRequest`, `rejectRequest` |
| `AssignByHand`, `Demote`, `Promote`, `SetAssignee` | `assignAgent` (`modules/conversation/service.ts`), also as the end of an approval |
| `RemoveAgent`, `ReadAssignee`, `FallBack` | `DELETE /:id/agents/:agentId` (`modules/conversation/index.ts`) |
| `BulkEdit`, `SyncRead`, `Sync`, `Drop` | `processBulkEditJob`, `syncCollaborators` (`modules/conversation/bulk-service.ts`) |
| `Handoff` | `executeHandoff` (`modules/orchestration/service.ts`) |
| `Sweep`, `Escalate`, `Triage`, `ShowTriage` | `runEscalationSweep` |
| `DeadlinePasses`, `Crash` | the clock; a call ends where it is (once) |

`seen` notes what happened that some properties except: two calls on one request
at a time, a removal or a bulk edit, one that overlaps an assignment or another
of its kind, a hand-off, a crash, a sweep that found no supervisors.

`DeadlinePasses` waits until no call is at the request: a deadline is minutes
away, a call takes less than a second. Which agent is the best one is a choice.

## 3. Runs

| Run | Instance | What it shows |
|---|---|---|
| `commerce_race` | 1 order, 2 requests, 2 reservations, 1 notification id | all operations overlapping and failing: what a paid order guarantees |
| `commerce_serial` | 2 orders, 1 request, 3 reservations, 2 invoices per order, 2 notification ids (one stray), 2 units; no cancelOrder (orders are closed by the provider's notifications) | without overlap the reserved column, the reservations and the stock agree, nothing is oversold, the ledger is implemented, and an invoice gets one `payment_success` message however often its notification is redelivered |
| `commerce_live` | 1 order, 1 reservation, 2 requests, 2 fresh notification ids | a payment the provider took is recorded |
| `commerce_oversell` | 2 orders, 2 requests, 1 unit | *violation*: two checkouts promise the same unit |
| `outbound_once` | 2 messages, 2 workers, 1 lost job; delete, status, late_row | each goes out once, none is forgotten |
| `outbound_faults` | 1 message, 2 workers, all events, 2 stops or lost jobs | types; a message is sent no more often than its jobs were handed out anew |
| `outbound_live` | 2 messages, 2 workers, 1 crash | they go out in order, and both leave pending |
| `intake` | 1 notification with 1 message, 2 handlers, the retry at boot and of the minute, 3 of 8 faults | the message is stored once and not forgotten, a failure is claimed once, the event is settled |
| `reply` | 2 messages, answers of 2 rows, 2 of 7 faults | a message gets one answer, an answer takes in the whole burst, the burst is answered |
| `broadcasts` | 1 request by hand, 2 sweeps, 2 workers, 2 recipients, 2 of 9 faults | a recipient gets it once per request and lost worker, nobody is passed over, it ends |
| `followups` | 2 rules, 2 dispatchers, 1 message and its answer, 1 of 8 faults | a follow-up goes out once, never after a message, and all of them in the end |
| `handover` | 4 calls of any kind, 2 at a time, 2 requests, 2 agents, 1 stop | a primary agent, an assignee who takes part, what the queue shows, the order of triage |

`OutboundDelivery` is checked in three instances because `SentOnce` excludes what
`SendsBounded` counts, and because liveness allows no symmetry; `Commerce` in
three because overlap, stock and liveness need different numbers of requests and
orders.

### Disagreements and surprises without a run

Met while modelling; each can be followed in the module named. They are not
checked, because the behaviour is a matter of two lines that are easily read, or
because no line of the repository says what should happen.

* `Commerce`: a paid order is cancelled, or goes back to awaiting payment, when
  it is paid during the provider's call of `cancelOrder` or `sendPaymentLink`: the
  phase is checked before the call only ("Order cannot be cancelled in its
  current phase", service.ts:4453; 4211). `PaidBacked` and
  `PaidHoldsNoReservation` are stated so that they hold all the same.
* `Commerce`: a manual adjustment that read the stock row before a checkout
  committed writes less on hand than is reserved (3685); after checkout another
  `addToCart` leaves the old reservation, and a payment link is sent for the
  larger cart (4218).
* `OutboundDelivery`: a message deleted while its job waits for the lock is sent,
  as the second look asks for the status only (workers/index.ts:1804). A message
  replayed once is not replayed again while its job id is kept, though it is
  counted as requeued (2822). The replay reads the oldest 500 pending messages
  again and again while they stay pending (2801).
* `WebhookIntake`: a conversation that is resolved between its lookup and the
  transaction is open again afterwards (webhook/service.ts:4682), while the comment
  at 4526 and `test/parity/conversation-state.test.ts` say a resolved one stays
  closed. Two first messages of a contact handled at once open two
  conversations. A batch with one stored and one failed message counts as
  processed.
* `Handover`: an approval and a rejection of one request may both succeed, while
  `test/parity/handover-state.test.ts:112` says "approve / reject only valid
  from pending": the status is read, then written without a condition.
* `Broadcasts`: a broadcast that a sweep claimed and did not enqueue stays in
  sending (workers/index.ts:2408), and cannot be sent by hand either.
* `FollowUps`: a follow-up on its way when the customer writes goes out all the
  same, and the look for a delivered one takes it for the next answer's. A
  dispatcher whose claim is gone may undo another's claim with
  `upsertAiAnalytics` (`modules/conversation/service.ts:864`), so that a follow-up
  goes out twice (2.6).

### Bounds and fairness

Bounds (Commerce). Two requests are enough for the races: each hazard is a stale read of
one request and a write of another. Two orders are needed only where orders
compete for stock. `MaxQty` = 2 allows an item to be changed after checkout;
`Rid` bounds the checkouts of a behaviour (`RidLeft`), `MaxInv` the invoices,
`MaxStock` manual adjustments. The theorems need none of these bounds to be
small. `CHECK_DEADLOCK FALSE` in every run: once the bounds are used up the
system has nothing left to do.

Fairness (`commerce_live`). `SF_vars(Step(r))`: a request in progress is run
on; strong, because a step that waits for a row lock is enabled only now and
then. `SF_vars(Redeliver(e))`: the provider delivers a notification again until
it sees 200; strong, because a delivery needs a free request. The premise
`<>[][~ Fail]` says failures stop some day. `FreshIds = TRUE` is needed: with
shared ids the property is false, since a PAID notification after a processed
one is dropped.

Bounds (OutboundDelivery). Order is a relation of two messages of one
conversation, and mutual exclusion one of two workers. Conversations share
only the workers, so one is enough. `MaxFault` bounds stops and lost jobs: one
makes a second job of a message, two lose it for good (a job is handed out again
once), four lose the replayed one of a single message too. `sends` needs no bound: a send needs a
job, and jobs are made by the bounded faults.

Fairness (`outbound_live`). A worker that runs goes on and one that stopped is
restarted and replays what is old enough (`WF` of `Step`, `Boot`); BullMQ serves jobs in the order they become
due, so a job is not passed over for ever although workers are often busy
(`SF` of `Take`, per message); it takes back the jobs of workers that are gone
(`WF` of `Stall`); an abandoned lock expires, a sender goes on to its enqueue.
`outbound_live` has one crash. With a second one, or a sender that fails,
`PendingSettles` does not hold: a deferred job may be lost twice after its
message's replay id is used up.

Bounds (WebhookIntake). `StoredOnce` is about two handlers at one message: the
event's own job and one the retry or the replay has added while the first still
ran. Two runs of the retry overlap at boot. `MaxRetries` 2 lets an
event fail, be claimed, fail again and be given up; three faults are what it takes to
fail, to lose the claim's job with the process, and to do so on a forgotten
job id. The theorems are about any number of events, and batches of any length.

Bounds (AutoReply). Two messages are a burst; a third one adds another job of
the same kind. Two rows tell the first row of an answer from its last. Two
attempts, and two faults: a job that is tried again, and one in its way.

Bounds (Broadcasts). Two sweeps race for the schedule, one request by hand races
both; two recipients tell passed over from not yet reached; two workers run two jobs
at once.

Bounds (FollowUps). Two rules: `PlanNext` and `Clear` at the end. Two
dispatchers race for a claim. One message with its answer plans again
under both. One fault: the properties except the pairs that would need two.

Bounds (Handover). Every hazard is a stale read of one call and a write of
another; two more calls make the state they start from. Two requests have an
earlier and a latest one. `SYMMETRY` of calls and agents is sound: no
property is temporal, and no definition chooses among them.

Fairness of the newer modules is weak throughout: what a process has begun, it
goes on with, until it stops. `WebhookIntake`: the API's call, the handlers, BullMQ's look for stalled
jobs, the replay, the minute's retry and the process manager's boot go on
(`Enqueue`, `Handle`, `Recover`, `ReplayPending`, `RetryFailed`, `Boot`).
`AutoReply`: `Receive`, `Work`, `Recover`, `Boot`. `Broadcasts`: time passes,
sweeps come every minute, and `AddJob`, `Work`, `Recover`, `Boot`.
`FollowUps`: time passes, `Handle`, `Dispatch`, `OtherWrite`. Nothing that a person
does (writing, approving, deleting) is fair; `Handover`, which waits for
people, has no liveness property. Faults are not fair either.

## 4. Proofs

The theorems hold for every value of the constants that the `ASSUME` of the
module allows; no proof relies on a bound being small.

*Commerce*: any finite or infinite sets of orders, requests and events, a finite
set of reservations, any bounds (`CommerceAssumption`).

* `TypeCorrect`: `TypeOK`. Not inductive: a request that is about to commit must
  work on an order, its invoice must exist, a closing webhook must carry
  CANCELLED or EXPIRED. `LocalsOK` adds that per program counter. One lemma per
  action, `LocalsStep` does the common part.
* `PaidOrderHoldsNothing`, `PaidOrderIsBacked`, `StockTakenOnce`,
  `PaidOnProvidersWord`: from one invariant `SafeInv`. Its heart is
  `LocalsSafe`: the reservations a paid transaction has read *are* the active
  ones of its order. That holds because of the lock it took before reading
  them, and because the reservations another request releases belong to
  another order or wait for the lock. `OnePaidTx` is the lock as an invariant,
  `DeductsOK` says only spent reservations have had stock taken. `QuietStep`
  disposes of the 29 steps that change no order; `OrderStep` states what the
  others have in common.
* `ReservationsNeverReturn`: `ReservationsMoveOn`, an action property, from
  type correctness.
* `ImplementsSettlement`: `Spec => Settlement!Spec` under the mapping in
  `Commerce`; `StepSettles` maps each of the seven steps that change a phase
  or a reservation to an action of `OrderSettlement`.
* `OutboundDelivery_proofs`, for any number of messages, conversations and
  workers. `Base` is the type invariant with `WorkersOK` (a worker has a message
  exactly while it runs a job, and a token from the second check to the commit)
  and `RowsOK` (nothing is known of a message without a row).
  - `LockIsHeld`: the token a worker has is the one in Redis (`LockHeld`);
    without `lock_expiry` only.
  - `GoesOutInOrder`: `InOrder`, an action property. `Foremost`: who has passed
    the second check has no pending message before its own; this needs rows to
    be created in order (`InTurn`: no `late_row`) and no status to be set back
    to pending. `Overtaken`: once a message has gone out, none before it is
    pending or about to be sent; it is preserved because the worker that sends
    holds the lock, and is the only one past it.
  - `SentAtMostOnce`: `SentOnce`, from `OnceInv`: a message about to be sent has
    not been sent, one that has been sent and is still pending is about to be
    marked by its sender. A lost answer (`error`), a crash or a status set back
    to pending make a second send possible.
  - `NoneForgotten`: `PendingCovered`, from `CoverInv`, which does not count
    workers that are only to release their lock. Any errors, lost jobs,
    expired locks, late rows; no process stops (a job is handed out again only
    once), and a failure is recorded (no `mark_error`).
  The `...Effect` lemmas say what the updates of a worker's record do, the
  `Quiet` lemmas dispose of the steps that do not touch an invariant.

*WebhookIntake*, with any number of events, messages, handlers and runs of the
retry, batches of any length, any of the faults:

* `IntakeTypeCorrect`: `TypeOK`; `AtWork` adds that a handler at work is at a
  message of its event's batch.
* `MessageStoredOnce`: `StoredOnce`, from `OnceInv`. `Locked`: of two handlers
  that are about to create a row, no two have the same message, which is the
  advisory lock. `NoRow`: while a handler has the lock after its lookup there is no
  row; without it a handler could look before another one creates.
* `FailureClaimedOnce`: `ClaimedOnce`, from `ClaimOver`: what a run of the retry
  has claimed is not failed any more at that count, so nobody can claim it
  again. `retries` only grows.

*AutoReply*, with any number of messages, rows and attempts, any answers and faults:

* `ReplyTypeCorrect`: `TypeOK`, with `RunsOK` (a run belongs to an active job; no
  date is in the future; a message with a token is stored).
* `AnswersAllThatWait`: `AnswersWholeBurst`, an action property, from `Whole`: a
  run whose token is still the latest has in its batch every message with
  a token after the bot's last row. A newer token makes it vacuous, and the last look
  notices.
* `OneAnswerEach`: `AnsweredOnce`, from `Alone` (who is past its last look is the
  only one, and no other run still before it has the latest token; this is where
  `Prompt` is needed), `Fresh` (what is about to be answered has not been),
  `Older` and `Dated` (what has been answered is dated before the bot's
  last row, so no later batch takes it in).

*Handover*, with any agents, calls, requests and bounds. `Base` is the type
invariant with what a call holds at each program counter (`CallOK`); `Moves` says
that a step is one call's.

* `HandoverTypeCorrect`: `TypeOK`.
* `PrimaryStays`: `SomebodyPrimary`, from `PrimaryInv`: if somebody takes part, there
  is a primary agent or a call about to promote one; only `Demote` takes the
  mark from others, and its own call is to promote.
* `AssigneeStaysPart`: `AssigneeTakesPart`, from `PartInv`: what each call that
  writes the assignee or ends a part relies on (`PartOf`). A call that ends
  parts is alone with the assignments (lemma `Alone`) as long as no overlap was noted.
* `QueueShowsLatest`: `LatestShown`, from `ShownInv`: what a call knows of its
  request (`ReqOf`), and that the request shown has the status shown or a
  call about to show it (`LatestOK`).
* `TriageAfterEscalations`: `TriagedInOrder`, from `OrderInv`. A sweep writes
  `count` from what it has read; `RowsRead` says that a request it has still to go
  through has that count, or one more and a new deadline; `Agree` that two sweeps
  with the same request have read the same; `NewReqs` that a workflow's request
  whose deadline is not set yet was escalated at most once and by a sweep that
  has read 0.

*Broadcasts*, with finite sets of requests, sweeps and workers, any number of
recipients, any of the faults. `Base` is the type invariant with what a worker
has counted at each step (`Counted`) and that a job is added as the last
thing its request or sweep does.

* `BroadcastTypeCorrect`: `TypeOK`.
* `OncePerRequest`: `SentPerRequest`, from two accounts. `Account`: a recipient's
  deliveries, the workers that have still to deliver to it and the jobs that wait
  are at most the jobs added and handed out again. `TakenOnce`: the sweeps that
  took the schedule are at most as many as the schedules, one less while the
  broadcast is scheduled; this is where the conditional claim is needed.
* `NobodyIsLeftOut`: `NobodyLeftOut`, from `LogInv`: unless a run threw, no job was
  added yet, or a job waits, or a worker is `Ahead` (it will have logged everybody when
  it finishes), or everybody has a log. Deleting the logs makes a worker that was
  done with some recipients fall behind, and the one that deletes them be ahead.
  `HoldInv`: a worker at work has an active job that no other worker has, and,
  a worker being lost once, no job is given up.

*FollowUps*, with any number of messages, dispatchers and rules, any faults, with
or without `Prompt`:

* `FollowUpTypeCorrect`: `TypeOK`; a dispatcher past its read has a plan, and
  the rule of the next plan exists (`DpOK`).
* `SentBeforeMessages`: `NotAfterMessage`, from `InTime`: up to its anchor a plan, and
  every copy of one, has no message after the answer it is for (`Clean`). For the next
  rule's plan, whose anchor is the time at which its dispatcher read the plan, this holds
  as that dispatcher has looked for messages afterwards, and a message gets its
  date when it is stored. Only one dated earlier (`late`) breaks it.
* `FollowUpOnce`: `SentOnce`, from `Once`. `Fresh`: of the rules after the planned one
  nothing is sent for its answer, and if the planned one is sent, then since the
  anchor, where the look before sending finds it. `Held`: while the column has a plan
  for the answer a dispatcher works on, it is the plan claimed, with its token.
  `Apart`: two dispatchers at work have different answers.
  The attempt to prove it without `restored` failed at the step
  `WriteAnalytics`, for the reason given in 2.6; the run `followups` is too small for it,
  as `Prompt` keeps the next interval from passing.

The invariants that earlier versions of this project left to TLC are proved as
well:

* `SerialReservedMatches`, `SerialNoOversell`, `SerialNotifiedOnce`, `ImplementsLedger`
  (`CommerceSerial_proofs`) for one request at a time (`Serial`), which is what
  `commerce_serial` checks and what the violation `commerce_oversell` shows to be
  necessary. The request may stop anywhere, and any others follow. `SerialInv` says
  that what the request has read is what the rows still hold (`LocalsFresh`),
  that an order with an invoice has something in its cart, and that active
  reservations belong to orders. The sum of quantities is the cardinality of a
  set of units, which the library's theorems on finite sets can reason about (a
  fold cannot be unfolded for a set of unknown size); `StockLedger` counts in the
  same way.
* `MessageNotForgotten`: `NotForgotten`, for notifications of one message (`OneEach`:
  of several one may fail and the event still counts as processed) and jobs with three
  attempts or more (`Enough`; `WEBHOOK_JOB_ATTEMPTS` is 5 and
  `WEBHOOK_REPLAY_JOB_ATTEMPTS` 3 by default). `Throws` is the account of attempts:
  the lookup and the settling fail once each, so a job that threw is tried again;
  `FirstStall` says the same of stops; `Progress` what a handler at the end knows of its
  message. The bound of three attempts comes from the model's faults (each at most
  once), not from the code: with more failures than attempts the job ends and
  the event stays processed.
* `SendsAreBounded`: `SendsBounded`, with all events at once. `BoundInv` is an
  account: the sends of a message, its sender that has still to enqueue, its jobs in the
  queue or without a worker, and the workers that may still send it or defer it are
  at most one, one for its replay, and one for every stop or lost job. A job
  taken moves from one entry to another, a deferral replaces its worker by a
  job, a job handed out again for the second time is dropped.

Left to TLC is liveness: `PaymentRecorded`, `PendingSettles`, `EventsSettle`,
`BurstAnswered`, `BroadcastEnds`, `FollowUpSent` (the prover has no `ENABLED` and
no fairness). Every other property of a passing run is stated by a theorem.

## 5. Not modelled

* The flow interpreter, the decision engine, the AI services and the chatbot
  simulation: their control depends on texts and on what a language model
  answers. What they do to the rows of other parts is modelled where it arrives
  (`Schedule`, `Workflow`, `AssignByHand`, `OtherWrite`, `DropReply`, the outcomes of
  `Compose`).
* CRUD services, reports, metrics, media, Instagram: single statements or
  read-only queries; nothing happens between two steps.
* The compatibility routes of `modules/scalebiz-compat`: they repeat modelled
  operations; where they make a difference (orders without a conversation) the model
  has it.
* The response log and the business webhooks: best effort, no state that another
  part relies on.
* Knowledge indexing: jobs around an external vector store, whose behaviour the
  repository does not say.
* The Baileys runtime: its states are those of the library's sockets.
* The frontend.

Within the modelled parts: contents (texts, amounts, media, templates), the choice
of an agent or an audience, notes, notifications and events to the browser. The
sections on the modules say what else is coarse; `PROJECT.json` lists every part.

## 6. Plan

1. *Done*: Commerce, its abstract specifications, its proofs.
2. *Done*: OutboundDelivery with the status webhooks, its proofs.
3. *Done*: WebhookIntake, AutoReply, Handover (with assignment), their proofs.
4. *Done*: Broadcasts and FollowUps, their proofs.
5. *Done*: one request at a time in Commerce, `NotForgotten`, `SendsBounded`.
6. Next to prove: `NotForgotten` for batches of several messages, as far as it holds
   (one message at least is stored, or a job is to come).
7. Next to model: the reconnects of the Baileys runtime (a callback of an old
   socket after a new one is there), the job chain of knowledge indexing.
