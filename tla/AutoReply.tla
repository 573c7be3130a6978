------------------------------ MODULE AutoReply ------------------------------
(***************************************************************************)
(* The chatbot's answers in one conversation (modules/webhook/service.ts). *)
(* Every stored message of the customer sets the conversation's latest     *)
(* token in Redis and adds a delayed job with that token.  A job whose     *)
(* token is no longer the latest does nothing; the others answer all       *)
(* messages since the bot's last one together.  Generating an answer takes *)
(* seconds, during which anything else may happen.                         *)
(*                                                                         *)
(* Messages and answers are ordered by created_at: a customer's message is *)
(* dated when the channel got it, before it is stored; the parts of an     *)
(* answer are dated from one base time.  The clock counts these dates      *)
(* only.                                                                   *)
(***************************************************************************)
EXTENDS Integers, FiniteSets

CONSTANTS
  Msg,        \* the customer's messages; a message names its token and its job too
  Parts,      \* the rows an answer is split into
  MaxReplies, \* the chatbot's message_limit, in rows
  Attempts,   \* AI_AUTOREPLY_JOB_ATTEMPTS
  Prompt,     \* whether the debounce delay of a job outlasts what another one does
              \* between its last look at the token and its first row
  Outcomes,   \* what the model may answer
  None,       \* no token
  Faults,     \* what may go wrong or come from outside in this instance
  MaxFault    \* bound on how many of them do, each at most once

OutcomeKind == {"text", "nothing", "handoff", "silent_handoff"}
FaultKind   == {"throw", "crash", "redis", "flow", "expire", "takeover", "escalation"}

ASSUME AutoReplyAssumption ==
  /\ Parts \in Nat \ {0} /\ MaxReplies \in Nat \ {0} /\ Attempts \in Nat \ {0}
  /\ Prompt \in BOOLEAN
  /\ Outcomes \subseteq OutcomeKind
  /\ None \notin Msg
  /\ Faults \subseteq FaultKind /\ MaxFault \in Nat

VARIABLES
  stage,    \* how far the webhook handler is with a message
  at,       \* created_at of a message (0: not written yet)
  latest,   \* chatbot:auto-reply:latest-token of the conversation
  tokens,   \* the tokens set so far
  job,      \* what BullMQ has of a message's job
  tries,    \* attempts of it that threw
  stalled,  \* jobs handed out again because their worker was gone
  run,      \* what the running job does
  lastBot,  \* created_at of the bot's last row (0: none)
  rows,     \* rows of the bot
  answered, \* how many answers a message was part of
  quiet,    \* messages the bot has left without an answer on purpose
  human,    \* isConversationHandoffActive: an assignee, or ai_handoff_active
  clock,    \* the last date given
  up,       \* the worker process runs
  faults    \* what went wrong so far

inVars  == <<stage, at, tokens>>
jobVars == <<job, tries, stalled>>
botVars == <<lastBot, rows, answered, quiet>>
vars    == <<inVars, latest, jobVars, run, botVars, human, clock, up, faults>>

Stages == {"unwritten", "written", "stored", "tokened", "scheduled", "dropped"}
Jobs   == {"none", "waiting", "active", "orphan", "done", "failed"}
Steps  == {"idle", "token", "collect", "token2", "human", "generate", "token3", "compose",
           "escalate", "send"}

Idle == [pc |-> "idle", batch |-> {}, base |-> 0, part |-> 0, silent |-> FALSE]

TypeOK ==
  /\ stage \in [Msg -> Stages] /\ at \in [Msg -> Nat]
  /\ latest \in Msg \union {None}
  /\ tokens \subseteq Msg
  /\ job \in [Msg -> Jobs] /\ tries \in [Msg -> 0..Attempts] /\ stalled \subseteq Msg
  /\ run \in [Msg -> [pc : Steps, batch : SUBSET Msg, base : Nat, part : 0..Parts - 1,
                      silent : BOOLEAN]]
  /\ lastBot \in Nat /\ rows \in Nat
  /\ answered \in [Msg -> Nat] /\ quiet \subseteq Msg
  /\ human \in BOOLEAN /\ up \in BOOLEAN
  /\ clock \in Nat /\ lastBot <= clock
  /\ faults \subseteq Faults

Init ==
  /\ stage = [m \in Msg |-> "unwritten"]
  /\ at = [m \in Msg |-> 0]
  /\ latest = None /\ tokens = {}
  /\ job = [m \in Msg |-> "none"]
  /\ tries = [m \in Msg |-> 0]
  /\ stalled = {}
  /\ run = [m \in Msg |-> Idle]
  /\ lastBot = 0 /\ rows = 0
  /\ answered = [m \in Msg |-> 0]
  /\ quiet = {}
  /\ human = FALSE
  /\ clock = 0
  /\ up = TRUE
  /\ faults = {}

Fault(f) ==
  /\ f \in Faults \ faults
  /\ Cardinality(faults) < MaxFault
  /\ faults' = faults \union {f}

Tick == clock' = clock + 1

-----------------------------------------------------------------------------
\* A message comes in.

\* The customer writes it; the channel dates it.
Write(m) ==
  /\ stage[m] = "unwritten"
  /\ stage' = [stage EXCEPT ![m] = "written"]
  /\ at' = [at EXCEPT ![m] = clock + 1]
  /\ Tick
  /\ UNCHANGED <<tokens, latest, jobVars, run, botVars, human, up, faults>>

\* The webhook handler stores it, and clears what follow-up was planned.
Store(m) ==
  /\ up /\ stage[m] = "written"
  /\ stage' = [stage EXCEPT ![m] = "stored"]
  /\ UNCHANGED <<at, tokens, latest, jobVars, run, botVars, human, clock, up, faults>>

\* scheduleChatbotAutoReply: the token becomes the latest one,
SetToken(m) ==
  /\ up /\ stage[m] = "stored"
  /\ stage' = [stage EXCEPT ![m] = "tokened"]
  /\ latest' = m
  /\ tokens' = tokens \union {m}
  /\ UNCHANGED <<at, jobVars, run, botVars, human, clock, up, faults>>

\* and its job is added.
AddJob(m) ==
  /\ up /\ stage[m] = "tokened"
  /\ stage' = [stage EXCEPT ![m] = "scheduled"]
  /\ job' = [job EXCEPT ![m] = "waiting"]
  /\ UNCHANGED <<at, tokens, latest, tries, stalled, run, botVars, human, clock, up, faults>>

\* A flow answers in the chatbot's place (skipChatbot), or Redis fails and the
\* failure is logged only.
DropReply(m) ==
  /\ up
  /\ \/ stage[m] = "stored" /\ Fault("flow")
     \/ stage[m] \in {"stored", "tokened"} /\ Fault("redis")
  /\ stage' = [stage EXCEPT ![m] = "dropped"]
  /\ UNCHANGED <<at, tokens, latest, jobVars, run, botVars, human, clock, up>>

-----------------------------------------------------------------------------
\* The job: processDebouncedAutoReplyJob and maybeSendChatbotAutoReply.

At(m, pc)   == run[m].pc = pc
Goto(m, pc) == run' = [run EXCEPT ![m].pc = pc]

\* The job ends here.
Finish(m, state) ==
  /\ run' = [run EXCEPT ![m] = Idle]
  /\ job' = [job EXCEPT ![m] = state]

\* Past its last look at the token, without a row yet.
Committed(m) == At(m, "compose") \/ At(m, "escalate") \/ (At(m, "send") /\ run[m].part = 0)

Take(m) ==
  /\ up /\ job[m] = "waiting"
  /\ Prompt => \A n \in Msg : ~Committed(n)
  /\ job' = [job EXCEPT ![m] = "active"]
  /\ Goto(m, "token")
  /\ UNCHANGED <<inVars, latest, tries, stalled, botVars, human, clock, up, faults>>

\* isLatestAutoReplyToken: a job that is not the latest is done.
Look(m, pc, next) ==
  /\ At(m, pc)
  /\ IF latest = m THEN Goto(m, next) /\ UNCHANGED job ELSE Finish(m, "done")
  /\ UNCHANGED <<inVars, latest, tries, stalled, botVars, human, clock, up, faults>>

\* A last look that lets every answer out.
MutLookLast(m) ==
  /\ At(m, "token3")
  /\ Goto(m, "compose")
  /\ UNCHANGED <<inVars, latest, jobVars, botVars, human, clock, up, faults>>

LookFirst(m)  == Look(m, "token", "collect")
LookSecond(m) == Look(m, "token2", "human")
LookLast(m)   == Look(m, "token3", "compose")

Stored(m)  == stage[m] \notin {"unwritten", "written"}
Waiting(m) == Stored(m) /\ at[m] > lastBot

\* A batch that starts at the first message.
MutCollect(m) ==
  /\ At(m, "collect")
  /\ run' = [run EXCEPT ![m].pc = "token2", ![m].batch = {n \in Msg : Stored(n)}]
  /\ UNCHANGED <<inVars, latest, jobVars, botVars, human, clock, up, faults>>

\* collectPendingInboundBatch: what came after the bot's last row.
Collect(m) ==
  /\ At(m, "collect")
  /\ LET batch == {n \in Msg : Waiting(n)}
     IN  IF batch = {} THEN Finish(m, "done")
         ELSE /\ run' = [run EXCEPT ![m].pc = "token2", ![m].batch = batch]
              /\ UNCHANGED job
  /\ UNCHANGED <<inVars, latest, tries, stalled, botVars, human, clock, up, faults>>

\* A person has the conversation, or the bot has written enough.
CheckHuman(m) ==
  /\ At(m, "human")
  /\ IF human \/ rows >= MaxReplies
     THEN /\ Finish(m, "done")
          /\ quiet' = IF human THEN quiet ELSE quiet \union run[m].batch
     ELSE Goto(m, "generate") /\ UNCHANGED <<job, quiet>>
  /\ UNCHANGED <<inVars, latest, tries, stalled, lastBot, rows, answered, human, clock, up,
                 faults>>

\* The model answers.
Generate(m) ==
  /\ At(m, "generate")
  /\ Goto(m, "token3")
  /\ UNCHANGED <<inVars, latest, jobVars, botVars, human, clock, up, faults>>

\* The answer is put together; its rows are dated from now.
Compose(m) ==
  /\ At(m, "compose")
  /\ \E o \in Outcomes :
       IF o = "nothing"
       THEN /\ Finish(m, "done")
            /\ quiet' = quiet \union run[m].batch
            /\ UNCHANGED clock
       ELSE /\ run' = [run EXCEPT ![m].pc = IF o = "text" THEN "send" ELSE "escalate",
                                  ![m].base = clock + 1, ![m].silent = o = "silent_handoff"]
            /\ Tick
            /\ UNCHANGED <<job, quiet>>
  /\ UNCHANGED <<inVars, latest, tries, stalled, lastBot, rows, answered, human, up, faults>>

\* escalateConversationToHuman: assignee, status pending, ai_handoff_active.
\* Its failure is logged only.  After it the bot may say no more.
Escalate(m) ==
  /\ At(m, "escalate")
  /\ \/ human' = TRUE /\ UNCHANGED faults
     \/ Fault("escalation") /\ UNCHANGED human
  /\ IF run[m].silent
     THEN Finish(m, "done") /\ quiet' = quiet \union run[m].batch
     ELSE Goto(m, "send") /\ UNCHANGED <<job, quiet>>
  /\ UNCHANGED <<inVars, latest, tries, stalled, lastBot, rows, answered, clock, up>>

\* Rows without end.
MutSendPart(m) ==
  /\ At(m, "send")
  /\ rows' = rows + 1
  /\ lastBot' = IF run[m].base > lastBot THEN run[m].base ELSE lastBot
  /\ run' = [run EXCEPT ![m].part = @ + 1]
  /\ UNCHANGED <<inVars, latest, jobVars, answered, quiet, human, clock, up, faults>>

\* The next row of the answer.
SendPart(m) ==
  /\ At(m, "send")
  /\ rows' = rows + 1
  /\ lastBot' = IF run[m].base > lastBot THEN run[m].base ELSE lastBot
  /\ answered' = IF run[m].part = 0
                 THEN [n \in Msg |-> IF n \in run[m].batch THEN answered[n] + 1 ELSE answered[n]]
                 ELSE answered
  /\ IF run[m].part = Parts - 1
     THEN Finish(m, "done")
     ELSE run' = [run EXCEPT ![m].part = @ + 1] /\ UNCHANGED job
  /\ UNCHANGED <<inVars, latest, tries, stalled, quiet, human, clock, up, faults>>

\* An exception that is logged and ends the job.
MutThrow(m) ==
  /\ Fault("throw")
  /\ run[m].pc # "idle"
  /\ Finish(m, "done")
  /\ UNCHANGED <<inVars, latest, tries, stalled, botVars, human, clock, up>>

\* A statement or the model throws: BullMQ tries the job again.
Throw(m) ==
  /\ Fault("throw")
  /\ run[m].pc # "idle"
  /\ tries' = [tries EXCEPT ![m] = @ + 1]
  /\ Finish(m, IF tries[m] + 1 < Attempts THEN "waiting" ELSE "failed")
  /\ UNCHANGED <<inVars, latest, stalled, botVars, human, clock, up>>

-----------------------------------------------------------------------------
\* Others.

\* The worker process stops: a message whose scheduling it was at is a
\* duplicate when its webhook is handled again, and is not scheduled any more.
Crash ==
  /\ Fault("crash")
  /\ up /\ up' = FALSE
  /\ stage' = [m \in Msg |-> IF stage[m] \in {"stored", "tokened"} THEN "dropped" ELSE stage[m]]
  /\ job' = [m \in Msg |-> IF job[m] = "active" THEN "orphan" ELSE job[m]]
  /\ run' = [m \in Msg |-> Idle]
  /\ UNCHANGED <<at, tokens, latest, tries, stalled, botVars, human, clock>>

Boot ==
  /\ ~up /\ up' = TRUE
  /\ UNCHANGED <<inVars, latest, jobVars, run, botVars, human, clock, faults>>

\* BullMQ finds a job whose worker is gone.
Recover(m) ==
  /\ up /\ job[m] = "orphan"
  /\ job' = [job EXCEPT ![m] = IF m \in stalled THEN "failed" ELSE "waiting"]
  /\ stalled' = stalled \union {m}
  /\ UNCHANGED <<inVars, latest, tries, run, botVars, human, clock, up, faults>>

\* The token's time to live is over.
ExpireToken ==
  /\ Fault("expire")
  /\ latest # None /\ latest' = None
  /\ UNCHANGED <<inVars, jobVars, run, botVars, human, clock, up>>

\* An agent takes the conversation.
TakeOver ==
  /\ Fault("takeover")
  /\ human' = TRUE
  /\ UNCHANGED <<inVars, latest, jobVars, run, botVars, clock, up>>

-----------------------------------------------------------------------------
Receive(m) == Store(m) \/ SetToken(m) \/ AddJob(m)

Work(m) ==
  \/ Take(m) \/ LookFirst(m) \/ Collect(m) \/ LookSecond(m) \/ CheckHuman(m)
  \/ Generate(m) \/ LookLast(m) \/ Compose(m) \/ Escalate(m) \/ SendPart(m)

Next ==
  \/ \E m \in Msg : Write(m) \/ Receive(m) \/ DropReply(m) \/ Work(m) \/ Throw(m) \/ Recover(m)
  \/ Crash \/ Boot \/ ExpireToken \/ TakeOver

Spec == Init /\ [][Next]_vars

\* The worker goes on with what it has begun and takes its jobs when their
\* delay is over; the process manager boots it again.
FairSpec ==
  /\ Spec
  /\ \A m \in Msg : WF_vars(Receive(m)) /\ WF_vars(Work(m)) /\ WF_vars(Recover(m))
  /\ WF_vars(Boot)

-----------------------------------------------------------------------------
\* A message gets one answer, although every message of a burst has a job and
\* jobs are tried again: a job that is not the latest gives way, and the batch
\* starts after the bot's last row (webhook/service.ts, collectPendingInboundBatch).
AnsweredOnce == Prompt => \A m \in Msg : answered[m] <= 1

\* An answer is sent only if it takes in every message that had announced itself
\* when the token was looked at last: no part of a burst is passed over
\* (maybeSendChatbotAutoReply, three looks at the token around the batch).
AnswersWholeBurst ==
  [][\A m \in Msg : (At(m, "token3") /\ run'[m].pc = "compose")
       => {n \in tokens : at[n] > lastBot} \subseteq run[m].batch]_vars

\* The job of the latest message answers all that wait, unless a newer one takes
\* over, the bot keeps quiet, a person has the conversation, the job has used up
\* its attempts, or an answer dated later than the message was on its way.
BurstAnswered ==
  \A m \in Msg, n \in Msg :
    (latest = m /\ job[m] = "waiting" /\ Waiting(n))
      ~> (answered[n] > 0 \/ latest # m \/ n \in quiet \/ human \/ job[m] = "failed"
            \/ at[n] < lastBot)

=============================================================================
