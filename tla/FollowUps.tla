------------------------------ MODULE FollowUps ------------------------------
(***************************************************************************)
(* Follow-ups of one conversation (modules/chatbot/followup-service.ts).   *)
(* When the chatbot has answered, the first rule's follow-up is planned;   *)
(* when it is due and the customer has not written since, a dispatcher     *)
(* claims it, has it generated, sends it and plans the next rule's.  A     *)
(* message of the customer clears the plan.                                *)
(*                                                                         *)
(* The plan is one key of conversations.additional_attributes.  A claim    *)
(* and its release are single conditional updates; everybody else reads    *)
(* the column, changes a key and writes the whole back.  Only the plan is  *)
(* modelled: a writer of another key writes the plan it has read.          *)
(***************************************************************************)
EXTENDS Integers, FiniteSets

CONSTANTS
  Msg,        \* messages of the customer
  Disp,       \* dispatchers: a worker process runs one at a time
  NRules,     \* the chatbot's follow-up rules
  First,      \* the answer the chatbot has given at the start
  None,       \* no plan, no token
  Prompt,     \* whether a dispatcher is done before a rule's interval has gone by
  Faults,     \* what may go wrong or come from outside in this instance
  MaxFault    \* bound on how many of them do, each at most once

FaultKind == {"throw", "crash", "stale", "write", "late", "empty", "off", "resolve"}

ASSUME FollowUpAssumption ==
  /\ NRules \in Nat \ {0}
  /\ First \notin Msg /\ None \notin Disp \union Msg \union {First}
  /\ Prompt \in BOOLEAN
  /\ Faults \subseteq FaultKind /\ MaxFault \in Nat

Rule   == 0..NRules - 1
Answer == Msg \union {First}   \* an answer is named by the message it was given to

VARIABLES
  plan,     \* the follow-up state in additional_attributes, with the answer it is for
  stage,    \* how far the webhook handler, and the chatbot, are with a message
  at,       \* created_at of a message
  answer,   \* when an answer was given
  sent,     \* how often a rule's follow-up went out for an answer
  sentAt,   \* created_at of the last follow-up of a rule (-1: none)
  restored, \* somebody has written back the plan he had read, over a later one
  dp,       \* what each dispatcher does
  writer,   \* what another service does to the column: idle, or the plan it has read
  on,       \* the chatbot exists, its watcher is enabled and it has rules
  resolved, \* conversations.status
  clock,    \* the time
  faults    \* what went wrong so far

msgVars  == <<stage, at, answer>>
sentVars == <<sent, sentAt, restored>>
vars     == <<plan, msgVars, sentVars, dp, writer, on, resolved, clock, faults>>

Stages == {"new", "late", "stored", "clearing", "cleared", "answered"}
Steps  == {"idle", "read", "look", "config", "claim", "existing", "generate", "send",
           "analytics", "analyse", "plan", "clear", "clearing"}
Plan   == [rule : Rule, anchor : Nat, token : Disp \union {None}, of : Answer]
NoPlan == [rule |-> 0, anchor |-> 0, token |-> None, of |-> None]

IdleDispatcher == [pc |-> "idle", plan |-> NoPlan, copy |-> NoPlan, now |-> 0, seen |-> {}]
IdleWriter     == [pc |-> "idle", copy |-> NoPlan]

TypeOK ==
  /\ plan \in Plan \union {NoPlan}
  /\ stage \in [Msg -> Stages] /\ at \in [Msg -> Nat] /\ answer \in [Answer -> Nat]
  /\ sent \in [Rule \X Answer -> Nat] /\ sentAt \in [Rule -> Nat \union {-1}]
  /\ restored \in BOOLEAN
  /\ dp \in [Disp -> [pc : Steps, plan : Plan \union {NoPlan}, copy : Plan \union {NoPlan},
                      now : Nat, seen : SUBSET Msg]]
  /\ writer \in [pc : {"idle", "read"}, copy : Plan \union {NoPlan}]
  /\ on \in BOOLEAN /\ resolved \in BOOLEAN
  /\ clock \in Nat
  /\ faults \subseteq Faults

Planned(rule, anchor, of) == [rule |-> rule, anchor |-> anchor, token |-> None, of |-> of]

Init ==
  /\ plan = Planned(0, 0, First)
  /\ stage = [m \in Msg |-> "new"]
  /\ at = [m \in Msg |-> 0]
  /\ answer = [a \in Answer |-> 0]
  /\ sent = [x \in Rule \X Answer |-> 0] /\ sentAt = [r \in Rule |-> -1]
  /\ restored = FALSE
  /\ dp = [d \in Disp |-> IdleDispatcher]
  /\ writer = IdleWriter
  /\ on = TRUE /\ resolved = FALSE
  /\ clock = 0
  /\ faults = {}

Fault(f) ==
  /\ f \in Faults \ faults
  /\ Cardinality(faults) < MaxFault
  /\ faults' = faults \union {f}

Due(p) == p # NoPlan /\ clock > p.anchor

\* The steps a claim covers.
Working(d) == dp[d].pc \in {"existing", "generate", "send", "analytics", "analyse", "plan"}

\* A column is written back with the plan that was in it when it was read.
WriteBack(copy) ==
  /\ plan' = copy
  /\ restored' = (restored \/ plan # copy)

\* The interval of the planned rule goes by.
TimePasses ==
  /\ plan # NoPlan /\ ~Due(plan)
  /\ Prompt => \A d \in Disp : ~Working(d)
  /\ clock' = clock + 1
  /\ UNCHANGED <<plan, msgVars, sentVars, dp, writer, on, resolved, faults>>

-----------------------------------------------------------------------------
\* The customer and the chatbot.

\* A message, stored as soon as it is written, or later.
Write(m) ==
  /\ stage[m] = "new"
  /\ clock' = clock + 1
  /\ at' = [at EXCEPT ![m] = clock + 1]
  /\ \/ stage' = [stage EXCEPT ![m] = "stored"] /\ UNCHANGED faults
     \/ stage' = [stage EXCEPT ![m] = "late"] /\ Fault("late")
  /\ UNCHANGED <<plan, answer, sentVars, dp, writer, on, resolved>>

Store(m) ==
  /\ stage[m] = "late"
  /\ stage' = [stage EXCEPT ![m] = "stored"]
  /\ UNCHANGED <<plan, at, answer, sentVars, dp, writer, on, resolved, clock, faults>>

\* clearOnInboundContactMessage reads the column, and is done if there is no plan.
ClearRead(m) ==
  /\ stage[m] = "stored"
  /\ stage' = [stage EXCEPT ![m] = IF plan = NoPlan THEN "cleared" ELSE "clearing"]
  /\ UNCHANGED <<plan, at, answer, sentVars, dp, writer, on, resolved, clock, faults>>

ClearWrite(m) ==
  /\ stage[m] = "clearing"
  /\ stage' = [stage EXCEPT ![m] = "cleared"]
  /\ plan' = NoPlan
  /\ UNCHANGED <<at, answer, sentVars, dp, writer, on, resolved, clock, faults>>

\* scheduleFromAiReply, after an answer: the first rule is planned, or the plan
\* cleared when there are no follow-ups any more.
Schedule(m) ==
  /\ stage[m] = "cleared"
  /\ stage' = [stage EXCEPT ![m] = "answered"]
  /\ clock' = clock + 1
  /\ answer' = [answer EXCEPT ![m] = clock + 1]
  /\ plan' = IF on THEN Planned(0, clock + 1, m) ELSE NoPlan
  /\ UNCHANGED <<at, sentVars, dp, writer, on, resolved, faults>>

-----------------------------------------------------------------------------
\* The dispatcher: dispatchDueFollowupsBatch and processDueConversation.

At(d, pc)   == dp[d].pc = pc
Goto(d, pc) == dp' = [dp EXCEPT ![d].pc = pc]
Done(d)     == dp' = [dp EXCEPT ![d] = IdleDispatcher]
\* clearFollowupState is called, and nothing else is needed any more.
Clear(d)    == dp' = [dp EXCEPT ![d] = [IdleDispatcher EXCEPT !.pc = "clear"]]

Stored(m) == stage[m] \notin {"new", "late"}

\* The sweep, or the delayed job, finds the conversation due.
Select(d) ==
  /\ At(d, "idle")
  /\ Due(plan) /\ ~resolved
  /\ Goto(d, "read")
  /\ UNCHANGED <<plan, msgVars, sentVars, writer, on, resolved, clock, faults>>

\* It reads the conversation and the time.
Read(d) ==
  /\ At(d, "read")
  /\ IF resolved \/ plan = NoPlan THEN Clear(d)
     ELSE IF ~Due(plan) THEN Done(d)
     ELSE dp' = [dp EXCEPT ![d].pc = "look", ![d].plan = plan, ![d].now = clock]
  /\ UNCHANGED <<plan, msgVars, sentVars, writer, on, resolved, clock, faults>>

\* A message of the customer after the anchor clears the plan.
Look(d) ==
  /\ At(d, "look")
  /\ IF \E m \in Msg : Stored(m) /\ at[m] > dp[d].plan.anchor
     THEN Clear(d)
     ELSE dp' = [dp EXCEPT ![d].pc = "config", ![d].seen = {m \in Msg : Stored(m)}]
  /\ UNCHANGED <<plan, msgVars, sentVars, writer, on, resolved, clock, faults>>

Config(d) ==
  /\ At(d, "config")
  /\ IF on THEN Goto(d, "claim") ELSE Clear(d)
  /\ UNCHANGED <<plan, msgVars, sentVars, writer, on, resolved, clock, faults>>

\* next_due_at, in milliseconds, tells one plan from another.  The clock is coarser:
\* here it is the rule, the anchor and the answer.
SameDue(p, q) == p.rule = q.rule /\ p.anchor = q.anchor /\ p.of = q.of

\* A claim that does not ask who else has one.
MutClaim(d) ==
  /\ At(d, "claim")
  /\ IF plan # NoPlan /\ SameDue(plan, dp[d].plan)
     THEN plan' = [plan EXCEPT !.token = d] /\ Goto(d, "existing")
     ELSE Done(d) /\ UNCHANGED plan
  /\ UNCHANGED <<msgVars, sentVars, writer, on, resolved, clock, faults>>

\* claimFollowupDispatch: if the plan still has the due time read, and no token
\* or one that is too old.  The token of a dispatcher at work gets too old by a
\* fault only.
Claim(d) ==
  /\ At(d, "claim")
  /\ LET same == plan # NoPlan /\ SameDue(plan, dp[d].plan)
         free == \A e \in Disp : Working(e) => plan.token # e
         take == plan' = [plan EXCEPT !.token = d] /\ Goto(d, "existing")
     IN  \/ same /\ free /\ take /\ UNCHANGED faults
         \/ same /\ ~free /\ take /\ Fault("stale")
         \/ ~(same /\ free) /\ Done(d) /\ UNCHANGED <<plan, faults>>
  /\ UNCHANGED <<msgVars, sentVars, writer, on, resolved, clock>>

\* A rule after the last one.
MutAfterRule(d) ==
  IF dp[d].plan.rule < NRules
  THEN dp' = [dp EXCEPT ![d].pc = "plan", ![d].copy = NoPlan]
  ELSE Clear(d)

\* What comes after the rule is done.
AfterRule(d) ==
  IF dp[d].plan.rule + 1 < NRules
  THEN dp' = [dp EXCEPT ![d].pc = "plan", ![d].copy = NoPlan]
  ELSE Clear(d)

\* findExistingDeliveredFollowupForRule: a follow-up of the rule since the anchor.
Existing(d) ==
  /\ At(d, "existing")
  /\ IF sentAt[dp[d].plan.rule] >= dp[d].plan.anchor THEN AfterRule(d) ELSE Goto(d, "generate")
  /\ UNCHANGED <<plan, msgVars, sentVars, writer, on, resolved, clock, faults>>

\* The text is generated; nothing of it may be fit to be sent.
Generate(d) ==
  /\ At(d, "generate")
  /\ \/ Goto(d, "send") /\ UNCHANGED faults
     \/ Clear(d) /\ Fault("empty")
  /\ UNCHANGED <<plan, msgVars, sentVars, writer, on, resolved, clock>>

\* sendFollowupSegments: the first row is what a later look for it finds.
SendRows(d) ==
  /\ At(d, "send")
  /\ sent' = [sent EXCEPT ![<<dp[d].plan.rule, dp[d].plan.of>>] = @ + 1]
  /\ sentAt' = [sentAt EXCEPT ![dp[d].plan.rule] = clock]
  /\ dp' = [dp EXCEPT ![d].pc = "analytics", ![d].seen = {}]
  /\ UNCHANGED <<plan, msgVars, restored, writer, on, resolved, clock, faults>>

\* upsertAiAnalytics reads the column and writes it back, if there is something
\* to write.
ReadAnalytics(d) ==
  /\ At(d, "analytics")
  /\ \/ dp' = [dp EXCEPT ![d].pc = "analyse", ![d].copy = plan]
     \/ AfterRule(d)
  /\ UNCHANGED <<plan, msgVars, sentVars, writer, on, resolved, clock, faults>>

WriteAnalytics(d) ==
  /\ At(d, "analyse")
  /\ WriteBack(dp[d].copy)
  /\ AfterRule(d)
  /\ UNCHANGED <<msgVars, sent, sentAt, writer, on, resolved, clock, faults>>

\* A next rule that counts from when it is planned.
MutPlanNext(d) ==
  /\ At(d, "plan")
  /\ plan' = Planned(dp[d].plan.rule + 1, clock, dp[d].plan.of)
  /\ Done(d)
  /\ UNCHANGED <<msgVars, sentVars, writer, on, resolved, clock, faults>>

\* The next rule counts from when the dispatcher has read the conversation; the
\* column is written as it was then, with this plan.
PlanNext(d) ==
  /\ At(d, "plan")
  /\ plan' = Planned(dp[d].plan.rule + 1, dp[d].now, dp[d].plan.of)
  /\ Done(d)
  /\ UNCHANGED <<msgVars, sentVars, writer, on, resolved, clock, faults>>

\* clearFollowupState
ClearPlanRead(d) ==
  /\ At(d, "clear")
  /\ IF plan = NoPlan THEN Done(d) ELSE Goto(d, "clearing")
  /\ UNCHANGED <<plan, msgVars, sentVars, writer, on, resolved, clock, faults>>

ClearPlan(d) ==
  /\ At(d, "clearing")
  /\ plan' = NoPlan
  /\ Done(d)
  /\ UNCHANGED <<msgVars, sentVars, writer, on, resolved, clock, faults>>

\* An exception that drops the plan with its claim.
MutThrow(d) ==
  /\ Fault("throw")
  /\ Working(d)
  /\ plan' = NoPlan
  /\ Done(d)
  /\ UNCHANGED <<msgVars, sentVars, writer, on, resolved, clock>>

\* A statement throws: releaseFollowupDispatchClaim, if the token is still ours.  One
\* that throws before the claim, or as the plan is cleared, leaves what a crash does.
Throw(d) ==
  /\ Fault("throw")
  /\ Working(d)
  /\ plan' = IF plan # NoPlan /\ plan.token = d THEN [plan EXCEPT !.token = None] ELSE plan
  /\ Done(d)
  /\ UNCHANGED <<msgVars, sentVars, writer, on, resolved, clock>>

\* The process stops, and boots; its claim becomes too old.
Crash(d) ==
  /\ Fault("crash")
  /\ ~At(d, "idle")
  /\ Done(d)
  /\ UNCHANGED <<plan, msgVars, sentVars, writer, on, resolved, clock>>

-----------------------------------------------------------------------------
\* Others.

\* A service that changes another key of the column.
OtherRead ==
  /\ Fault("write")
  /\ writer.pc = "idle"
  /\ writer' = [pc |-> "read", copy |-> plan]
  /\ UNCHANGED <<plan, msgVars, sentVars, dp, on, resolved, clock>>

OtherWrite ==
  /\ writer.pc = "read"
  /\ WriteBack(writer.copy)
  /\ writer' = IdleWriter
  /\ UNCHANGED <<msgVars, sent, sentAt, dp, on, resolved, clock, faults>>

TurnOff ==
  /\ Fault("off")
  /\ on' = FALSE
  /\ UNCHANGED <<plan, msgVars, sentVars, dp, writer, resolved, clock>>

Resolve ==
  /\ Fault("resolve")
  /\ resolved' = TRUE
  /\ UNCHANGED <<plan, msgVars, sentVars, dp, writer, on, clock>>

-----------------------------------------------------------------------------
Handle(m) == Store(m) \/ ClearRead(m) \/ ClearWrite(m)

Dispatch(d) ==
  \/ Select(d) \/ Read(d) \/ Look(d) \/ Config(d) \/ Claim(d) \/ Existing(d) \/ Generate(d)
  \/ SendRows(d) \/ ReadAnalytics(d) \/ WriteAnalytics(d) \/ PlanNext(d)
  \/ ClearPlanRead(d) \/ ClearPlan(d)

Next ==
  \/ TimePasses
  \/ \E m \in Msg : Write(m) \/ Handle(m) \/ Schedule(m)
  \/ \E d \in Disp : Dispatch(d) \/ Throw(d) \/ Crash(d)
  \/ OtherRead \/ OtherWrite \/ TurnOff \/ Resolve

Spec == Init /\ [][Next]_vars

\* Time passes, the sweep comes every minute, and what has begun goes on.
FairSpec ==
  /\ Spec
  /\ WF_vars(TimePasses) /\ WF_vars(OtherWrite)
  /\ \A m \in Msg : WF_vars(Handle(m))
  /\ \A d \in Disp : WF_vars(Dispatch(d))

-----------------------------------------------------------------------------
\* A rule's follow-up goes out at most once for an answer, although dispatchers
\* of several processes run, throw and stop, and lose their claims to the plan for
\* another answer: the claim, and the look for a follow-up that was delivered
\* already.  Not so when a claim gets too old under its holder, or when the column
\* is written back, by the holder of a lost claim or by another service, as it was
\* before a claim (claimFollowupDispatch, findExistingDeliveredFollowupForRule).
SentOnce ==
  "stale" \notin faults /\ ~restored => \A x \in Rule \X Answer : sent[x] <= 1

\* No follow-up is sent when the customer has written since the answer it follows
\* and the message was stored when the dispatcher looked, although a dispatcher
\* plans the next rule in a column it has read seconds before: its anchor is from
\* then.  Not so for a message dated before it is stored.
NotAfterMessage ==
  "late" \notin faults =>
    \A d \in Disp : At(d, "send") =>
      \A m \in dp[d].seen : at[m] <= answer[dp[d].plan.of]

\* After an answer whose follow-up is planned the customer gets the follow-ups of
\* all rules, although dispatchers throw, stop and leave their claims, unless he
\* writes, the conversation is resolved, the follow-ups are turned off, or a text
\* comes to nothing.  One of them may be on its way for an earlier answer: the
\* look for a delivered one takes it for this one's.  A plan is looked at when
\* nobody is about to write or clear the column.
Calm ==
  /\ \A d \in Disp : At(d, "idle")
  /\ writer.pc = "idle"
  /\ \A m \in Msg : stage[m] \notin {"late", "stored", "clearing"}

FollowUpSent ==
  \A a \in Answer :
    (Calm /\ plan.of = a)
      ~> ((\A r \in Rule : sentAt[r] >= answer[a]) \/ (\E m \in Msg : at[m] > answer[a])
            \/ resolved \/ ~on \/ "empty" \in faults)

=============================================================================
