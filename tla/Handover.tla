------------------------------- MODULE Handover -------------------------------
(***************************************************************************)
(* Hand-over of one conversation to an agent (modules/handover/service.ts) *)
(* and the assignment it leads to (modules/conversation: assignAgent, the  *)
(* removal of an agent, the bulk edit; executeHandoff of                   *)
(* modules/orchestration/service.ts).                                      *)
(*                                                                         *)
(* No call uses a transaction over its steps or checks again what it has   *)
(* read: a step here is one statement, and calls overlap in every way.     *)
(* The handover key of additional_attributes is read, changed and written  *)
(* back whole; a writer of another key of that column, which puts this one *)
(* back as it was read, is not modelled (FollowUps has one for its key).   *)
(*                                                                         *)
(* Two calls may both create a row of conversation_agents for an agent:    *)
(* row and primary stand for what any of an agent's rows says.             *)
(***************************************************************************)
EXTENDS Integers, FiniteSets

CONSTANTS
  Agent,     \* users that may be assigned
  Call,      \* API calls that may be handled at a time
  MaxReq,    \* bound on the requests created
  MaxCalls,  \* bound on the calls
  None       \* nobody, no request

ASSUME HandoverAssumption ==
  /\ None \notin Agent \union Nat
  /\ MaxReq \in Nat /\ MaxCalls \in Nat

Request == 1..MaxReq   \* in the order of created_at
Limit   == 2           \* escalations before triage

VARIABLES
  req,      \* handover_requests
  shown,    \* the handover key of conversations.additional_attributes
  row,      \* conversation_agents: status of an agent's row
  primary,  \* conversation_agents.is_primary
  assignee, \* conversations.assignee_id
  call,     \* what each call does
  calls,    \* how many calls were made
  seen      \* what happened that some properties except

agentVars == <<row, primary, assignee>>
vars      == <<req, shown, agentVars, call, calls, seen>>

Status == {"pending", "approved", "rejected"}
NoReq  == [status |-> "none", target |-> None, overdue |-> FALSE, count |-> 0, triage |-> FALSE]
Shown  == [approval : Status \union {"none"}, latest : Request \union {None}]
NotShown == [approval |-> "none", latest |-> None]

Idle == [pc |-> "idle", r |-> None, agent |-> None, verdict |-> "none",
         rows |-> {}, counts |-> [r \in Request |-> 0],
         crew |-> {}, left |-> {}, had |-> {}]

Steps == {"idle", "insert", "show", "look", "found", "deadline", "decide", "verdict",
          "resolve", "demote", "promote", "assignee", "remove", "fallback", "row", "triaged",
          "sync", "syncing", "drop"}

TypeOK ==
  /\ req \in [Request -> [status : Status \union {"none"}, target : Agent \union {None},
                          overdue : BOOLEAN, count : 0..Limit, triage : BOOLEAN]]
  /\ shown \in Shown
  /\ row \in [Agent -> {"none", "active", "inactive"}]
  /\ primary \in [Agent -> BOOLEAN]
  /\ assignee \in Agent \union {None}
  /\ \A c \in Call : call[c].pc \in Steps /\ call[c].r \in Request \union {None}
  /\ calls \in 0..MaxCalls
  /\ seen \subseteq {"same request", "removal", "bulk", "removal overlaps", "handoff", "crash",
                     "no supervisor"}

Init ==
  /\ req = [r \in Request |-> NoReq]
  /\ shown = NotShown
  /\ row = [a \in Agent |-> "none"] /\ primary = [a \in Agent |-> FALSE]
  /\ assignee = None
  /\ call = [c \in Call |-> Idle]
  /\ calls = 0
  /\ seen = {}

At(c, pc)       == call[c].pc = pc
Goto(c, pc)     == call' = [call EXCEPT ![c].pc = pc]
End(c)          == call' = [call EXCEPT ![c] = Idle]
Begin(c, first) ==
  /\ At(c, "idle") /\ calls < MaxCalls
  /\ calls' = calls + 1
  /\ call' = [call EXCEPT ![c] = first]

\* What the conversation's attributes get for a request.
Show(approval, r) == [approval |-> approval, latest |-> r]

\* assignAgent begins, if there is somebody to assign.
Assign(c, a) ==
  call' = [call EXCEPT ![c] = IF a = None THEN Idle ELSE [Idle EXCEPT !.pc = "demote", !.agent = a]]

Unused == {r \in Request : req[r].status = "none"}
Room   == Cardinality(Unused) > Cardinality({c \in Call : call[c].pc \in {"insert", "look"}})
First(r, rs) == r \in rs /\ \A s \in rs : r <= s
Insert(r, status, target) ==
  /\ First(r, Unused)
  /\ req' = [req EXCEPT ![r] = [NoReq EXCEPT !.status = status, !.target = target,
                                            !.overdue = TRUE]]

-----------------------------------------------------------------------------
\* createRequest: an agent's is pending, a supervisor's approved.  It reads the
\* conversation first.
CreateRequest(c, verdict, target) ==
  /\ Room
  /\ Begin(c, [Idle EXCEPT !.pc = "insert", !.verdict = verdict, !.agent = target])
  /\ UNCHANGED <<req, shown, agentVars>>

\* No deadline: the sweep takes it for overdue.
InsertRequest(c) ==
  /\ At(c, "insert")
  /\ \E r \in Request :
       /\ Insert(r, call[c].verdict, call[c].agent)
       /\ call' = [call EXCEPT ![c].pc = "show", ![c].r = r]
  /\ UNCHANGED <<shown, agentVars, calls>>

ShowRequest(c) ==
  /\ At(c, "show")
  /\ shown' = Show(call[c].verdict, call[c].r)
  /\ IF call[c].verdict = "pending" THEN End(c) ELSE Assign(c, call[c].agent)
  /\ UNCHANGED <<req, agentVars, calls>>

\* createWorkflowApprovalRequest: another target for the latest pending request,
\* or a new one.
Workflow(c, target) ==
  /\ Room
  /\ Begin(c, [Idle EXCEPT !.pc = "look", !.agent = target])
  /\ UNCHANGED <<req, shown, agentVars>>

Pending == {r \in Request : req[r].status = "pending"}

LookForPending(c) ==
  /\ At(c, "look")
  /\ \/ /\ Pending = {}
        /\ \E r \in Request :
             /\ Insert(r, "pending", call[c].agent)
             /\ call' = [call EXCEPT ![c].pc = "deadline", ![c].r = r]
     \/ \E r \in Pending :
          /\ \A s \in Pending : s <= r
          /\ IF call[c].agent = None THEN End(c)
             ELSE call' = [call EXCEPT ![c].pc = "found", ![c].r = r]
          /\ UNCHANGED req
  /\ UNCHANGED <<shown, agentVars, calls>>

Retarget(c) ==
  /\ At(c, "found")
  /\ req' = [req EXCEPT ![call[c].r].target = call[c].agent]
  /\ End(c)
  /\ UNCHANGED <<shown, agentVars, calls>>

SetDeadline(c) ==
  /\ At(c, "deadline")
  /\ req' = [req EXCEPT ![call[c].r].overdue = FALSE, ![call[c].r].count = 0,
                        ![call[c].r].triage = FALSE]
  /\ call' = [call EXCEPT ![c].pc = "show", ![c].verdict = "pending"]
  /\ UNCHANGED <<shown, agentVars, calls>>

-----------------------------------------------------------------------------
\* approveRequest and rejectRequest: a request that is not pending is refused,
\* by what it was when it was read.
Decide(c, r, verdict) ==
  /\ req[r].status # "none"
  /\ Begin(c, IF req[r].status # "pending" THEN Idle
              ELSE [Idle EXCEPT !.pc = "decide", !.r = r, !.verdict = verdict,
                                !.agent = req[r].target])
  /\ UNCHANGED <<req, shown, agentVars>>

WriteVerdict(c) ==
  /\ At(c, "decide")
  /\ req' = [req EXCEPT ![call[c].r].status = call[c].verdict]
  /\ Goto(c, "verdict")
  /\ UNCHANGED <<shown, agentVars, calls>>

\* Mutant: the request that was shown before stays.
MutShowVerdict(c) ==
  /\ At(c, "verdict")
  /\ shown' = [shown EXCEPT !.approval = call[c].verdict]
  /\ IF call[c].verdict = "rejected" THEN End(c)
     ELSE IF call[c].agent # None THEN Assign(c, call[c].agent)
     ELSE Goto(c, "resolve")
  /\ UNCHANGED <<req, agentVars, calls>>

ShowVerdict(c) ==
  /\ At(c, "verdict")
  /\ shown' = Show(call[c].verdict, call[c].r)
  /\ IF call[c].verdict = "rejected" THEN End(c)
     ELSE IF call[c].agent # None THEN Assign(c, call[c].agent)
     ELSE Goto(c, "resolve")
  /\ UNCHANGED <<req, agentVars, calls>>

\* An approved request without a target gets the best agent, if there is one.
Resolve(c) ==
  /\ At(c, "resolve")
  /\ \/ End(c) /\ UNCHANGED req
     \/ \E a \in Agent :
          /\ req' = [req EXCEPT ![call[c].r].target = a]
          /\ Assign(c, a)
  /\ UNCHANGED <<shown, agentVars, calls>>

-----------------------------------------------------------------------------
\* assignAgent, which assigning by hand and by the chatbot call as well.
AssignByHand(c, a) ==
  /\ Begin(c, [Idle EXCEPT !.pc = "demote", !.agent = a])
  /\ UNCHANGED <<req, shown, agentVars>>

Demote(c) ==
  /\ At(c, "demote")
  /\ primary' = [a \in Agent |-> primary[a] /\ a = call[c].agent]
  /\ Goto(c, "promote")
  /\ UNCHANGED <<req, shown, row, assignee, calls>>

\* Mutant: only a new row is primary.
MutPromote(c) ==
  /\ At(c, "promote")
  /\ row' = [row EXCEPT ![call[c].agent] = "active"]
  /\ primary' = [primary EXCEPT ![call[c].agent] = @ \/ row[call[c].agent] = "none"]
  /\ Goto(c, "assignee")
  /\ UNCHANGED <<req, shown, assignee, calls>>

\* The agent's row is updated or created.
Promote(c) ==
  /\ At(c, "promote")
  /\ row' = [row EXCEPT ![call[c].agent] = "active"]
  /\ primary' = [primary EXCEPT ![call[c].agent] = TRUE]
  /\ Goto(c, "assignee")
  /\ UNCHANGED <<req, shown, assignee, calls>>

SetAssignee(c) ==
  /\ At(c, "assignee")
  /\ assignee' = call[c].agent
  /\ End(c)
  /\ UNCHANGED <<req, shown, row, primary, calls>>

\* DELETE /:id/agents/:agentId: the row, then the assignee if it was this agent's,
\* by another agent that takes part, the primary one first.
RemoveAgent(c, a) ==
  /\ row[a] = "active"
  /\ Begin(c, [Idle EXCEPT !.pc = "remove", !.agent = a])
  /\ row' = [row EXCEPT ![a] = "inactive"] /\ primary' = [primary EXCEPT ![a] = FALSE]
  /\ UNCHANGED <<req, shown, assignee>>

\* Mutant: any other row.
MutFallbacks(a) == {b \in Agent \ {a} : row[b] # "none"}

\* Those that may be taken: assigned_at decides between them.
Fallbacks(a) ==
  LET others == {b \in Agent \ {a} : row[b] = "active"}
      first  == {b \in others : primary[b]}
  IN  IF first # {} THEN first ELSE others

ReadAssignee(c) ==
  /\ At(c, "remove")
  /\ IF assignee # call[c].agent THEN End(c)
     ELSE \E b \in IF Fallbacks(call[c].agent) = {} THEN {None} ELSE Fallbacks(call[c].agent) :
            call' = [call EXCEPT ![c].pc = "fallback", ![c].agent = b]
  /\ UNCHANGED <<req, shown, agentVars, calls>>

FallBack(c) ==
  /\ At(c, "fallback")
  /\ assignee' = call[c].agent
  /\ End(c)
  /\ UNCHANGED <<req, shown, row, primary, calls>>

\* processBulkEditJob has read the assignee: the collaborators are to take part, the
\* assignee among them, and nobody else.  If it is to assign an agent it has just
\* done so, as AssignByHand does, and that agent is the assignee it goes by.
BulkEdit(c, collaborators) ==
  /\ Begin(c, [Idle EXCEPT !.pc = "sync", !.agent = assignee,
                           !.crew = collaborators \union ({assignee} \ {None})])
  /\ UNCHANGED <<req, shown, agentVars>>

\* syncCollaborators reads the rows there are,
SyncRead(c) ==
  /\ At(c, "sync")
  /\ call' = [call EXCEPT ![c].pc = "syncing", ![c].left = call[c].crew,
                          ![c].had = {a \in call[c].crew : row[a] # "none"}]
  /\ UNCHANGED <<req, shown, agentVars, calls>>

\* updates or creates one of each collaborator,
Sync(c, a) ==
  /\ At(c, "syncing") /\ a \in call[c].left
  /\ row' = [row EXCEPT ![a] = "active"]
  /\ primary' = [primary EXCEPT ![a] =
       IF call[c].agent = a THEN TRUE ELSE @ /\ (call[c].agent = None \/ a \notin call[c].had)]
  /\ call' = [call EXCEPT ![c].left = @ \ {a},
                          ![c].pc = IF call[c].left = {a} THEN "drop" ELSE @]
  /\ UNCHANGED <<req, shown, assignee, calls>>

\* and ends the part of everybody else.
Drop(c) ==
  /\ At(c, "drop")
  /\ LET gone == {a \in Agent \ call[c].crew : row[a] = "active"} IN
     /\ row' = [a \in Agent |-> IF a \in gone THEN "inactive" ELSE row[a]]
     /\ primary' = [a \in Agent |-> primary[a] /\ a \notin gone]
  /\ End(c)
  /\ UNCHANGED <<req, shown, assignee, calls>>

\* executeHandoff changes the assignee only.
Handoff(c, a) ==
  /\ Begin(c, Idle)
  /\ assignee' = a
  /\ UNCHANGED <<req, shown, row, primary>>

-----------------------------------------------------------------------------
\* runEscalationSweep reads the overdue requests and the supervisors.
Sweep(c, supervisors) ==
  LET due == {r \in Pending : req[r].overdue} IN
  /\ Begin(c, IF due = {} THEN Idle
              ELSE [Idle EXCEPT !.pc = "row", !.rows = due,
                                !.verdict = IF supervisors THEN "escalate" ELSE "triage",
                                !.counts = [r \in Request |-> req[r].count]])
  /\ UNCHANGED <<req, shown, agentVars>>

\* Mutant: there is no end to it.
MutEscalates(c, r) == call[c].verdict = "escalate" \/ call[c].counts[r] < 0

\* Mutant: one escalation is enough.
MutEscalatesOnce(c, r) == call[c].verdict = "escalate" /\ call[c].counts[r] < Limit - 1

Escalates(c, r) == call[c].verdict = "escalate" /\ call[c].counts[r] < Limit

NextRow(c, r) ==
  IF call[c].rows = {r} THEN End(c)
  ELSE call' = [call EXCEPT ![c].pc = "row", ![c].rows = @ \ {r}]

\* The next of them, by the count that was read.
Escalate(c, r) ==
  /\ At(c, "row") /\ First(r, call[c].rows) /\ Escalates(c, r)
  /\ req' = [req EXCEPT ![r].count = call[c].counts[r] + 1, ![r].overdue = FALSE]
  /\ NextRow(c, r)
  /\ UNCHANGED <<shown, agentVars, calls>>

Triage(c, r) ==
  /\ At(c, "row") /\ First(r, call[c].rows) /\ ~Escalates(c, r)
  /\ req' = [req EXCEPT ![r].triage = TRUE]
  /\ Goto(c, "triaged")
  /\ UNCHANGED <<shown, agentVars, calls>>

ShowTriage(c, r) ==
  /\ At(c, "triaged") /\ First(r, call[c].rows)
  /\ shown' = Show("pending", r)
  /\ NextRow(c, r)
  /\ UNCHANGED <<req, agentVars, calls>>

WorksOn(c) == call[c].rows \union ({call[c].r} \ {None})

\* A deadline passes: minutes, in which every call is done.
DeadlinePasses(r) ==
  /\ req[r].status = "pending" /\ ~req[r].overdue
  /\ \A c \in Call : r \notin WorksOn(c)
  /\ req' = [req EXCEPT ![r].overdue = TRUE]
  /\ UNCHANGED <<shown, agentVars, call, calls>>

\* The process stops, or a statement throws: the call ends where it is.
Crash(c) ==
  /\ ~At(c, "idle")
  /\ "crash" \notin seen
  /\ End(c)
  /\ UNCHANGED <<req, shown, agentVars, calls>>

-----------------------------------------------------------------------------
Removing(c)  == call[c].pc \in {"remove", "fallback"}
Assigning(c) == call[c].pc \in {"demote", "promote", "assignee"}

Request2Calls == \E c, d \in Call : c # d /\ WorksOn(c) \intersect WorksOn(d) # {}
Ousting(c)   == Removing(c) \/ call[c].crew # {}
RemovalOverlaps == \E c, d \in Call : c # d /\ Ousting(c) /\ (Assigning(d) \/ Ousting(d))

Note(what) ==
  seen' = seen \union what
               \union (IF Request2Calls' THEN {"same request"} ELSE {})
               \union (IF RemovalOverlaps' THEN {"removal overlaps"} ELSE {})

Step(c) ==
  \/ InsertRequest(c) \/ ShowRequest(c) \/ LookForPending(c) \/ Retarget(c) \/ SetDeadline(c)
  \/ WriteVerdict(c) \/ ShowVerdict(c) \/ Resolve(c)
  \/ Demote(c) \/ Promote(c) \/ SetAssignee(c) \/ ReadAssignee(c) \/ FallBack(c)
  \/ SyncRead(c) \/ (\E a \in Agent : Sync(c, a)) \/ Drop(c)
  \/ \E r \in Request : Escalate(c, r) \/ Triage(c, r) \/ ShowTriage(c, r)

Start(c) ==
  \/ \E v \in {"pending", "approved"}, a \in Agent \union {None} : CreateRequest(c, v, a)
  \/ \E a \in Agent \union {None} : Workflow(c, a)
  \/ \E r \in Request, v \in {"approved", "rejected"} : Decide(c, r, v)
  \/ \E a \in Agent : AssignByHand(c, a)

Next ==
  \/ \E c \in Call : (Start(c) \/ Step(c)) /\ Note({})
  \/ \E c \in Call, a \in Agent : RemoveAgent(c, a) /\ Note({"removal"})
  \/ \E c \in Call, crew \in (SUBSET Agent) \ {{}} : BulkEdit(c, crew) /\ Note({"bulk"})
  \/ \E c \in Call, a \in Agent : Handoff(c, a) /\ Note({"handoff"})
  \/ \E c \in Call : Sweep(c, TRUE) /\ Note({})
  \/ \E c \in Call : Sweep(c, FALSE) /\ Note({"no supervisor"})
  \/ \E r \in Request : DeadlinePasses(r) /\ Note({})
  \/ \E c \in Call : Crash(c) /\ Note({"crash"})

Spec == Init /\ [][Next]_vars

-----------------------------------------------------------------------------
AtRest == \A c \in Call : At(c, "idle")

\* However assignments overlap, in the end one of the agents that take part is
\* the primary one: each demotes the others before it promotes its own.  A
\* removal promotes nobody, and a bulk edit without an assignee neither
\* (assignAgent).
SomebodyPrimary ==
  AtRest /\ (\E a \in Agent : row[a] = "active") /\ {"removal", "bulk", "crash"} \intersect seen = {}
    => \E a \in Agent : primary[a] /\ row[a] = "active"

\* The assignee takes part in the conversation, after any approvals, assignments,
\* removals and bulk edits, as long as one that ends somebody's part runs alone and
\* nobody hands off past conversation_agents.
AssigneeTakesPart ==
  AtRest /\ {"removal overlaps", "handoff", "crash"} \intersect seen = {}
    => assignee = None \/ row[assignee] = "active"

\* What the queue shows of the conversation is what became of the request it
\* names, although calls on other requests overlap and every one writes the whole
\* key back; not so when two calls have worked on one request at a time.
LatestShown ==
  AtRest /\ {"same request", "crash"} \intersect seen = {} /\ shown.latest # None
    => shown.approval = req[shown.latest].status

\* "timeout over budget" only: a request gets to triage after it was escalated
\* twice, whatever sweeps run at the same time, if there are supervisors.
TriagedInOrder ==
  "no supervisor" \notin seen => \A r \in Request : req[r].triage => req[r].count = Limit
=============================================================================
