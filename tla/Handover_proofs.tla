--------------------------- MODULE Handover_proofs ---------------------------
(***************************************************************************)
(* Theorems about Handover, for any number of agents, calls and requests.  *)
(***************************************************************************)
EXTENDS Handover, TLAPS

CallState ==
  [pc : Steps, r : Request \union {None}, agent : Agent \union {None},
   verdict : Status \union {"none", "escalate", "triage"},
   rows : SUBSET Request, counts : [Request -> 0..Limit],
   crew : SUBSET Agent, left : SUBSET Agent, had : SUBSET Agent]

\* What a call has, by what it does.
CallOK(x) ==
  /\ x.r \in Request <=> x.pc \in {"show", "found", "deadline", "decide", "verdict", "resolve"}
  /\ x.pc \in {"demote", "promote", "assignee", "remove"} => x.agent \in Agent
  /\ x.rows # {} <=> x.pc \in {"row", "triaged"}
  /\ x.crew # {} <=> x.pc \in {"sync", "syncing", "drop"}
  /\ x.pc \in {"insert", "show"} => x.verdict \in {"pending", "approved"}
  /\ x.pc \in {"decide", "verdict"} => x.verdict \in {"approved", "rejected"}

Base ==
  /\ TypeOK
  /\ call \in [Call -> CallState]
  /\ \A c \in Call : CallOK(call[c])

-----------------------------------------------------------------------------
(* What the steps do to the calls. *)

LEMMA NoneApart == None \notin Agent /\ None \notin Request /\ Request \subseteq Nat /\ Limit = 2
BY HandoverAssumption DEF Request, Limit

LEMMA IdleTyped == Idle \in CallState /\ CallOK(Idle)
BY NoneApart DEF Idle, CallState, CallOK, Steps, Status

\* The fields of a call.
LEMMA CallTyped ==
  ASSUME Base, NEW c \in Call
  PROVE  call[c] \in CallState /\ CallOK(call[c])
BY DEF Base

Moves(c) ==
  /\ call' \in [Call -> CallState]
  /\ CallOK(call'[c])
  /\ \A d \in Call : d # c => call'[d] = call[d]

LEMMA Becomes ==
  ASSUME Base, NEW c \in Call, NEW x \in CallState, CallOK(x), call' = [call EXCEPT ![c] = x]
  PROVE  Moves(c) /\ call'[c] = x
BY DEF Base, Moves

\* A call begins.
LEMMA Begins ==
  ASSUME Base, NEW c \in Call, NEW x \in CallState, CallOK(x), Begin(c, x)
  PROVE  Moves(c) /\ call'[c] = x /\ calls' \in 0..MaxCalls
<1>1. call' = [call EXCEPT ![c] = x]
  BY DEF Begin
<1>2. calls \in Int /\ calls >= 0 /\ calls < MaxCalls /\ calls' = calls + 1 /\ MaxCalls \in Nat
  <2>1. calls \in 0..MaxCalls
    BY DEF Base, TypeOK
  <2>2. calls < MaxCalls /\ calls' = calls + 1
    BY DEF Begin
  <2>3. MaxCalls \in Nat
    BY HandoverAssumption
  <2>4. QED
    BY <2>1, <2>2, <2>3
<1>3. calls' \in 0..MaxCalls
  BY <1>2
<1>4. QED
  BY <1>1, <1>3, Becomes

\* Only what it is at changes.
LEMMA GotoMoves ==
  ASSUME Base, NEW c \in Call, NEW p \in Steps, Goto(c, p), CallOK([call[c] EXCEPT !.pc = p])
  PROVE  /\ Moves(c)
         /\ call'[c].pc = p /\ call'[c].r = call[c].r /\ call'[c].agent = call[c].agent
         /\ call'[c].verdict = call[c].verdict /\ call'[c].rows = call[c].rows
         /\ call'[c].crew = call[c].crew /\ call'[c].counts = call[c].counts
<1> DEFINE x == [call[c] EXCEPT !.pc = p]
<1>1. /\ x \in CallState
      /\ x.pc = p /\ x.r = call[c].r /\ x.agent = call[c].agent /\ x.verdict = call[c].verdict
      /\ x.rows = call[c].rows /\ x.crew = call[c].crew /\ x.counts = call[c].counts
  BY CallTyped DEF CallState
<1>2. call' = [call EXCEPT ![c] = x]
  BY DEF Goto, Base
<1>3. QED
  BY <1>1, <1>2, Becomes

LEMMA EndMoves ==
  ASSUME Base, NEW c \in Call, End(c)
  PROVE  Moves(c) /\ call'[c] = Idle
BY IdleTyped, Becomes DEF End
LEMMA AssignMoves ==
  ASSUME Base, NEW c \in Call, NEW a \in Agent \union {None}, Assign(c, a)
  PROVE  /\ Moves(c)
         /\ call'[c] = Idle \/ (call'[c] = [Idle EXCEPT !.pc = "demote", !.agent = a] /\ a \in Agent)
<1>1. CASE a = None
  BY <1>1, IdleTyped, Becomes DEF Assign
<1>2. CASE a # None
  <2> DEFINE x == [Idle EXCEPT !.pc = "demote", !.agent = a]
  <2>1. x \in CallState /\ CallOK(x)
    BY <1>2, IdleTyped, NoneApart DEF Idle, CallState, CallOK, Steps
  <2>2. QED
    BY <1>2, <2>1, Becomes DEF Assign
<1>3. QED
  BY <1>1, <1>2

LEMMA NextRowMoves ==
  ASSUME Base, NEW c \in Call, NEW r \in Request, First(r, call[c].rows), NextRow(c, r)
  PROVE  /\ Moves(c)
         /\ \/ call'[c] = Idle
            \/ /\ call'[c].pc = "row" /\ call'[c].rows \subseteq call[c].rows
               /\ call'[c].counts = call[c].counts /\ call'[c].verdict = call[c].verdict
<1>1. CASE call[c].rows = {r}
  BY <1>1, IdleTyped, Becomes DEF NextRow, End
<1>2. CASE call[c].rows # {r}
  <2> DEFINE x == [call[c] EXCEPT !.pc = "row", !.rows = call[c].rows \ {r}]
  <2>1. /\ x \in CallState /\ x.pc = "row" /\ x.rows = call[c].rows \ {r}
        /\ x.counts = call[c].counts /\ x.verdict = call[c].verdict
        /\ x.r = call[c].r /\ x.crew = call[c].crew
    BY CallTyped DEF CallState, Steps
  <2>2. x.rows # {} /\ call[c].rows # {}
    BY <1>2, <2>1 DEF First
  <2>3. CallOK(x)
    BY <2>1, <2>2, CallTyped DEF CallOK
  <2>4. call' = [call EXCEPT ![c] = x]
    BY <1>2 DEF NextRow, Base
  <2>5. QED
    BY <2>1, <2>3, <2>4, Becomes
<1>3. QED
  BY <1>1, <1>2

LEMMA InsertMoves ==
  ASSUME Base, NEW c \in Call, NEW r \in Request, NEW p \in {"show", "deadline", "found"},
         call[c].pc \in {"insert", "look"}, p = "show" => call[c].pc = "insert",
         call' = [call EXCEPT ![c].pc = p, ![c].r = r]
  PROVE  /\ Moves(c)
         /\ call'[c].pc = p /\ call'[c].r = r /\ call'[c].rows = {} /\ call'[c].crew = {}
         /\ call'[c].verdict = call[c].verdict /\ call'[c].agent = call[c].agent
<1> DEFINE x == [call[c] EXCEPT !.pc = p, !.r = r]
<1>1. /\ x \in CallState /\ x.pc = p /\ x.r = r /\ x.rows = call[c].rows /\ x.crew = call[c].crew
      /\ x.verdict = call[c].verdict /\ x.agent = call[c].agent
  BY CallTyped DEF CallState, Steps
<1>2. call[c].rows = {} /\ call[c].crew = {}
  BY CallTyped DEF CallOK
<1>3. CallOK(x)
  BY <1>1, <1>2, CallTyped DEF CallOK
<1>4. call' = [call EXCEPT ![c] = x]
  BY DEF Base
<1>5. QED
  BY <1>1, <1>2, <1>3, <1>4, Becomes

LEMMA DeadlineMoves ==
  ASSUME Base, NEW c \in Call, SetDeadline(c)
  PROVE  /\ Moves(c)
         /\ call'[c].pc = "show" /\ call'[c].r = call[c].r /\ call'[c].verdict = "pending"
         /\ call'[c].rows = {} /\ call'[c].crew = {}
<1> DEFINE x == [call[c] EXCEPT !.pc = "show", !.verdict = "pending"]
<1>1. /\ x \in CallState /\ x.pc = "show" /\ x.verdict = "pending" /\ x.r = call[c].r
      /\ x.rows = call[c].rows /\ x.crew = call[c].crew
  BY CallTyped DEF CallState, Steps, Status
<1>2. call[c].pc = "deadline" /\ call[c].rows = {} /\ call[c].crew = {}
  BY CallTyped DEF SetDeadline, At, CallOK
<1>3. CallOK(x)
  BY <1>1, <1>2, CallTyped DEF CallOK
<1>4. call' = [call EXCEPT ![c] = x]
  BY DEF SetDeadline, Base
<1>5. QED
  BY <1>1, <1>2, <1>3, <1>4, Becomes

LEMMA FallbackMoves ==
  ASSUME Base, NEW c \in Call, NEW b \in Agent \union {None}, call[c].pc = "remove",
         call' = [call EXCEPT ![c].pc = "fallback", ![c].agent = b]
  PROVE  Moves(c) /\ call'[c].pc = "fallback" /\ call'[c].agent = b /\ call'[c].rows = {} /\ call'[c].crew = {}
<1> DEFINE x == [call[c] EXCEPT !.pc = "fallback", !.agent = b]
<1>1. /\ x \in CallState /\ x.pc = "fallback" /\ x.agent = b /\ x.r = call[c].r
      /\ x.rows = call[c].rows /\ x.crew = call[c].crew
  BY CallTyped DEF CallState, Steps
<1>2. call[c].rows = {} /\ call[c].crew = {}
  BY CallTyped DEF CallOK
<1>3. CallOK(x)
  BY <1>1, <1>2, CallTyped DEF CallOK
<1>4. call' = [call EXCEPT ![c] = x]
  BY DEF Base
<1>5. QED
  BY <1>1, <1>2, <1>3, <1>4, Becomes

LEMMA SyncMoves ==
  ASSUME Base, NEW c \in Call, SyncRead(c) \/ \E a \in Agent : Sync(c, a)
  PROVE  /\ Moves(c)
         /\ call'[c].pc \in {"syncing", "drop"} /\ call'[c].crew = call[c].crew
         /\ call'[c].agent = call[c].agent /\ call'[c].rows = {}
<1>1. CASE SyncRead(c)
  <2> DEFINE x == [call[c] EXCEPT !.pc = "syncing", !.left = call[c].crew,
                                  !.had = {a \in call[c].crew : row[a] # "none"}]
  <2>1. /\ x \in CallState /\ x.pc = "syncing" /\ x.agent = call[c].agent /\ x.r = call[c].r
        /\ x.rows = call[c].rows /\ x.crew = call[c].crew
    BY CallTyped DEF CallState, Steps
  <2>2. call[c].pc = "sync" /\ CallOK(x)
    BY <1>1, <2>1, CallTyped DEF SyncRead, At, CallOK
  <2>3. call' = [call EXCEPT ![c] = x]
    BY <1>1 DEF SyncRead, Base
  <2>4. QED
    BY <2>1, <2>2, <2>3, Becomes, CallTyped DEF CallOK
<1>2. ASSUME NEW a \in Agent, Sync(c, a)
      PROVE  /\ Moves(c)
             /\ call'[c].pc \in {"syncing", "drop"} /\ call'[c].crew = call[c].crew
             /\ call'[c].agent = call[c].agent /\ call'[c].rows = {}
  <2> DEFINE p == IF call[c].left = {a} THEN "drop" ELSE call[c].pc
             x == [call[c] EXCEPT !.left = call[c].left \ {a}, !.pc = p]
  <2>1. call[c].pc = "syncing" /\ p \in {"syncing", "drop"} /\ p \in Steps
    BY <1>2 DEF Sync, At, Steps
  <2>2. /\ x \in CallState /\ x.pc = p /\ x.agent = call[c].agent /\ x.r = call[c].r
        /\ x.rows = call[c].rows /\ x.crew = call[c].crew
    BY <2>1, CallTyped DEF CallState
  <2>3. CallOK(x)
    BY <2>1, <2>2, CallTyped DEF CallOK
  <2>4. call' = [call EXCEPT ![c] = x]
    BY <1>2 DEF Sync, Base
  <2>5. QED
    BY <2>1, <2>2, <2>3, <2>4, Becomes, CallTyped DEF CallOK
<1>3. QED
  BY <1>1, <1>2

LEMMA StartMoves ==
  ASSUME Base, NEW c \in Call, Start(c)
  PROVE  /\ Moves(c) /\ calls' \in 0..MaxCalls /\ call[c].pc = "idle"
         /\ \/ call'[c] = Idle
            \/ call'[c].pc \in {"insert", "look", "demote"}
            \/ /\ call'[c].pc = "decide" /\ req[call'[c].r].status = "pending"
         /\ call'[c].rows = {} /\ call'[c].crew = {}
<1>0. Idle.rows = {} /\ Idle.crew = {}
  BY DEF Idle
<1>1. ASSUME NEW v \in {"pending", "approved"}, NEW a \in Agent \union {None}, CreateRequest(c, v, a)
      PROVE  /\ Moves(c) /\ calls' \in 0..MaxCalls /\ call'[c].pc = "insert"
             /\ call'[c].rows = {} /\ call'[c].crew = {}
  <2> DEFINE x == [Idle EXCEPT !.pc = "insert", !.verdict = v, !.agent = a]
  <2>1. x \in CallState /\ CallOK(x) /\ x.pc = "insert" /\ x.rows = {} /\ x.crew = {}
    BY IdleTyped, NoneApart DEF Idle, CallState, CallOK, Steps, Status
  <2>2. QED
    BY <1>1, <2>1, Begins DEF CreateRequest
<1>2. ASSUME NEW a \in Agent \union {None}, Workflow(c, a)
      PROVE  /\ Moves(c) /\ calls' \in 0..MaxCalls /\ call'[c].pc = "look"
             /\ call'[c].rows = {} /\ call'[c].crew = {}
  <2> DEFINE x == [Idle EXCEPT !.pc = "look", !.agent = a]
  <2>1. x \in CallState /\ CallOK(x) /\ x.pc = "look" /\ x.rows = {} /\ x.crew = {}
    BY IdleTyped, NoneApart DEF Idle, CallState, CallOK, Steps, Status
  <2>2. QED
    BY <1>2, <2>1, Begins DEF Workflow
<1>3. ASSUME NEW r \in Request, NEW v \in {"approved", "rejected"}, Decide(c, r, v)
      PROVE  /\ Moves(c) /\ calls' \in 0..MaxCalls
             /\ \/ call'[c] = Idle
                \/ call'[c].pc = "decide" /\ req[call'[c].r].status = "pending"
             /\ call'[c].rows = {} /\ call'[c].crew = {}
  <2> DEFINE x == [Idle EXCEPT !.pc = "decide", !.r = r, !.verdict = v, !.agent = req[r].target]
  <2>1. CASE req[r].status # "pending"
    BY <1>0, <1>3, <2>1, IdleTyped, Begins DEF Decide
  <2>2. CASE req[r].status = "pending"
    <3>1. req[r].target \in Agent \union {None}
      BY DEF Base, TypeOK
    <3>2. x \in CallState /\ CallOK(x) /\ x.pc = "decide" /\ x.r = r /\ x.rows = {} /\ x.crew = {}
      BY <3>1, IdleTyped, NoneApart DEF Idle, CallState, CallOK, Steps, Status
    <3>3. QED
      BY <1>3, <2>2, <3>2, Begins DEF Decide
  <2>3. QED
    BY <2>1, <2>2
<1>4. ASSUME NEW a \in Agent, AssignByHand(c, a)
      PROVE  /\ Moves(c) /\ calls' \in 0..MaxCalls /\ call'[c].pc = "demote"
             /\ call'[c].rows = {} /\ call'[c].crew = {}
  <2> DEFINE x == [Idle EXCEPT !.pc = "demote", !.agent = a]
  <2>1. x \in CallState /\ CallOK(x) /\ x.pc = "demote" /\ x.rows = {} /\ x.crew = {}
    BY IdleTyped, NoneApart DEF Idle, CallState, CallOK, Steps, Status
  <2>2. QED
    BY <1>4, <2>1, Begins DEF AssignByHand
<1>5. call[c].pc = "idle"
  BY DEF Start, CreateRequest, Workflow, Decide, AssignByHand, Begin, At
<1>6. QED
  BY <1>1, <1>2, <1>3, <1>4, <1>5 DEF Start

LEMMA RemoveMoves ==
  ASSUME Base, NEW c \in Call, NEW a \in Agent, RemoveAgent(c, a)
  PROVE  /\ Moves(c) /\ calls' \in 0..MaxCalls
         /\ call'[c].pc = "remove" /\ call'[c].agent = a /\ call'[c].rows = {} /\ call'[c].crew = {}
<1> DEFINE x == [Idle EXCEPT !.pc = "remove", !.agent = a]
<1>1. x \in CallState /\ CallOK(x) /\ x.pc = "remove" /\ x.agent = a /\ x.rows = {} /\ x.crew = {}
  BY IdleTyped, NoneApart DEF Idle, CallState, CallOK, Steps, Status
<1>2. QED
  BY <1>1, Begins DEF RemoveAgent

LEMMA BulkMoves ==
  ASSUME Base, NEW c \in Call, NEW crew \in SUBSET Agent, crew # {}, BulkEdit(c, crew)
  PROVE  /\ Moves(c) /\ calls' \in 0..MaxCalls
         /\ call'[c].pc = "sync" /\ call'[c].agent = assignee /\ call'[c].rows = {}
         /\ call'[c].crew = crew \union ({assignee} \ {None}) /\ call'[c].crew # {}
<1> DEFINE all == crew \union ({assignee} \ {None})
           x == [Idle EXCEPT !.pc = "sync", !.agent = assignee, !.crew = all]
<1>1. all \in SUBSET Agent /\ all # {} /\ assignee \in Agent \union {None}
  BY DEF Base, TypeOK
<1>2. x \in CallState /\ CallOK(x) /\ x.pc = "sync" /\ x.agent = assignee /\ x.rows = {} /\ x.crew = all
  <2> HIDE DEF all
  <2>1. QED
    BY <1>1, IdleTyped, NoneApart DEF Idle, CallState, CallOK, Steps, Status
<1>3. QED
  BY <1>1, <1>2, Begins DEF BulkEdit

LEMMA SweepMoves ==
  ASSUME Base, NEW c \in Call, NEW supervisors \in BOOLEAN, Sweep(c, supervisors)
  PROVE  /\ Moves(c) /\ calls' \in 0..MaxCalls
         /\ \/ call'[c] = Idle
            \/ /\ call'[c].pc = "row"
               /\ call'[c].rows = {r \in Pending : req[r].overdue}
               /\ call'[c].verdict = IF supervisors THEN "escalate" ELSE "triage"
               /\ \A r \in Request : call'[c].counts[r] = req[r].count
         /\ call'[c].crew = {}
<1> DEFINE due == {r \in Pending : req[r].overdue}
           cs == [r \in Request |-> req[r].count]
           v == IF supervisors THEN "escalate" ELSE "triage"
           x == [Idle EXCEPT !.pc = "row", !.rows = due, !.verdict = v, !.counts = cs]
<1>0. Idle.crew = {}
  BY DEF Idle
<1>1. CASE due = {}
  BY <1>0, <1>1, IdleTyped, Begins DEF Sweep
<1>2. CASE due # {}
  <2>1. due \in SUBSET Request /\ cs \in [Request -> 0..Limit] /\ v \in {"escalate", "triage"}
    BY DEF Base, TypeOK, Pending
  <2>2. /\ x \in CallState /\ CallOK(x) /\ x.pc = "row" /\ x.rows = due /\ x.crew = {}
        /\ x.counts = cs /\ x.verdict = v
    <3> HIDE DEF due, cs, v
    <3>1. QED
      BY <1>2, <2>1, IdleTyped, NoneApart DEF Idle, CallState, CallOK, Steps, Status
  <2>3. Begin(c, x)
    BY <1>2 DEF Sweep
  <2>4. QED
    BY <2>2, <2>3, Begins
<1>3. QED
  BY <1>1, <1>2

-----------------------------------------------------------------------------
(* The types. *)

Data ==
  /\ req \in [Request -> [status : Status \union {"none"}, target : Agent \union {None},
                          overdue : BOOLEAN, count : 0..Limit, triage : BOOLEAN]]
  /\ shown \in Shown
  /\ row \in [Agent -> {"none", "active", "inactive"}]
  /\ primary \in [Agent -> BOOLEAN]
  /\ assignee \in Agent \union {None}

LEMMA DataTyped == Base => Data /\ calls \in 0..MaxCalls
BY DEF Base, TypeOK, Data

\* A request of a call.
LEMMA CallParts ==
  ASSUME Base, NEW c \in Call
  PROVE  /\ call[c].pc \in {"show", "found", "deadline", "decide", "verdict", "resolve"}
              => call[c].r \in Request
         /\ call[c].pc \in {"demote", "promote", "assignee", "remove"} => call[c].agent \in Agent
         /\ call[c].pc \in {"insert", "show"} => call[c].verdict \in {"pending", "approved"}
         /\ call[c].pc \in {"decide", "verdict"} => call[c].verdict \in {"approved", "rejected"}
         /\ call[c].agent \in Agent \union {None} /\ call[c].r \in Request \union {None}
         /\ call[c].rows \subseteq Request /\ call[c].crew \subseteq Agent
         /\ \A r \in Request : call[c].counts[r] \in 0..Limit
BY CallTyped DEF CallOK, CallState

LEMMA InsertTyped ==
  ASSUME Data, NEW r \in Request, NEW v \in Status, NEW a \in Agent \union {None}, Insert(r, v, a)
  PROVE  req' \in [Request -> [status : Status \union {"none"}, target : Agent \union {None},
                               overdue : BOOLEAN, count : 0..Limit, triage : BOOLEAN]]
<1> DEFINE x == [NoReq EXCEPT !.status = v, !.target = a, !.overdue = TRUE]
<1>1. 0 \in 0..Limit
  BY NoneApart
<1>2. x \in [status : Status \union {"none"}, target : Agent \union {None},
              overdue : BOOLEAN, count : 0..Limit, triage : BOOLEAN]
  BY <1>1 DEF NoReq
<1>3. req' = [req EXCEPT ![r] = x]
  BY DEF Insert
<1>4. QED
  <2> HIDE DEF x
  <2>1. QED
    BY <1>2, <1>3 DEF Data

\* Another target, another deadline, another count.
LEMMA ChangeTyped ==
  ASSUME Data, NEW r \in Request, NEW a \in Agent \union {None}, NEW o \in BOOLEAN,
         NEW n \in 0..Limit, NEW t \in BOOLEAN, NEW v \in Status,
         \/ req' = [req EXCEPT ![r].target = a]
         \/ req' = [req EXCEPT ![r].overdue = o, ![r].count = n, ![r].triage = t]
         \/ req' = [req EXCEPT ![r].count = n, ![r].overdue = o]
  PROVE  req' \in [Request -> [status : Status \union {"none"}, target : Agent \union {None},
                               overdue : BOOLEAN, count : 0..Limit, triage : BOOLEAN]]
<1> DEFINE x1 == [req[r] EXCEPT !.target = a]
           x2 == [req[r] EXCEPT !.overdue = o, !.count = n, !.triage = t]
           x3 == [req[r] EXCEPT !.count = n, !.overdue = o]
           R  == [status : Status \union {"none"}, target : Agent \union {None},
                  overdue : BOOLEAN, count : 0..Limit, triage : BOOLEAN]
<1>1. x1 \in R /\ x2 \in R /\ x3 \in R
  <2>1. req[r] \in R
    BY DEF Data
  <2>2. x1 \in R
    BY <2>1
  <2>3. x2 \in R
    BY <2>1
  <2>4. x3 \in R
    BY <2>1
  <2>5. QED
    BY <2>2, <2>3, <2>4
<1>2. req' = [req EXCEPT ![r] = x1] \/ req' = [req EXCEPT ![r] = x2] \/ req' = [req EXCEPT ![r] = x3]
  <2>1. CASE req' = [req EXCEPT ![r].target = a]
    <3>1. req' = [req EXCEPT ![r] = x1]
      BY <2>1, Zenon
    <3>2. QED
      BY <3>1
  <2>2. CASE req' = [req EXCEPT ![r].overdue = o, ![r].count = n, ![r].triage = t]
    <3>1. req' = [req EXCEPT ![r] = x2]
      BY <2>2 DEF Data
    <3>2. QED
      BY <3>1
  <2>3. CASE req' = [req EXCEPT ![r].count = n, ![r].overdue = o]
    <3>1. req' = [req EXCEPT ![r] = x3]
      BY <2>3 DEF Data
    <3>2. QED
      BY <3>1
  <2>4. QED
    BY <2>1, <2>2, <2>3
<1>3. QED
  <2>1. req \in [Request -> R]
    BY DEF Data
  <2> HIDE DEF x1, x2, x3, R
  <2>2. req' \in [Request -> R]
    BY <1>1, <1>2, <2>1
  <2>3. QED
    BY <2>2 DEF R

LEMMA ShowTyped ==
  ASSUME NEW v \in Status, NEW r \in Request
  PROVE  Show(v, r) \in Shown
BY DEF Show, Shown

\* The steps on requests.
LEMMA RequestSteps ==
  ASSUME Base, NEW c \in Call,
         \/ InsertRequest(c) \/ ShowRequest(c) \/ LookForPending(c) \/ Retarget(c) \/ SetDeadline(c)
         \/ WriteVerdict(c) \/ ShowVerdict(c) \/ Resolve(c)
  PROVE  Moves(c) /\ Data' /\ calls' \in 0..MaxCalls
<1>0. Data /\ calls \in 0..MaxCalls
  BY DataTyped
<1>1. CASE InsertRequest(c)
  <2>1. PICK r \in Request : /\ Insert(r, call[c].verdict, call[c].agent)
                             /\ call' = [call EXCEPT ![c].pc = "show", ![c].r = r]
    BY <1>1 DEF InsertRequest
  <2>2. call[c].pc = "insert" /\ call[c].verdict \in Status /\ call[c].agent \in Agent \union {None}
    BY <1>1, CallParts DEF InsertRequest, At, Status
  <2>3. Moves(c)
    BY <2>1, <2>2, InsertMoves
  <2>4. QED
    BY <1>0, <1>1, <2>1, <2>2, <2>3, InsertTyped DEF InsertRequest, agentVars, Data
<1>2. CASE ShowRequest(c)
  <2>1. /\ call[c].pc = "show" /\ call[c].r \in Request /\ call[c].verdict \in Status
        /\ call[c].agent \in Agent \union {None}
    BY <1>2, CallParts DEF ShowRequest, At, Status
  <2>2. Moves(c)
    BY <1>2, <2>1, EndMoves, AssignMoves DEF ShowRequest
  <2>3. shown' \in Shown
    BY <1>2, <2>1, ShowTyped DEF ShowRequest
  <2>4. QED
    BY <1>0, <1>2, <2>2, <2>3 DEF ShowRequest, agentVars, Data
<1>3. CASE LookForPending(c)
  <2>0. call[c].pc = "look" /\ call[c].agent \in Agent \union {None}
    BY <1>3, CallParts DEF LookForPending, At
  <2>1. ASSUME NEW r \in Request, Insert(r, "pending", call[c].agent),
               call' = [call EXCEPT ![c].pc = "deadline", ![c].r = r]
        PROVE  Moves(c) /\ Data' /\ calls' \in 0..MaxCalls
    <3>1. Moves(c)
      BY <2>0, <2>1, InsertMoves
    <3>2. "pending" \in Status
      BY DEF Status
    <3>3. QED
      BY <1>0, <1>3, <2>0, <2>1, <3>1, <3>2, InsertTyped DEF LookForPending, agentVars, Data
  <2>2. ASSUME NEW r \in Pending,
               IF call[c].agent = None THEN End(c)
               ELSE call' = [call EXCEPT ![c].pc = "found", ![c].r = r],
               UNCHANGED req
        PROVE  Moves(c) /\ Data' /\ calls' \in 0..MaxCalls
    <3>1. r \in Request
      BY DEF Pending
    <3>2. Moves(c)
      BY <2>0, <2>2, <3>1, EndMoves, InsertMoves
    <3>3. QED
      BY <1>0, <1>3, <2>2, <3>2 DEF LookForPending, agentVars, Data
  <2>3. QED
    BY <1>3, <2>1, <2>2 DEF LookForPending
<1>4. CASE Retarget(c)
  <2>1. call[c].r \in Request /\ call[c].agent \in Agent \union {None} /\ Moves(c)
    BY <1>4, CallParts, EndMoves DEF Retarget, At
  <2>2. QED
    BY <1>0, <1>4, <2>1 DEF Retarget, agentVars, Data
<1>5. CASE SetDeadline(c)
  <2>1. call[c].r \in Request /\ Moves(c)
    BY <1>5, CallParts, DeadlineMoves DEF SetDeadline, At
  <2>2. 0 \in 0..Limit
    BY NoneApart
  <2>3. QED
    <3>1. req' = [req EXCEPT ![call[c].r].overdue = FALSE, ![call[c].r].count = 0,
                            ![call[c].r].triage = FALSE]
      BY <1>5 DEF SetDeadline
    <3>2. req' \in [Request -> [status : Status \union {"none"}, target : Agent \union {None},
                               overdue : BOOLEAN, count : 0..Limit, triage : BOOLEAN]]
      BY <1>0, <2>1, <2>2, <3>1, ChangeTyped DEF Status
    <3>3. QED
      BY <1>0, <1>5, <2>1, <3>2 DEF SetDeadline, agentVars, Data
<1>6. CASE WriteVerdict(c)
  <2>1. call[c].pc = "decide" /\ call[c].r \in Request /\ call[c].verdict \in {"approved", "rejected"}
    BY <1>6, CallParts DEF WriteVerdict, At
  <2>2. CallOK([call[c] EXCEPT !.pc = "verdict"])
    BY <2>1, CallTyped DEF CallOK, CallState
  <2>3. Moves(c)
    BY <1>6, <2>2, GotoMoves DEF WriteVerdict, Steps
  <2>4. QED
    BY <1>0, <1>6, <2>1, <2>3 DEF WriteVerdict, agentVars, Data, Status
<1>7. CASE ShowVerdict(c)
  <2>1. /\ call[c].pc = "verdict" /\ call[c].r \in Request /\ call[c].verdict \in Status
        /\ call[c].agent \in Agent \union {None}
    BY <1>7, CallParts DEF ShowVerdict, At, Status
  <2>2. CallOK([call[c] EXCEPT !.pc = "resolve"])
    BY <2>1, CallTyped DEF CallOK, CallState
  <2>3. Moves(c)
    <3>1. "resolve" \in Steps
      BY DEF Steps
    <3>2. QED
      BY <1>7, <2>1, <2>2, <3>1, EndMoves, AssignMoves, GotoMoves DEF ShowVerdict
  <2>4. shown' \in Shown
    BY <1>7, <2>1, ShowTyped DEF ShowVerdict
  <2>5. QED
    BY <1>0, <1>7, <2>3, <2>4 DEF ShowVerdict, agentVars, Data
<1>8. CASE Resolve(c)
  <2>1. call[c].r \in Request
    BY <1>8, CallParts DEF Resolve, At
  <2>2. ASSUME End(c), UNCHANGED req
        PROVE  Moves(c) /\ Data' /\ calls' \in 0..MaxCalls
    BY <1>0, <1>8, <2>2, EndMoves DEF Resolve, agentVars, Data
  <2>3. ASSUME NEW a \in Agent, req' = [req EXCEPT ![call[c].r].target = a], Assign(c, a)
        PROVE  Moves(c) /\ Data' /\ calls' \in 0..MaxCalls
    <3>1. 0 \in 0..Limit
      BY NoneApart
    <3>2. req' \in [Request -> [status : Status \union {"none"}, target : Agent \union {None},
                               overdue : BOOLEAN, count : 0..Limit, triage : BOOLEAN]]
      BY <1>0, <2>1, <2>3, <3>1, ChangeTyped DEF Status
    <3>3. Moves(c)
      BY <2>3, AssignMoves
    <3>4. QED
      BY <1>0, <1>8, <3>2, <3>3 DEF Resolve, agentVars, Data
  <2>4. QED
    BY <1>8, <2>2, <2>3 DEF Resolve
<1>9. QED
  BY <1>1, <1>2, <1>3, <1>4, <1>5, <1>6, <1>7, <1>8

\* The steps on the agents.
LEMMA AgentSteps ==
  ASSUME Base, NEW c \in Call,
         \/ Demote(c) \/ Promote(c) \/ SetAssignee(c) \/ ReadAssignee(c) \/ FallBack(c)
         \/ SyncRead(c) \/ (\E a \in Agent : Sync(c, a)) \/ Drop(c)
  PROVE  Moves(c) /\ Data' /\ calls' \in 0..MaxCalls
<1>0. Data /\ calls \in 0..MaxCalls
  BY DataTyped
<1>1. CASE Demote(c)
  <2>1. CallOK([call[c] EXCEPT !.pc = "promote"]) /\ "promote" \in Steps
    BY <1>1, CallTyped DEF Demote, At, CallOK, CallState, Steps
  <2>2. Moves(c)
    BY <1>1, <2>1, GotoMoves DEF Demote
  <2>3. primary' \in [Agent -> BOOLEAN]
    BY <1>1, <1>0, Zenon DEF Demote, Data
  <2>4. QED
    BY <1>0, <1>1, <2>2, <2>3 DEF Demote, Data
<1>2. CASE Promote(c)
  <2>1. CallOK([call[c] EXCEPT !.pc = "assignee"]) /\ "assignee" \in Steps
    BY <1>2, CallTyped DEF Promote, At, CallOK, CallState, Steps
  <2>2. Moves(c)
    BY <1>2, <2>1, GotoMoves DEF Promote
  <2>3. QED
    BY <1>0, <1>2, <2>2 DEF Promote, Data
<1>3. CASE SetAssignee(c)
  BY <1>0, <1>3, CallParts, EndMoves DEF SetAssignee, At, Data
<1>4. CASE ReadAssignee(c)
  <2>1. Moves(c)
    <3>1. ASSUME NEW b \in IF Fallbacks(call[c].agent) = {} THEN {None} ELSE Fallbacks(call[c].agent)
          PROVE  b \in Agent \union {None}
      BY DEF Fallbacks
    <3>2. call[c].pc = "remove"
      BY <1>4 DEF ReadAssignee, At
    <3>3. QED
      BY <1>4, <3>1, <3>2, EndMoves, FallbackMoves DEF ReadAssignee
  <2>2. QED
    BY <1>0, <1>4, <2>1 DEF ReadAssignee, agentVars, Data
<1>5. CASE FallBack(c)
  BY <1>0, <1>5, CallParts, EndMoves DEF FallBack, At, Data
<1>6. CASE SyncRead(c)
  BY <1>0, <1>6, SyncMoves DEF SyncRead, agentVars, Data
<1>7. ASSUME NEW a \in Agent, Sync(c, a)
      PROVE  Moves(c) /\ Data' /\ calls' \in 0..MaxCalls
  <2>1. Moves(c)
    BY <1>7, SyncMoves
  <2>2. primary' \in [Agent -> BOOLEAN]
    BY <1>7, <1>0, Zenon DEF Sync, Data
  <2>3. row' \in [Agent -> {"none", "active", "inactive"}]
    BY <1>7, <1>0 DEF Sync, Data
  <2>4. QED
    BY <1>0, <1>7, <2>1, <2>2, <2>3 DEF Sync, Data
<1>8. CASE Drop(c)
  <2>1. Moves(c)
    BY <1>8, EndMoves DEF Drop
  <2>2. primary' \in [Agent -> BOOLEAN]
    BY <1>8, <1>0, Zenon DEF Drop, Data
  <2>3. row' \in [Agent -> {"none", "active", "inactive"}]
    BY <1>8, <1>0 DEF Drop, Data
  <2>4. QED
    BY <1>0, <1>8, <2>1, <2>2, <2>3 DEF Drop, Data
<1>9. QED
  BY <1>1, <1>2, <1>3, <1>4, <1>5, <1>6, <1>7, <1>8

\* The steps of a sweep.
LEMMA SweepSteps ==
  ASSUME Base, NEW c \in Call, NEW r \in Request,
         Escalate(c, r) \/ Triage(c, r) \/ ShowTriage(c, r)
  PROVE  Moves(c) /\ Data' /\ calls' \in 0..MaxCalls
<1>0. Data /\ calls \in 0..MaxCalls
  BY DataTyped
<1>1. CASE Escalate(c, r)
  <2>1. call[c].counts[r] \in 0..Limit /\ call[c].counts[r] < Limit
    BY <1>1, CallParts DEF Escalate, Escalates
  <2>2. call[c].counts[r] + 1 \in 0..Limit
    BY <2>1, NoneApart
  <2>3. Moves(c)
    BY <1>1, NextRowMoves DEF Escalate
  <2>4. QED
    <3>1. req' = [req EXCEPT ![r].count = call[c].counts[r] + 1, ![r].overdue = FALSE]
      BY <1>1 DEF Escalate
    <3>2. req' \in [Request -> [status : Status \union {"none"}, target : Agent \union {None},
                               overdue : BOOLEAN, count : 0..Limit, triage : BOOLEAN]]
      BY <1>0, <2>2, <3>1, ChangeTyped DEF Status
    <3>3. QED
      BY <1>0, <1>1, <2>3, <3>2 DEF Escalate, agentVars, Data
<1>2. CASE Triage(c, r)
  <2>1. CallOK([call[c] EXCEPT !.pc = "triaged"]) /\ "triaged" \in Steps
    BY <1>2, CallTyped DEF Triage, At, CallOK, CallState, Steps
  <2>2. Moves(c)
    BY <1>2, <2>1, GotoMoves DEF Triage
  <2>3. QED
    BY <1>0, <1>2, <2>2 DEF Triage, agentVars, Data
<1>3. CASE ShowTriage(c, r)
  <2>1. "pending" \in Status
    BY DEF Status
  <2>2. Moves(c)
    BY <1>3, NextRowMoves DEF ShowTriage
  <2>3. shown' \in Shown
    BY <1>3, <2>1, ShowTyped DEF ShowTriage
  <2>4. QED
    BY <1>0, <1>3, <2>2, <2>3 DEF ShowTriage, agentVars, Data
<1>4. QED
  BY <1>1, <1>2, <1>3

LEMMA StepMoves ==
  ASSUME Base, NEW c \in Call, Step(c)
  PROVE  Moves(c) /\ Data' /\ calls' \in 0..MaxCalls
BY RequestSteps, AgentSteps, SweepSteps DEF Step

\* The steps that a call begins with change nothing else, but for a removal and a hand-off.
LEMMA OutsideSteps ==
  ASSUME Base, NEW c \in Call,
         \/ Start(c) \/ (\E a \in Agent : RemoveAgent(c, a) \/ Handoff(c, a))
         \/ (\E crew \in (SUBSET Agent) \ {{}} : BulkEdit(c, crew))
         \/ Sweep(c, TRUE) \/ Sweep(c, FALSE) \/ Crash(c)
  PROVE  Moves(c) /\ Data' /\ calls' \in 0..MaxCalls
<1>0. Data /\ calls \in 0..MaxCalls
  BY DataTyped
<1>1. CASE Start(c)
  <2>1. UNCHANGED <<req, shown, agentVars>>
    BY <1>1 DEF Start, CreateRequest, Workflow, Decide, AssignByHand
  <2>2. QED
    BY <1>0, <1>1, <2>1, StartMoves DEF agentVars, Data
<1>2. ASSUME NEW a \in Agent, RemoveAgent(c, a)
      PROVE  Moves(c) /\ Data' /\ calls' \in 0..MaxCalls
  BY <1>0, <1>2, RemoveMoves DEF RemoveAgent, Data
<1>3. ASSUME NEW a \in Agent, Handoff(c, a)
      PROVE  Moves(c) /\ Data' /\ calls' \in 0..MaxCalls
  BY <1>0, <1>3, IdleTyped, Begins DEF Handoff, Data
<1>4. ASSUME NEW crew \in (SUBSET Agent) \ {{}}, BulkEdit(c, crew)
      PROVE  Moves(c) /\ Data' /\ calls' \in 0..MaxCalls
  <2>1. Moves(c) /\ calls' \in 0..MaxCalls
    <3>1. crew \in SUBSET Agent /\ crew # {}
      OBVIOUS
    <3>2. QED
      BY <1>4, <3>1, BulkMoves
  <2>2. UNCHANGED <<req, shown, row, primary, assignee>>
    BY <1>4 DEF BulkEdit, agentVars
  <2>3. QED
    BY <1>0, <2>1, <2>2 DEF Data
<1>5. CASE Sweep(c, TRUE) \/ Sweep(c, FALSE)
  BY <1>0, <1>5, SweepMoves DEF Sweep, agentVars, Data
<1>6. CASE Crash(c)
  BY <1>0, <1>6, EndMoves DEF Crash, agentVars, Data
<1>7. QED
  BY <1>1, <1>2, <1>3, <1>4, <1>5, <1>6

Sides == {"same request", "removal", "bulk", "removal overlaps", "handoff", "crash", "no supervisor"}

LEMMA NoteTyped ==
  ASSUME Base, NEW what \in SUBSET {"removal", "bulk", "handoff", "crash", "no supervisor"}, Note(what)
  PROVE  seen' \subseteq Sides /\ seen \subseteq seen' /\ what \subseteq seen'
BY DEF Base, TypeOK, Note, Sides

\* Who steps, and what is noted.
LEMMA NextCases ==
  ASSUME Base, Next
  PROVE  /\ seen' \subseteq Sides /\ seen \subseteq seen'
         /\ \/ \E c \in Call : Moves(c) /\ Data' /\ calls' \in 0..MaxCalls
            \/ call' = call /\ Data' /\ calls' \in 0..MaxCalls
<1>0. Data /\ calls \in 0..MaxCalls
  BY DataTyped
<1>1. ASSUME NEW c \in Call, Start(c) \/ Step(c), Note({})
      PROVE  seen' \subseteq Sides /\ seen \subseteq seen' /\ Moves(c) /\ Data' /\ calls' \in 0..MaxCalls
  BY <1>1, StepMoves, OutsideSteps, NoteTyped
<1>2. ASSUME NEW c \in Call, NEW a \in Agent, RemoveAgent(c, a), Note({"removal"})
      PROVE  seen' \subseteq Sides /\ seen \subseteq seen' /\ Moves(c) /\ Data' /\ calls' \in 0..MaxCalls
  BY <1>2, OutsideSteps, NoteTyped
<1>3. ASSUME NEW c \in Call, NEW crew \in (SUBSET Agent) \ {{}}, BulkEdit(c, crew), Note({"bulk"})
      PROVE  seen' \subseteq Sides /\ seen \subseteq seen' /\ Moves(c) /\ Data' /\ calls' \in 0..MaxCalls
  BY <1>3, OutsideSteps, NoteTyped
<1>4. ASSUME NEW c \in Call, NEW a \in Agent, Handoff(c, a), Note({"handoff"})
      PROVE  seen' \subseteq Sides /\ seen \subseteq seen' /\ Moves(c) /\ Data' /\ calls' \in 0..MaxCalls
  BY <1>4, OutsideSteps, NoteTyped
<1>5. ASSUME NEW c \in Call, \/ Sweep(c, TRUE) /\ Note({})
                             \/ Sweep(c, FALSE) /\ Note({"no supervisor"})
      PROVE  seen' \subseteq Sides /\ seen \subseteq seen' /\ Moves(c) /\ Data' /\ calls' \in 0..MaxCalls
  BY <1>5, OutsideSteps, NoteTyped
<1>6. ASSUME NEW r \in Request, DeadlinePasses(r), Note({})
      PROVE  seen' \subseteq Sides /\ seen \subseteq seen' /\ call' = call /\ Data' /\ calls' \in 0..MaxCalls
  BY <1>0, <1>6, NoteTyped DEF DeadlinePasses, agentVars, Data
<1>7. ASSUME NEW c \in Call, Crash(c), Note({"crash"})
      PROVE  seen' \subseteq Sides /\ seen \subseteq seen' /\ Moves(c) /\ Data' /\ calls' \in 0..MaxCalls
  BY <1>7, OutsideSteps, NoteTyped
<1>8. QED
  BY <1>1, <1>2, <1>3, <1>4, <1>5, <1>6, <1>7 DEF Next

LEMMA BaseOf ==
  ASSUME call \in [Call -> CallState], \A c \in Call : CallOK(call[c]), Data,
         calls \in 0..MaxCalls, seen \subseteq Sides
  PROVE  Base
BY DEF Base, TypeOK, Data, Sides, CallState

LEMMA BaseInit == Init => Base
<1> SUFFICES ASSUME Init
             PROVE  Base
  OBVIOUS
<1>1. call \in [Call -> CallState] /\ \A c \in Call : CallOK(call[c])
  BY IdleTyped DEF Init
<1>2. Data
  BY NoneApart DEF Init, Data, NoReq, NotShown, Shown
<1>3. calls \in 0..MaxCalls /\ seen \subseteq Sides
  BY HandoverAssumption DEF Init
<1>4. QED
  BY <1>1, <1>2, <1>3, BaseOf

LEMMA BaseStep == Base /\ [Next]_vars => Base'
<1> SUFFICES ASSUME Base, [Next]_vars
             PROVE  Base'
  OBVIOUS
<1>1. CASE UNCHANGED vars
  BY <1>1 DEF Base, TypeOK, CallOK, vars, agentVars
<1>2. CASE Next
  <2>1. call' \in [Call -> CallState] /\ \A c \in Call : CallOK(call'[c])
    <3>1. ASSUME NEW c \in Call, Moves(c)
          PROVE  call' \in [Call -> CallState] /\ \A d \in Call : CallOK(call'[d])
      BY <3>1, CallTyped DEF Moves
    <3>2. QED
      BY <1>2, <3>1, NextCases, CallTyped DEF Base
  <2>2. Data' /\ calls' \in 0..MaxCalls /\ seen' \subseteq Sides
    BY <1>2, NextCases
  <2>3. (call \in [Call -> CallState])' /\ (\A c \in Call : CallOK(call[c]))' /\ (calls \in 0..MaxCalls)'
        /\ (seen \subseteq Sides)'
    BY <2>1, <2>2 DEF CallOK
  <2>4. QED
    BY <2>2, <2>3, BaseOf DEF Base, TypeOK, Data, Sides, CallState
<1>3. QED
  BY <1>1, <1>2

\* Requests, the queue's key, the agents' rows and the calls keep their types; the
\* escalations of a request stay within the limit (handover/service.ts).
THEOREM HandoverTypeCorrect == Spec => []TypeOK
<1>1. Base => TypeOK
  BY DEF Base
<1>2. QED
  BY BaseInit, BaseStep, <1>1, PTL DEF Spec

-----------------------------------------------------------------------------
(* Where the steps lead. *)

\* A call on a request leaves the agents alone, until it assigns one.
RequestPcs == {"insert", "show", "look", "found", "deadline", "decide", "verdict", "resolve"}

Ousts == {"remove", "fallback", "sync", "syncing", "drop"}

LEMMA RequestFlow ==
  ASSUME Base, NEW c \in Call,
         \/ InsertRequest(c) \/ ShowRequest(c) \/ LookForPending(c) \/ Retarget(c) \/ SetDeadline(c)
         \/ WriteVerdict(c) \/ ShowVerdict(c) \/ Resolve(c)
  PROVE  /\ call[c].pc \in RequestPcs /\ call'[c].pc \in RequestPcs \union {"idle", "demote"}
         /\ UNCHANGED <<row, primary, assignee>>
<1>1. call[c].pc \in RequestPcs /\ UNCHANGED <<row, primary, assignee>>
  BY DEF InsertRequest, ShowRequest, LookForPending, Retarget, SetDeadline, WriteVerdict, ShowVerdict,
         Resolve, At, RequestPcs, agentVars
<1>2. call[c] \in CallState
  BY CallTyped
<1>3. ASSUME NEW p \in Steps, Goto(c, p) \/ \E r \in Request : call' = [call EXCEPT ![c].pc = p, ![c].r = r]
      PROVE  call'[c].pc = p
  BY <1>2, <1>3 DEF Goto, Base, CallState
<1>4. Idle.pc = "idle"
  BY DEF Idle
<1>5. ASSUME End(c)
      PROVE  call'[c].pc = "idle"
  BY <1>4, <1>5, EndMoves
<1>6. ASSUME NEW a \in Agent \union {None}, Assign(c, a)
      PROVE  call'[c].pc \in {"idle", "demote"}
  <2>1. [Idle EXCEPT !.pc = "demote", !.agent = a].pc = "demote"
    BY DEF Idle
  <2>2. QED
    BY <1>4, <1>6, <2>1, AssignMoves
<1>7. call'[c].pc \in RequestPcs \union {"idle", "demote"}
  <2>1. CASE InsertRequest(c) \/ WriteVerdict(c)
    BY <1>3, <2>1 DEF InsertRequest, WriteVerdict, RequestPcs, Steps
  <2>2. CASE ShowRequest(c) \/ ShowVerdict(c)
    <3>1. call[c].agent \in Agent \union {None}
      BY CallParts
    <3>2. "resolve" \in Steps
      BY DEF Steps
    <3>3. QED
      BY <1>3, <1>5, <1>6, <2>2, <3>1, <3>2 DEF ShowRequest, ShowVerdict, RequestPcs
  <2>3. CASE LookForPending(c)
    <3>1. Pending \subseteq Request /\ "deadline" \in Steps /\ "found" \in Steps
      BY DEF Pending, Steps
    <3>2. QED
      BY <1>3, <1>5, <2>3, <3>1 DEF LookForPending, RequestPcs
  <2>4. CASE Retarget(c)
    BY <1>5, <2>4 DEF Retarget
  <2>5. CASE SetDeadline(c)
    BY <2>5, DeadlineMoves DEF RequestPcs
  <2>6. CASE Resolve(c)
    BY <1>5, <1>6, <2>6 DEF Resolve
  <2>7. QED
    BY <2>1, <2>2, <2>3, <2>4, <2>5, <2>6
<1>8. QED
  BY <1>1, <1>7

LEMMA SweepFlow ==
  ASSUME Base, NEW c \in Call, NEW r \in Request,
         Escalate(c, r) \/ Triage(c, r) \/ ShowTriage(c, r)
  PROVE  /\ call[c].pc \in {"row", "triaged"} /\ call'[c].pc \in {"idle", "row", "triaged"}
         /\ UNCHANGED <<row, primary, assignee>>
<1>1. call[c].pc \in {"row", "triaged"} /\ UNCHANGED <<row, primary, assignee>>
  BY DEF Escalate, Triage, ShowTriage, At, agentVars
<1>2. CASE Escalate(c, r) \/ ShowTriage(c, r)
  BY <1>1, <1>2, NextRowMoves DEF Escalate, ShowTriage, Idle
<1>3. CASE Triage(c, r)
  <2>1. call'[c].pc = "triaged"
    BY <1>3, CallTyped DEF Triage, Goto, Base, CallState
  <2>2. QED
    BY <1>1, <2>1
<1>4. QED
  BY <1>1, <1>2, <1>3

LEMMA AgentFlow ==
  ASSUME Base, NEW c \in Call
  PROVE  /\ Demote(c) => call[c].pc = "demote" /\ call'[c].pc = "promote"
         /\ Promote(c) => /\ call[c].pc = "promote" /\ call'[c].pc = "assignee"
                           /\ call'[c].agent = call[c].agent
         /\ SetAssignee(c) => call[c].pc = "assignee" /\ call'[c].pc = "idle"
         /\ ReadAssignee(c) => /\ call[c].pc = "remove"
                                /\ \/ call'[c].pc = "idle" /\ assignee # call[c].agent
                                   \/ /\ call'[c].pc = "fallback"
                                      /\ call'[c].agent = None \/ row[call'[c].agent] = "active"
         /\ FallBack(c) => call[c].pc = "fallback" /\ call'[c].pc = "idle"
         /\ SyncRead(c) => call[c].pc = "sync"
         /\ \A a \in Agent : Sync(c, a) => call[c].pc = "syncing"
         /\ Drop(c) => call[c].pc = "drop" /\ call'[c].pc = "idle"
<1>1. Idle.pc = "idle"
  BY DEF Idle
<1>2. Demote(c) => call[c].pc = "demote" /\ call'[c].pc = "promote"
  BY CallTyped DEF Demote, At, Goto, Base, CallState
<1>3. Promote(c) => /\ call[c].pc = "promote" /\ call'[c].pc = "assignee"
                    /\ call'[c].agent = call[c].agent
  BY CallTyped DEF Promote, At, Goto, Base, CallState
<1>4. SetAssignee(c) => call[c].pc = "assignee" /\ call'[c].pc = "idle"
  BY <1>1, EndMoves DEF SetAssignee, At
<1>5. FallBack(c) => call[c].pc = "fallback" /\ call'[c].pc = "idle"
  BY <1>1, EndMoves DEF FallBack, At
<1>6. Drop(c) => call[c].pc = "drop" /\ call'[c].pc = "idle"
  BY <1>1, EndMoves DEF Drop, At
<1>7. SyncRead(c) => call[c].pc = "sync"
  BY DEF SyncRead, At
<1>8. \A a \in Agent : Sync(c, a) => call[c].pc = "syncing"
  BY DEF Sync, At
<1>9. ReadAssignee(c) => /\ call[c].pc = "remove"
                         /\ \/ call'[c].pc = "idle" /\ assignee # call[c].agent
                            \/ /\ call'[c].pc = "fallback"
                               /\ call'[c].agent = None \/ row[call'[c].agent] = "active"
  <2> SUFFICES ASSUME ReadAssignee(c)
               PROVE  /\ call[c].pc = "remove"
                      /\ \/ call'[c].pc = "idle" /\ assignee # call[c].agent
                         \/ /\ call'[c].pc = "fallback"
                            /\ call'[c].agent = None \/ row[call'[c].agent] = "active"
    OBVIOUS
  <2>1. call[c].pc = "remove"
    BY DEF ReadAssignee, At
  <2>2. CASE assignee # call[c].agent
    BY <1>1, <2>1, <2>2, EndMoves DEF ReadAssignee
  <2>3. CASE assignee = call[c].agent
    <3>1. PICK b \in {None} \union Fallbacks(call[c].agent) :
            call' = [call EXCEPT ![c].pc = "fallback", ![c].agent = b]
      BY <2>3 DEF ReadAssignee
    <3>2. b = None \/ (b \in Agent /\ row[b] = "active")
      BY DEF Fallbacks
    <3>3. QED
      BY <2>1, <3>1, <3>2, FallbackMoves
  <2>4. QED
    BY <2>2, <2>3
<1>10. QED
  BY <1>2, <1>3, <1>4, <1>5, <1>6, <1>7, <1>8, <1>9

-----------------------------------------------------------------------------
(* The primary agent. *)

PrimaryInv ==
  {"removal", "bulk", "crash"} \intersect seen = {} =>
    /\ \A c \in Call : call[c].pc \notin Ousts
    /\ \A a \in Agent : primary[a] => row[a] = "active"
    /\ (\E a \in Agent : row[a] = "active")
         => (\E a \in Agent : primary[a]) \/ (\E c \in Call : At(c, "promote"))

\* A step that promotes nobody and demotes nobody.
LEMMA PrimaryQuiet ==
  ASSUME Base, PrimaryInv, seen \subseteq seen', NEW c \in Call, Moves(c),
         call[c].pc # "promote", call'[c].pc \notin Ousts, UNCHANGED <<row, primary>>
  PROVE  PrimaryInv'
BY DEF PrimaryInv, Moves, At

LEMMA PrimaryInit == Init => PrimaryInv
BY DEF Init, PrimaryInv, Idle, Ousts

LEMMA PrimaryStep == Base /\ PrimaryInv /\ [Next]_vars => PrimaryInv'
<1> SUFFICES ASSUME Base, PrimaryInv, [Next]_vars
             PROVE  PrimaryInv'
  OBVIOUS
<1>1. CASE UNCHANGED vars
  BY <1>1 DEF PrimaryInv, vars, agentVars, At
<1>2. ASSUME NEW c \in Call, Start(c), Note({})
      PROVE  PrimaryInv'
  <2>1. Moves(c) /\ call[c].pc = "idle" /\ call'[c].pc \notin Ousts
    BY <1>2, StartMoves DEF Idle, Ousts
  <2>2. UNCHANGED <<row, primary>>
    BY <1>2 DEF Start, CreateRequest, Workflow, Decide, AssignByHand, agentVars
  <2>3. QED
    BY <1>2, <2>1, <2>2, NoteTyped, PrimaryQuiet
<1>3. ASSUME NEW c \in Call, Step(c), Note({})
      PROVE  PrimaryInv'
  <2>0. Moves(c) /\ seen \subseteq seen'
    BY <1>3, StepMoves, NoteTyped
  <2>1. CASE \/ InsertRequest(c) \/ ShowRequest(c) \/ LookForPending(c) \/ Retarget(c) \/ SetDeadline(c)
            \/ WriteVerdict(c) \/ ShowVerdict(c) \/ Resolve(c)
    BY <2>0, <2>1, RequestFlow, PrimaryQuiet DEF RequestPcs, Ousts
  <2>2. CASE \E r \in Request : Escalate(c, r) \/ Triage(c, r) \/ ShowTriage(c, r)
    BY <2>0, <2>2, SweepFlow, PrimaryQuiet DEF Ousts
  <2>3. CASE SetAssignee(c)
    <3>1. UNCHANGED <<row, primary>>
      BY <2>3 DEF SetAssignee
    <3>2. QED
      BY <2>0, <2>3, <3>1, AgentFlow, PrimaryQuiet DEF Ousts
  <2>4. CASE ReadAssignee(c) \/ FallBack(c) \/ SyncRead(c) \/ (\E a \in Agent : Sync(c, a)) \/ Drop(c)
    BY <2>0, <2>4, AgentFlow DEF PrimaryInv, Ousts
  <2>5. CASE Demote(c)
    <3>1. call'[c].pc = "promote" /\ row' = row
      BY <2>5, AgentFlow DEF Demote
    <3>2. \A a \in Agent : primary'[a] => primary[a]
      BY <2>5, Zenon DEF Demote
    <3>3. QED
      BY <2>0, <3>1, <3>2 DEF PrimaryInv, Moves, At, Ousts
  <2>6. CASE Promote(c)
    <3>1. call[c].agent \in Agent /\ call'[c].pc = "assignee"
      BY <2>6, AgentFlow, CallParts
    <3>2. row' = [row EXCEPT ![call[c].agent] = "active"] /\ primary' = [primary EXCEPT ![call[c].agent] = TRUE]
      BY <2>6 DEF Promote
    <3>3. DOMAIN row = Agent /\ DOMAIN primary = Agent
      BY DataTyped DEF Data
    <3>4. primary'[call[c].agent]
      BY <3>1, <3>2, <3>3
    <3>5. \A a \in Agent : primary'[a] => (primary[a] \/ a = call[c].agent)
      BY <3>2, <3>3, Zenon
    <3>6. \A a \in Agent : row'[a] = IF a = call[c].agent THEN "active" ELSE row[a]
      BY <3>2, <3>3
    <3>7. QED
      BY <2>0, <3>1, <3>4, <3>5, <3>6 DEF PrimaryInv, Moves, At, Ousts
  <2>7. QED
    BY <1>3, <2>1, <2>2, <2>3, <2>4, <2>5, <2>6 DEF Step
<1>4. ASSUME NEW c \in Call, \/ \E a \in Agent : RemoveAgent(c, a) /\ Note({"removal"})
                             \/ \E crew \in (SUBSET Agent) \ {{}} : BulkEdit(c, crew) /\ Note({"bulk"})
                             \/ Crash(c) /\ Note({"crash"})
      PROVE  PrimaryInv'
  BY <1>4, NoteTyped DEF PrimaryInv
<1>5. ASSUME NEW c \in Call, NEW a \in Agent, Handoff(c, a), Note({"handoff"})
      PROVE  PrimaryInv'
  <2>1. Moves(c) /\ call'[c] = Idle
    BY <1>5, IdleTyped, Begins DEF Handoff
  <2>2. call[c].pc = "idle" /\ UNCHANGED <<row, primary>>
    BY <1>5 DEF Handoff, Begin, At
  <2>3. QED
    <3>1. seen \subseteq seen'
      BY <1>5, NoteTyped
    <3>2. call'[c].pc \notin Ousts
      BY <2>1 DEF Idle, Ousts
    <3>3. QED
      BY <2>1, <2>2, <3>1, <3>2, PrimaryQuiet
<1>6. ASSUME NEW c \in Call, \/ Sweep(c, TRUE) /\ Note({})
                             \/ Sweep(c, FALSE) /\ Note({"no supervisor"})
      PROVE  PrimaryInv'
  <2>1. Moves(c) /\ call'[c].pc \in {"idle", "row"}
    <3>1. Idle.pc = "idle"
      BY DEF Idle
    <3>2. QED
      BY <1>6, <3>1, SweepMoves
  <2>2. call[c].pc = "idle" /\ UNCHANGED <<row, primary>>
    BY <1>6 DEF Sweep, Begin, At, agentVars
  <2>3. QED
    BY <1>6, <2>1, <2>2, NoteTyped, PrimaryQuiet DEF Ousts
<1>7. ASSUME NEW r \in Request, DeadlinePasses(r), Note({})
      PROVE  PrimaryInv'
  <2>1. UNCHANGED <<row, primary, call>>
    BY <1>7 DEF DeadlinePasses, agentVars
  <2>2. QED
    BY <1>7, <2>1, NoteTyped DEF PrimaryInv, At
<1>8. QED
  BY <1>1, <1>2, <1>3, <1>4, <1>5, <1>6, <1>7 DEF Next

\* Assignments that overlap in any way leave a primary agent among those that take
\* part: each demotes the others before it promotes its own (assignAgent).
THEOREM PrimaryStays == Spec => []SomebodyPrimary
<1>1. PrimaryInv => SomebodyPrimary
  <2> SUFFICES ASSUME PrimaryInv, AtRest, NEW a \in Agent, row[a] = "active",
                      {"removal", "bulk", "crash"} \intersect seen = {}
               PROVE  \E b \in Agent : primary[b] /\ row[b] = "active"
    BY DEF SomebodyPrimary
  <2>1. \A c \in Call : ~At(c, "promote")
    BY DEF AtRest, At
  <2>2. QED
    BY <2>1 DEF PrimaryInv
<1>2. QED
  BY BaseInit, BaseStep, PrimaryInit, PrimaryStep, <1>1, PTL DEF Spec

-----------------------------------------------------------------------------
(* The assignee. *)

Part(a) == a = None \/ row[a] = "active"

\* What each call that writes the assignee, or ends somebody's part, relies on.
PartOf(x) ==
  /\ x.pc = "assignee" => row[x.agent] = "active"
  /\ x.pc = "remove" => assignee = x.agent \/ Part(assignee)
  /\ x.pc = "fallback" => Part(x.agent)
  /\ x.crew # {} => x.agent = assignee /\ Part(assignee) /\ (assignee # None => assignee \in x.crew)

PartInv ==
  /\ RemovalOverlaps => "removal overlaps" \in seen
  /\ {"removal overlaps", "handoff", "crash"} \intersect seen = {} =>
       /\ (\A c \in Call : ~Ousting(c)) => Part(assignee)
       /\ \A c \in Call : PartOf(call[c])

LEMMA OverlapNoted ==
  ASSUME NEW what, Note(what)
  PROVE  RemovalOverlaps' => "removal overlaps" \in seen'
BY DEF Note

\* Who runs with a call that ends somebody's part.
LEMMA Alone ==
  ASSUME PartInv, {"removal overlaps", "handoff", "crash"} \intersect seen = {},
         NEW c \in Call, NEW d \in Call, c # d, Ousting(c)
  PROVE  ~Ousting(d) /\ ~Assigning(d)
BY DEF PartInv, RemovalOverlaps

\* A step that changes neither the rows nor the assignee.
LEMMA PartQuiet ==
  ASSUME Base, PartInv, seen \subseteq seen', RemovalOverlaps' => "removal overlaps" \in seen',
         NEW c \in Call, Moves(c), UNCHANGED <<row, assignee>>,
         call[c].pc \notin Ousts, call'[c].pc \notin Ousts \union {"assignee"}
  PROVE  PartInv'
<1>1. ~Ousting(c) /\ ~(Ousting(c)') /\ call'[c].crew = {}
  BY CallTyped DEF Ousting, Removing, Ousts, CallOK, Moves
<1>2. SUFFICES ASSUME {"removal overlaps", "handoff", "crash"} \intersect seen = {}
               PROVE  /\ (\A d \in Call : ~(Ousting(d)')) => Part(assignee)'
                      /\ \A d \in Call : PartOf(call[d])'
  BY DEF PartInv
<1>3. ASSUME \A d \in Call : ~(Ousting(d)')
      PROVE  Part(assignee)'
  <2>1. \A d \in Call : ~Ousting(d)
    BY <1>1, <1>3 DEF Moves, Ousting, Removing
  <2>2. QED
    BY <1>2, <2>1 DEF PartInv, Part
<1>4. ASSUME NEW d \in Call
      PROVE  PartOf(call[d])'
  <2>1. CASE d = c
    BY <1>1, <2>1 DEF PartOf, Ousts
  <2>2. CASE d # c
    <3>1. call'[d] = call[d] /\ PartOf(call[d])
      BY <1>2, <2>2 DEF Moves, PartInv
    <3>2. QED
      BY <3>1 DEF PartOf, Part
  <2>3. QED
    BY <2>1, <2>2
<1>5. QED
  BY <1>3, <1>4

LEMMA PartInit == Init => PartInv
BY DEF Init, PartInv, RemovalOverlaps, Ousting, Removing, Idle, Part, PartOf

\* The steps of one call on the rows and the assignee.
LEMMA PartAgentSteps ==
  ASSUME Base, PartInv, NEW c \in Call, Moves(c), seen \subseteq seen',
         RemovalOverlaps' => "removal overlaps" \in seen',
         \/ Demote(c) \/ Promote(c) \/ SetAssignee(c) \/ ReadAssignee(c) \/ FallBack(c)
         \/ SyncRead(c) \/ (\E a \in Agent : Sync(c, a)) \/ Drop(c)
  PROVE  PartInv'
<1>0. Data /\ DOMAIN row = Agent
  BY DataTyped DEF Data
<1>1. CASE Demote(c)
  BY <1>1, AgentFlow, PartQuiet DEF Demote, Ousts
<1> SUFFICES ASSUME {"removal overlaps", "handoff", "crash"} \intersect seen = {}, ~Demote(c)
             PROVE  /\ (\A d \in Call : ~(Ousting(d)')) => Part(assignee)'
                    /\ \A d \in Call : PartOf(call[d])'
  BY <1>1 DEF PartInv
<1>2. /\ (\A d \in Call : ~Ousting(d)) => Part(assignee)
      /\ \A d \in Call : PartOf(call[d])
  BY DEF PartInv
<1>3. CASE Promote(c)
  <2>1. /\ call[c].pc = "promote" /\ call'[c].pc = "assignee" /\ call[c].agent \in Agent
        /\ call'[c].agent = call[c].agent /\ assignee' = assignee
        /\ row' = [row EXCEPT ![call[c].agent] = "active"]
    BY <1>3, AgentFlow, CallParts DEF Promote
  <2>2. \A a : Part(a) => (Part(a)' \/ a \notin Agent) /\ (a = None => Part(a)')
    BY <1>0, <2>1 DEF Part
  <2>3. Assigning(c)
    BY <2>1 DEF Assigning
  <2>4. \A d \in Call : ~Ousting(d)
    BY <2>1, <2>3, Alone, CallTyped DEF Ousting, Removing, CallOK
  <2>5. Part(assignee)'
    BY <1>0, <1>2, <2>1, <2>2, <2>4 DEF Data, Part
  <2>6. ASSUME NEW d \in Call
        PROVE  PartOf(call[d])'
    <3>1. CASE d = c
      BY <1>0, <2>1, <3>1, CallTyped DEF PartOf, Moves, CallOK
    <3>2. CASE d # c
      <4>1. call'[d] = call[d] /\ ~Ousting(d) /\ PartOf(call[d])
        BY <1>2, <2>4, <3>2 DEF Moves
      <4>2. call[d].pc = "assignee" => row'[call[d].agent] = "active"
        <5>1. call[d].pc = "assignee" => call[d].agent \in Agent
          BY CallParts
        <5>2. QED
          BY <1>0, <2>1, <4>1, <5>1 DEF PartOf
      <4>3. QED
        BY <4>1, <4>2 DEF PartOf, Ousting, Removing
    <3>3. QED
      BY <3>1, <3>2
  <2>7. QED
    BY <2>5, <2>6
<1>4. CASE SetAssignee(c)
  <2>1. /\ call[c].pc = "assignee" /\ call'[c].pc = "idle" /\ call[c].agent \in Agent
        /\ assignee' = call[c].agent /\ row' = row
    BY <1>4, AgentFlow, CallParts DEF SetAssignee
  <2>2. Part(assignee)'
    BY <1>2, <2>1 DEF PartOf, Part
  <2>3. \A d \in Call : ~Ousting(d)
    BY <2>1, Alone, CallTyped DEF Assigning, Ousting, Removing, CallOK
  <2>4. ASSUME NEW d \in Call
        PROVE  PartOf(call[d])'
    <3>1. CASE d = c
      BY <2>1, <3>1, CallTyped DEF PartOf, Moves, CallOK
    <3>2. CASE d # c
      <4>1. call'[d] = call[d] /\ ~Ousting(d) /\ PartOf(call[d])
        BY <1>2, <2>3, <3>2 DEF Moves
      <4>2. QED
        BY <2>1, <4>1 DEF PartOf, Ousting, Removing
    <3>3. QED
      BY <3>1, <3>2
  <2>5. QED
    BY <2>2, <2>4
<1>5. CASE ReadAssignee(c)
  <2>1. /\ call[c].pc = "remove" /\ UNCHANGED <<row, assignee>> /\ Ousting(c)
    BY <1>5, AgentFlow DEF ReadAssignee, agentVars, Ousting, Removing
  <2>2. \A d \in Call : d # c => call'[d] = call[d] /\ ~Ousting(d) /\ PartOf(call[d])
    BY <1>2, <2>1, Alone DEF Moves
  <2>3. CASE call'[c].pc = "idle" /\ assignee # call[c].agent
    <3>1. Part(assignee)'
      BY <1>2, <2>1, <2>3 DEF PartOf, Part
    <3>2. PartOf(call[c])'
      BY <2>3 DEF PartOf, Moves, CallOK
    <3>3. \A d \in Call : d # c => PartOf(call[d])'
      BY <2>1, <2>2 DEF PartOf, Part
    <3>4. QED
      BY <3>1, <3>2, <3>3
  <2>4. CASE call'[c].pc = "fallback" /\ (call'[c].agent = None \/ row[call'[c].agent] = "active")
    <3>1. Ousting(c)'
      BY <2>4 DEF Ousting, Removing
    <3>2. PartOf(call[c])'
      BY <2>1, <2>4 DEF PartOf, Moves, CallOK, Part
    <3>3. \A d \in Call : d # c => PartOf(call[d])'
      BY <2>1, <2>2 DEF PartOf, Part
    <3>4. QED
      BY <3>1, <3>2, <3>3
  <2>5. QED
    BY <1>5, <2>3, <2>4, AgentFlow
<1>6. CASE FallBack(c)
  <2>1. /\ call[c].pc = "fallback" /\ call'[c].pc = "idle" /\ Ousting(c)
        /\ assignee' = call[c].agent /\ row' = row
    BY <1>6, AgentFlow DEF FallBack, Ousting, Removing
  <2>2. \A d \in Call : d # c => call'[d] = call[d] /\ ~Ousting(d) /\ ~Assigning(d)
    BY <2>1, Alone DEF Moves
  <2>3. Part(assignee)'
    BY <1>2, <2>1 DEF PartOf, Part
  <2>4. PartOf(call[c])'
    BY <2>1 DEF PartOf, Moves, CallOK
  <2>5. \A d \in Call : d # c => PartOf(call[d])'
    BY <2>2 DEF PartOf, Ousting, Removing, Assigning
  <2>6. QED
    BY <2>3, <2>4, <2>5
<1>7. CASE SyncRead(c) \/ \E a \in Agent : Sync(c, a)
  <2>1. /\ call[c].pc \in {"sync", "syncing"} /\ call'[c].pc \in {"syncing", "drop"}
        /\ call'[c].crew = call[c].crew /\ call'[c].agent = call[c].agent
        /\ call[c].crew # {} /\ assignee' = assignee
    BY <1>7, AgentFlow, SyncMoves, CallTyped DEF SyncRead, Sync, agentVars, CallOK
  <2>2. \A a \in Agent : row[a] = "active" => row'[a] = "active"
    BY <1>0, <1>7 DEF SyncRead, Sync, agentVars
  <2>3. Ousting(c) /\ Ousting(c)'
    BY <2>1 DEF Ousting
  <2>4. \A d \in Call : d # c => call'[d] = call[d] /\ ~Ousting(d) /\ ~Assigning(d)
    BY <2>3, Alone DEF Moves
  <2>5. assignee \in Agent \union {None} /\ PartOf(call[c])
    BY <1>0, <1>2 DEF Data
  <2>6. PartOf(call[c])'
    BY <2>1, <2>2, <2>5 DEF PartOf, Part
  <2>7. \A d \in Call : d # c => PartOf(call[d])'
    BY <2>4 DEF PartOf, Ousting, Removing, Assigning
  <2>8. QED
    BY <2>3, <2>6, <2>7
<1>8. CASE Drop(c)
  <2>1. /\ call[c].pc = "drop" /\ call'[c].pc = "idle" /\ call[c].crew # {} /\ assignee' = assignee
    BY <1>8, AgentFlow, CallTyped DEF Drop, CallOK
  <2>2. \A a \in call[c].crew : row'[a] = row[a]
    <3>1. call[c].crew \subseteq Agent
      BY CallParts
    <3>2. QED
      BY <1>8, <3>1 DEF Drop
  <2>3. Ousting(c) /\ PartOf(call[c])
    BY <1>2, <2>1 DEF Ousting
  <2>4. \A d \in Call : d # c => call'[d] = call[d] /\ ~Ousting(d) /\ ~Assigning(d)
    BY <2>3, Alone DEF Moves
  <2>5. Part(assignee)'
    BY <2>1, <2>2, <2>3 DEF PartOf, Part
  <2>6. PartOf(call[c])'
    BY <2>1 DEF PartOf, Moves, CallOK
  <2>7. \A d \in Call : d # c => PartOf(call[d])'
    BY <2>4 DEF PartOf, Ousting, Removing, Assigning
  <2>8. QED
    BY <2>5, <2>6, <2>7
<1>9. QED
  BY <1>3, <1>4, <1>5, <1>6, <1>7, <1>8

LEMMA PartStep == Base /\ PartInv /\ [Next]_vars => PartInv'
<1> SUFFICES ASSUME Base, PartInv, [Next]_vars
             PROVE  PartInv'
  OBVIOUS
<1>1. CASE UNCHANGED vars
  BY <1>1 DEF PartInv, RemovalOverlaps, Ousting, Removing, Assigning, PartOf, Part, vars, agentVars
<1>2. ASSUME NEW c \in Call, Start(c), Note({})
      PROVE  PartInv'
  <2>1. Moves(c) /\ call[c].pc = "idle" /\ call'[c].pc \notin Ousts \union {"assignee"}
    BY <1>2, StartMoves DEF Idle, Ousts
  <2>2. UNCHANGED <<row, assignee>>
    BY <1>2 DEF Start, CreateRequest, Workflow, Decide, AssignByHand, agentVars
  <2>3. call[c].pc \notin Ousts
    BY <2>1 DEF Ousts
  <2>4. QED
    BY <1>2, <2>1, <2>2, <2>3, NoteTyped, OverlapNoted, PartQuiet
<1>3. ASSUME NEW c \in Call, Step(c), Note({})
      PROVE  PartInv'
  <2>0. Moves(c) /\ seen \subseteq seen' /\ (RemovalOverlaps' => "removal overlaps" \in seen')
    BY <1>3, StepMoves, NoteTyped, OverlapNoted
  <2>1. CASE \/ InsertRequest(c) \/ ShowRequest(c) \/ LookForPending(c) \/ Retarget(c) \/ SetDeadline(c)
            \/ WriteVerdict(c) \/ ShowVerdict(c) \/ Resolve(c)
    BY <2>0, <2>1, RequestFlow, PartQuiet DEF RequestPcs, Ousts
  <2>2. CASE \E r \in Request : Escalate(c, r) \/ Triage(c, r) \/ ShowTriage(c, r)
    BY <2>0, <2>2, SweepFlow, PartQuiet DEF Ousts
  <2>3. QED
    BY <1>3, <2>0, <2>1, <2>2, PartAgentSteps DEF Step
<1>4. ASSUME NEW c \in Call, NEW a \in Agent, RemoveAgent(c, a), Note({"removal"})
      PROVE  PartInv'
  <2>0. Moves(c) /\ seen \subseteq seen' /\ (RemovalOverlaps' => "removal overlaps" \in seen')
    BY <1>4, RemoveMoves, NoteTyped, OverlapNoted
  <2>1. /\ call[c].pc = "idle" /\ call'[c].pc = "remove" /\ call'[c].agent = a /\ call'[c].crew = {}
        /\ assignee' = assignee /\ row' = [row EXCEPT ![a] = "inactive"]
    BY <1>4, RemoveMoves DEF RemoveAgent, Begin, At
  <2>2. SUFFICES ASSUME {"removal overlaps", "handoff", "crash"} \intersect seen' = {}
                 PROVE  /\ (\A d \in Call : ~(Ousting(d)')) => Part(assignee)'
                        /\ \A d \in Call : PartOf(call[d])'
    BY <2>0 DEF PartInv
  <2>3. Ousting(c)' /\ ~Ousting(c)
    BY <2>1, CallTyped DEF Ousting, Removing, CallOK
  <2>4. \A d \in Call : d # c => call'[d] = call[d] /\ ~(Ousting(d)') /\ ~(Assigning(d)')
    BY <2>0, <2>2, <2>3 DEF RemovalOverlaps, Moves
  <2>5. \A d \in Call : ~Ousting(d)
    BY <2>3, <2>4 DEF Ousting, Removing
  <2>6. Part(assignee) /\ assignee \in Agent \union {None}
    BY <2>0, <2>2, <2>5, DataTyped DEF PartInv, Data
  <2>7. assignee' = a \/ Part(assignee)'
    BY <2>1, <2>6, DataTyped DEF Part, Data
  <2>8. PartOf(call[c])'
    BY <2>1, <2>7 DEF PartOf
  <2>9. \A d \in Call : d # c => PartOf(call[d])'
    BY <2>4 DEF PartOf, Ousting, Removing, Assigning
  <2>10. QED
    BY <2>3, <2>8, <2>9
<1>5. ASSUME NEW c \in Call, NEW crew \in (SUBSET Agent) \ {{}}, BulkEdit(c, crew), Note({"bulk"})
      PROVE  PartInv'
  <2>0. Moves(c) /\ seen \subseteq seen' /\ (RemovalOverlaps' => "removal overlaps" \in seen')
    BY <1>5, BulkMoves, NoteTyped, OverlapNoted
  <2>1. /\ call[c].pc = "idle" /\ call'[c].pc = "sync" /\ call'[c].agent = assignee
        /\ call'[c].crew = crew \union ({assignee} \ {None}) /\ call'[c].crew # {}
        /\ assignee' = assignee /\ row' = row
    <3>1. UNCHANGED <<row, assignee>> /\ call[c].pc = "idle"
      BY <1>5 DEF BulkEdit, Begin, At, agentVars
    <3>2. QED
      BY <1>5, <3>1, BulkMoves
  <2>2. SUFFICES ASSUME {"removal overlaps", "handoff", "crash"} \intersect seen' = {}
                 PROVE  /\ (\A d \in Call : ~(Ousting(d)')) => Part(assignee)'
                        /\ \A d \in Call : PartOf(call[d])'
    BY <2>0 DEF PartInv
  <2>3. Ousting(c)' /\ ~Ousting(c)
    BY <2>1, CallTyped DEF Ousting, Removing, CallOK
  <2>4. \A d \in Call : d # c => call'[d] = call[d] /\ ~(Ousting(d)') /\ ~(Assigning(d)')
    BY <2>0, <2>2, <2>3 DEF RemovalOverlaps, Moves
  <2>5. \A d \in Call : ~Ousting(d)
    BY <2>3, <2>4 DEF Ousting, Removing
  <2>6. Part(assignee)
    BY <2>0, <2>2, <2>5 DEF PartInv
  <2>7. PartOf(call[c])'
    BY <2>1, <2>6 DEF PartOf, Part
  <2>8. \A d \in Call : d # c => PartOf(call[d])'
    BY <2>4 DEF PartOf, Ousting, Removing, Assigning
  <2>9. QED
    BY <2>3, <2>7, <2>8
<1>6. ASSUME NEW c \in Call, \/ \E a \in Agent : Handoff(c, a) /\ Note({"handoff"})
                             \/ Crash(c) /\ Note({"crash"})
      PROVE  PartInv'
  BY <1>6, NoteTyped, OverlapNoted DEF PartInv
<1>7. ASSUME NEW c \in Call, \/ Sweep(c, TRUE) /\ Note({})
                             \/ Sweep(c, FALSE) /\ Note({"no supervisor"})
      PROVE  PartInv'
  <2>1. Moves(c) /\ call'[c].pc \in {"idle", "row"}
    <3>1. Idle.pc = "idle"
      BY DEF Idle
    <3>2. QED
      BY <1>7, <3>1, SweepMoves
  <2>2. call[c].pc = "idle" /\ UNCHANGED <<row, assignee>>
    BY <1>7 DEF Sweep, Begin, At, agentVars
  <2>3. seen \subseteq seen' /\ (RemovalOverlaps' => "removal overlaps" \in seen')
    BY <1>7, NoteTyped, OverlapNoted
  <2>4. QED
    BY <2>1, <2>2, <2>3, PartQuiet DEF Ousts
<1>8. ASSUME NEW r \in Request, DeadlinePasses(r), Note({})
      PROVE  PartInv'
  <2>1. UNCHANGED <<row, assignee, call>>
    BY <1>8 DEF DeadlinePasses, agentVars
  <2>2. seen \subseteq seen' /\ (RemovalOverlaps' => "removal overlaps" \in seen')
    BY <1>8, NoteTyped, OverlapNoted
  <2>3. QED
    BY <2>1, <2>2 DEF PartInv, Ousting, Removing, PartOf, Part
<1>9. QED
  BY <1>1, <1>2, <1>3, <1>4, <1>5, <1>6, <1>7, <1>8 DEF Next

\* The assignee takes part, after any approvals, assignments, removals and bulk edits
\* in any number, unless one that ends somebody's part overlaps with another
\* (assignAgent, DELETE /:id/agents/:agentId, syncCollaborators).
THEOREM AssigneeStaysPart == Spec => []AssigneeTakesPart
<1>1. Base /\ PartInv => AssigneeTakesPart
  <2> SUFFICES ASSUME Base, PartInv, AtRest, {"removal overlaps", "handoff", "crash"} \intersect seen = {}
               PROVE  Part(assignee)
    BY DEF AssigneeTakesPart, Part
  <2>1. \A c \in Call : ~Ousting(c)
    BY CallTyped DEF AtRest, At, Ousting, Removing, CallOK
  <2>2. QED
    BY <2>1 DEF PartInv
<1>2. QED
  BY BaseInit, BaseStep, PartInit, PartStep, <1>1, PTL DEF Spec

-----------------------------------------------------------------------------
(* What the queue shows. *)

\* What a call knows of the requests it works on, if no other call works on them.
ReqOf(x) ==
  /\ x.pc \in {"show", "verdict"} => req[x.r].status = x.verdict
  /\ x.pc = "deadline" => req[x.r].status = "pending"
  /\ x.r \in Request => req[x.r].status # "none"
  /\ \A r \in x.rows : req[r].status = "pending"

LatestOK ==
  shown.latest # None =>
    /\ req[shown.latest].status # "none"
    /\ \/ req[shown.latest].status = shown.approval
       \/ \E c \in Call : At(c, "verdict") /\ call[c].r = shown.latest

ShownInv ==
  /\ Request2Calls => "same request" \in seen
  /\ {"same request", "crash"} \intersect seen = {} => LatestOK /\ \A c \in Call : ReqOf(call[c])

\* Where an end and an assignment lead.
LEMMA EndFlow ==
  ASSUME Base, NEW c \in Call, End(c)
  PROVE  call'[c].pc = "idle" /\ call'[c].rows = {}
<1>1. Idle.pc = "idle" /\ Idle.rows = {}
  BY DEF Idle
<1>2. QED
  BY <1>1, EndMoves

LEMMA AssignFlow ==
  ASSUME Base, NEW c \in Call, NEW a \in Agent \union {None}, Assign(c, a)
  PROVE  call'[c].pc \in {"idle", "demote"} /\ call'[c].rows = {}
<1>1. Idle.pc = "idle" /\ Idle.rows = {}
  BY DEF Idle
<1>2. /\ [Idle EXCEPT !.pc = "demote", !.agent = a].pc = "demote"
      /\ [Idle EXCEPT !.pc = "demote", !.agent = a].rows = {}
  BY DEF Idle
<1>3. QED
  BY <1>1, <1>2, AssignMoves

LEMMA RowFlow ==
  ASSUME Base, NEW c \in Call, NEW r \in Request, First(r, call[c].rows), NextRow(c, r)
  PROVE  /\ call'[c].rows \subseteq call[c].rows
         /\ call'[c].rows # {} => call'[c].counts = call[c].counts /\ call'[c].verdict = call[c].verdict
<1>1. Idle.rows = {}
  BY DEF Idle
<1>2. QED
  BY <1>1, NextRowMoves

LEMMA SharedNoted ==
  ASSUME NEW what, Note(what)
  PROVE  Request2Calls' => "same request" \in seen'
BY DEF Note

LEMMA ShownInit == Init => ShownInv
<1> SUFFICES ASSUME Init
             PROVE  ShownInv
  OBVIOUS
<1>1. \A c \in Call : call[c].r = None /\ call[c].rows = {} /\ call[c].pc = "idle"
  BY DEF Init, Idle
<1>2. shown.latest = None
  BY DEF Init, NotShown
<1>3. QED
  BY <1>1, <1>2, NoneApart DEF ShownInv, Request2Calls, WorksOn, LatestOK, ReqOf

\* No request, nothing to know.
LEMMA NoWork ==
  ASSUME NEW c \in Call, CallOK(call'[c]),
         call'[c].pc \notin {"show", "found", "deadline", "decide", "verdict", "resolve", "row", "triaged"}
  PROVE  ReqOf(call[c])'
BY DEF CallOK, ReqOf

\* What the others know stays when a call changes the status of requests of its own only.
LEMMA OthersKnow ==
  ASSUME Base, NEW c \in Call, Moves(c), \A d \in Call : ReqOf(call[d]), ReqOf(call[c])',
         \A r \in Request :
           (\E d \in Call : d # c /\ r \in WorksOn(d)) => req'[r].status = req[r].status
  PROVE  \A d \in Call : ReqOf(call[d])'
<1> SUFFICES ASSUME NEW d \in Call, d # c
             PROVE  ReqOf(call[d])'
  OBVIOUS
<1>1. call'[d] = call[d]
  BY DEF Moves
<1>2. CallOK(call[d]) /\ call[d].rows \subseteq Request /\ call[d].r \in Request \union {None}
  BY CallTyped, CallParts
<1>3. call[d].r \in Request => req'[call[d].r].status = req[call[d].r].status
  BY NoneApart DEF WorksOn
<1>4. \A r \in call[d].rows : req'[r].status = req[r].status
  BY <1>2 DEF WorksOn
<1>5. QED
  BY <1>1, <1>2, <1>3, <1>4 DEF ReqOf, CallOK

\* A step that changes neither a status nor what is shown.
LEMMA ShownQuiet ==
  ASSUME Base, ShownInv, seen \subseteq seen', Request2Calls' => "same request" \in seen',
         NEW c \in Call, Moves(c), call[c].pc # "verdict", shown' = shown,
         \A r \in Request : req'[r].status = req[r].status,
         (\A d \in Call : ReqOf(call[d])) => ReqOf(call[c])'
  PROVE  ShownInv'
<1> SUFFICES ASSUME {"same request", "crash"} \intersect seen = {}
             PROVE  LatestOK' /\ \A d \in Call : ReqOf(call[d])'
  BY DEF ShownInv
<1>1. LatestOK /\ \A d \in Call : ReqOf(call[d])
  BY DEF ShownInv
<1>2. \A d \in Call : ReqOf(call[d])'
  BY <1>1, OthersKnow
<1>3. shown.latest # None => shown.latest \in Request
  BY DataTyped DEF Data, Shown
<1>4. LatestOK'
  BY <1>1, <1>3 DEF LatestOK, Moves, At
<1>5. QED
  BY <1>2, <1>4

\* A step that shows a request as it is.
LEMMA ShownShows ==
  ASSUME Base, ShownInv, seen \subseteq seen', Request2Calls' => "same request" \in seen',
         NEW c \in Call, Moves(c), NEW v \in Status, NEW r \in Request, shown' = Show(v, r),
         \A s \in Request : req'[s].status = req[s].status,
         (\A d \in Call : ReqOf(call[d])) => ReqOf(call[c])' /\ req[r].status = v
  PROVE  ShownInv'
<1> SUFFICES ASSUME {"same request", "crash"} \intersect seen = {}
             PROVE  LatestOK' /\ \A d \in Call : ReqOf(call[d])'
  BY DEF ShownInv
<1>1. \A d \in Call : ReqOf(call[d])
  BY DEF ShownInv
<1>2. \A d \in Call : ReqOf(call[d])'
  BY <1>1, OthersKnow
<1>3. LatestOK'
  BY <1>1 DEF LatestOK, Show, Status
<1>4. QED
  BY <1>2, <1>3

\* A request is created.
LEMMA ShownInserts ==
  ASSUME Base, ShownInv, seen \subseteq seen', Request2Calls' => "same request" \in seen',
         NEW c \in Call, Moves(c), NEW v \in Status, NEW r \in Request,
         NEW a \in Agent \union {None}, Insert(r, v, a), shown' = shown,
         call[c].pc # "verdict", call'[c].r = r, call'[c].rows = {},
         \/ call'[c].pc = "show" /\ call'[c].verdict = v
         \/ call'[c].pc = "deadline" /\ v = "pending"
  PROVE  ShownInv'
<1> SUFFICES ASSUME {"same request", "crash"} \intersect seen = {}
             PROVE  LatestOK' /\ \A d \in Call : ReqOf(call[d])'
  BY DEF ShownInv
<1>1. LatestOK /\ \A d \in Call : ReqOf(call[d])
  BY DEF ShownInv
<1>2. req[r].status = "none"
  BY DEF Insert, First, Unused
<1>3. req'[r].status = v /\ \A s \in Request : s # r => req'[s] = req[s]
  BY DataTyped DEF Insert, Data, NoReq
<1>4. \A d \in Call : r \notin WorksOn(d)
  BY <1>1, <1>2 DEF WorksOn, ReqOf
<1>5. ReqOf(call[c])'
  BY <1>3 DEF ReqOf, Status
<1>6. \A d \in Call : ReqOf(call[d])'
  BY <1>1, <1>3, <1>4, <1>5, OthersKnow
<1>7. shown.latest # None => shown.latest \in Request /\ shown.latest # r
  BY <1>1, <1>2, DataTyped DEF Data, Shown, LatestOK
<1>8. LatestOK'
  BY <1>1, <1>3, <1>7 DEF LatestOK, Moves, At
<1>9. QED
  BY <1>6, <1>8

\* A request is decided.
LEMMA ShownDecides ==
  ASSUME Base, ShownInv, seen \subseteq seen', Request2Calls' => "same request" \in seen',
         NEW c \in Call, Moves(c), WriteVerdict(c)
  PROVE  ShownInv'
<1> SUFFICES ASSUME {"same request", "crash"} \intersect seen = {}
             PROVE  LatestOK' /\ \A d \in Call : ReqOf(call[d])'
  BY DEF ShownInv
<1> DEFINE r == call[c].r
<1>1. LatestOK /\ (\A d \in Call : ReqOf(call[d])) /\ ~Request2Calls
  BY DEF ShownInv
<1>2. /\ call[c].pc = "decide" /\ r \in Request /\ call[c].verdict \in {"approved", "rejected"}
      /\ call[c].rows = {}
  BY CallParts, CallTyped DEF WriteVerdict, At, CallOK
<1>3. /\ call'[c].pc = "verdict" /\ call'[c].r = r /\ call'[c].verdict = call[c].verdict
      /\ call'[c].rows = {}
  BY <1>2, CallTyped DEF WriteVerdict, Goto, Base, CallState
<1>4. /\ req'[r].status = call[c].verdict /\ \A s \in Request : s # r => req'[s].status = req[s].status
      /\ shown' = shown
  BY <1>2, DataTyped DEF WriteVerdict, Data
<1>5. r \in WorksOn(c)
  BY <1>2, NoneApart DEF WorksOn
<1>6. \A d \in Call : d # c => r \notin WorksOn(d)
  BY <1>1, <1>5 DEF Request2Calls
<1>7. ReqOf(call[c])'
  BY <1>2, <1>3, <1>4 DEF ReqOf
<1>8. \A d \in Call : ReqOf(call[d])'
  <2> HIDE DEF r
  <2>1. QED
    BY <1>1, <1>4, <1>6, <1>7, OthersKnow
<1>9. shown.latest # None => shown.latest \in Request
  BY DataTyped DEF Data, Shown
<1>10. CASE shown.latest = r
  <2>1. req'[r].status # "none" /\ At(c, "verdict")' /\ call'[c].r = r
    BY <1>2, <1>3, <1>4 DEF At
  <2>2. LatestOK'
    BY <1>4, <1>10, <2>1 DEF LatestOK
  <2>3. QED
    BY <1>8, <2>2
<1>11. CASE shown.latest # r
  <2>1. \A d \in Call : At(d, "verdict") => At(d, "verdict")' /\ call'[d] = call[d]
    BY <1>2 DEF At, Moves
  <2>2. shown.latest # None => req'[shown.latest].status = req[shown.latest].status
    BY <1>4, <1>9, <1>11
  <2>3. LatestOK'
    <3> HIDE DEF r
    <3>1. QED
      BY <1>1, <1>4, <2>1, <2>2 DEF LatestOK
  <2>4. QED
    BY <1>8, <2>3
<1>12. QED
  BY <1>10, <1>11

\* The steps on requests.
LEMMA ShownRequestSteps ==
  ASSUME Base, ShownInv, seen \subseteq seen', Request2Calls' => "same request" \in seen',
         NEW c \in Call, Moves(c),
         \/ InsertRequest(c) \/ ShowRequest(c) \/ LookForPending(c) \/ Retarget(c) \/ SetDeadline(c)
         \/ WriteVerdict(c) \/ ShowVerdict(c) \/ Resolve(c)
  PROVE  ShownInv'
<1>0. Data /\ Pending \subseteq Request
  BY DataTyped DEF Pending
<1>1. CASE InsertRequest(c)
  <2>1. PICK r \in Request : /\ Insert(r, call[c].verdict, call[c].agent)
                             /\ call' = [call EXCEPT ![c].pc = "show", ![c].r = r]
    BY <1>1 DEF InsertRequest
  <2>2. call[c].pc = "insert" /\ call[c].verdict \in Status /\ call[c].agent \in Agent \union {None}
    BY <1>1, CallParts DEF InsertRequest, At, Status
  <2>3. /\ call'[c].pc = "show" /\ call'[c].r = r /\ call'[c].rows = {}
        /\ call'[c].verdict = call[c].verdict
    BY <2>1, <2>2, InsertMoves
  <2>4. QED
    BY <1>1, <2>1, <2>2, <2>3, ShownInserts DEF InsertRequest
<1>2. CASE ShowRequest(c)
  <2>1. /\ call[c].pc = "show" /\ call[c].r \in Request /\ call[c].verdict \in Status
        /\ call[c].agent \in Agent \union {None}
    BY <1>2, CallParts DEF ShowRequest, At, Status
  <2>2. call'[c].pc \in {"idle", "demote"}
    BY <1>2, <2>1, EndFlow, AssignFlow DEF ShowRequest
  <2>3. ReqOf(call[c])'
    BY <2>2, NoWork DEF Moves
  <2>4. (\A d \in Call : ReqOf(call[d])) => req[call[c].r].status = call[c].verdict
    BY <2>1 DEF ReqOf
  <2>5. shown' = Show(call[c].verdict, call[c].r) /\ req' = req
    BY <1>2 DEF ShowRequest
  <2>6. QED
    BY <2>1, <2>3, <2>4, <2>5, ShownShows
<1>3. CASE LookForPending(c)
  <2>0. call[c].pc = "look" /\ call[c].agent \in Agent \union {None} /\ shown' = shown
    BY <1>3, CallParts DEF LookForPending, At
  <2>1. ASSUME NEW r \in Request, Insert(r, "pending", call[c].agent),
               call' = [call EXCEPT ![c].pc = "deadline", ![c].r = r]
        PROVE  ShownInv'
    <3>1. call'[c].pc = "deadline" /\ call'[c].r = r /\ call'[c].rows = {}
      BY <2>0, <2>1, InsertMoves
    <3>2. "pending" \in Status
      BY DEF Status
    <3>3. QED
      BY <2>0, <2>1, <3>1, <3>2, ShownInserts
  <2>2. ASSUME NEW r \in Pending,
               IF call[c].agent = None THEN End(c)
               ELSE call' = [call EXCEPT ![c].pc = "found", ![c].r = r],
               UNCHANGED req
        PROVE  ShownInv'
    <3>1. r \in Request /\ req[r].status = "pending"
      BY DEF Pending
    <3>2. ReqOf(call[c])'
      <4>1. CASE call[c].agent = None
        <5>1. call'[c].pc = "idle"
          BY <2>2, <4>1, EndFlow
        <5>2. QED
          BY <5>1, NoWork DEF Moves
      <4>2. CASE call[c].agent # None
        <5>1. call'[c].pc = "found" /\ call'[c].r = r /\ call'[c].rows = {}
          BY <2>0, <2>2, <3>1, <4>2, InsertMoves
        <5>2. QED
          BY <2>2, <3>1, <5>1 DEF ReqOf
      <4>3. QED
        BY <4>1, <4>2
    <3>3. QED
      BY <2>0, <2>2, <3>2, ShownQuiet
  <2>3. QED
    BY <1>3, <2>1, <2>2 DEF LookForPending
<1>4. CASE Retarget(c)
  <2>1. call[c].pc = "found" /\ call[c].r \in Request /\ shown' = shown
    BY <1>4, CallParts DEF Retarget, At
  <2>2. call'[c].pc = "idle"
    BY <1>4, EndFlow DEF Retarget
  <2>3. ReqOf(call[c])'
    BY <2>2, NoWork DEF Moves
  <2>4. \A s \in Request : req'[s].status = req[s].status
    BY <1>0, <1>4, <2>1 DEF Retarget, Data
  <2>5. QED
    BY <2>1, <2>3, <2>4, ShownQuiet
<1>5. CASE SetDeadline(c)
  <2>1. call[c].pc = "deadline" /\ call[c].r \in Request /\ shown' = shown
    BY <1>5, CallParts DEF SetDeadline, At
  <2>2. /\ call'[c].pc = "show" /\ call'[c].r = call[c].r /\ call'[c].verdict = "pending"
        /\ call'[c].rows = {}
    BY <1>5, DeadlineMoves
  <2>3. \A s \in Request : req'[s].status = req[s].status
    BY <1>0, <1>5, <2>1 DEF SetDeadline, Data
  <2>4. (\A d \in Call : ReqOf(call[d])) => ReqOf(call[c])'
    BY <2>1, <2>2, <2>3 DEF ReqOf
  <2>5. QED
    BY <2>1, <2>3, <2>4, ShownQuiet
<1>6. CASE WriteVerdict(c)
  BY <1>6, ShownDecides
<1>7. CASE ShowVerdict(c)
  <2>1. /\ call[c].pc = "verdict" /\ call[c].r \in Request /\ call[c].verdict \in Status
        /\ call[c].agent \in Agent \union {None} /\ call[c].rows = {}
    BY <1>7, CallParts, CallTyped DEF ShowVerdict, At, Status, CallOK
  <2>2. shown' = Show(call[c].verdict, call[c].r) /\ req' = req
    BY <1>7 DEF ShowVerdict
  <2>3. (\A d \in Call : ReqOf(call[d])) => ReqOf(call[c])'
    <3>1. CASE End(c) \/ Assign(c, call[c].agent)
      <4>1. call'[c].pc \in {"idle", "demote"}
        BY <2>1, <3>1, EndFlow, AssignFlow
      <4>2. QED
        BY <4>1, NoWork DEF Moves
    <3>2. CASE Goto(c, "resolve")
      <4>1. call'[c].pc = "resolve" /\ call'[c].r = call[c].r /\ call'[c].rows = {}
        BY <2>1, <3>2, CallTyped DEF Goto, Base, CallState
      <4>2. QED
        BY <2>1, <2>2, <4>1 DEF ReqOf
    <3>3. QED
      BY <1>7, <3>1, <3>2 DEF ShowVerdict
  <2>4. (\A d \in Call : ReqOf(call[d])) => req[call[c].r].status = call[c].verdict
    BY <2>1 DEF ReqOf
  <2>5. QED
    BY <2>1, <2>2, <2>3, <2>4, ShownShows
<1>8. CASE Resolve(c)
  <2>1. call[c].pc = "resolve" /\ call[c].r \in Request /\ shown' = shown
    BY <1>8, CallParts DEF Resolve, At
  <2>2. ReqOf(call[c])'
    <3>1. CASE End(c)
      <4>1. call'[c].pc = "idle"
        BY <3>1, EndFlow
      <4>2. QED
        BY <4>1, NoWork DEF Moves
    <3>2. ASSUME NEW a \in Agent, Assign(c, a)
          PROVE  ReqOf(call[c])'
      <4>1. call'[c].pc \in {"idle", "demote"}
        BY <3>2, AssignFlow
      <4>2. QED
        BY <4>1, NoWork DEF Moves
    <3>3. QED
      BY <1>8, <3>1, <3>2 DEF Resolve
  <2>3. \A s \in Request : req'[s].status = req[s].status
    <3>1. CASE req' = req
      BY <3>1
    <3>2. ASSUME NEW a \in Agent, req' = [req EXCEPT ![call[c].r].target = a]
          PROVE  \A s \in Request : req'[s].status = req[s].status
      BY <1>0, <2>1, <3>2 DEF Data
    <3>3. QED
      BY <1>8, <3>1, <3>2 DEF Resolve
  <2>4. QED
    BY <2>1, <2>2, <2>3, ShownQuiet
<1>9. QED
  BY <1>1, <1>2, <1>3, <1>4, <1>5, <1>6, <1>7, <1>8

\* The steps of a sweep.
LEMMA ShownSweepSteps ==
  ASSUME Base, ShownInv, seen \subseteq seen', Request2Calls' => "same request" \in seen',
         NEW c \in Call, Moves(c), NEW r \in Request, Escalate(c, r) \/ Triage(c, r) \/ ShowTriage(c, r)
  PROVE  ShownInv'
<1>1. /\ r \in call[c].rows /\ call[c].pc \in {"row", "triaged"} /\ call'[c].pc \in {"idle", "row", "triaged"}
      /\ First(r, call[c].rows)
  BY SweepFlow DEF Escalate, Triage, ShowTriage, First
<1>2. call'[c].rows \subseteq call[c].rows
  <2>1. CASE Escalate(c, r) \/ ShowTriage(c, r)
    BY <1>1, <2>1, RowFlow DEF Escalate, ShowTriage
  <2>2. CASE Triage(c, r)
    BY <2>2, CallTyped DEF Triage, Goto, Base, CallState
  <2>3. QED
    BY <2>1, <2>2
<1>3. \A s \in Request : req'[s].status = req[s].status
  <2>1. CASE Escalate(c, r)
    BY <2>1, DataTyped DEF Escalate, Data
  <2>2. CASE Triage(c, r)
    BY <2>2, DataTyped DEF Triage, Data
  <2>3. CASE ShowTriage(c, r)
    BY <2>3 DEF ShowTriage
  <2>4. QED
    BY <2>1, <2>2, <2>3
<1>4. (\A d \in Call : ReqOf(call[d])) => ReqOf(call[c])'
  BY <1>1, <1>2, <1>3, CallParts DEF ReqOf, Moves, CallOK
<1>5. CASE shown' = shown
  BY <1>1, <1>3, <1>4, <1>5, ShownQuiet
<1>6. CASE ShowTriage(c, r)
  <2>1. shown' = Show("pending", r) /\ "pending" \in Status
    BY <1>6 DEF ShowTriage, Status
  <2>2. (\A d \in Call : ReqOf(call[d])) => req[r].status = "pending"
    BY <1>1 DEF ReqOf
  <2>3. QED
    BY <1>3, <1>4, <2>1, <2>2, ShownShows
<1>7. QED
  BY <1>5, <1>6 DEF Escalate, Triage

LEMMA ShownStep == Base /\ ShownInv /\ [Next]_vars => ShownInv'
<1> SUFFICES ASSUME Base, ShownInv, [Next]_vars
             PROVE  ShownInv'
  OBVIOUS
<1>1. CASE UNCHANGED vars
  BY <1>1 DEF ShownInv, Request2Calls, WorksOn, LatestOK, ReqOf, At, vars
<1>2. ASSUME NEW c \in Call, Start(c), Note({})
      PROVE  ShownInv'
  <2>1. Moves(c) /\ call[c].pc = "idle" /\ call'[c].rows = {}
    BY <1>2, StartMoves
  <2>2. UNCHANGED <<req, shown>>
    BY <1>2 DEF Start, CreateRequest, Workflow, Decide, AssignByHand
  <2>3. ReqOf(call[c])'
    <3>1. CASE call'[c].pc = "decide" /\ req[call'[c].r].status = "pending"
      BY <2>1, <2>2, <3>1 DEF ReqOf
    <3>2. CASE call'[c].pc \in {"idle", "insert", "look", "demote"}
      BY <2>1, <3>2, NoWork DEF Moves
    <3>3. QED
      BY <1>2, <3>1, <3>2, StartMoves DEF Idle
  <2>4. QED
    BY <1>2, <2>1, <2>2, <2>3, NoteTyped, SharedNoted, ShownQuiet
<1>3. ASSUME NEW c \in Call, Step(c), Note({})
      PROVE  ShownInv'
  <2>0. Moves(c) /\ seen \subseteq seen' /\ (Request2Calls' => "same request" \in seen')
    BY <1>3, StepMoves, NoteTyped, SharedNoted
  <2>1. CASE \/ Demote(c) \/ Promote(c) \/ SetAssignee(c) \/ ReadAssignee(c) \/ FallBack(c)
            \/ SyncRead(c) \/ (\E a \in Agent : Sync(c, a)) \/ Drop(c)
    <3>1. UNCHANGED <<req, shown>>
      BY <2>1 DEF Demote, Promote, SetAssignee, ReadAssignee, FallBack, SyncRead, Sync, Drop
    <3>2. call[c].pc # "verdict" /\ call'[c].pc \in Ousts \union {"idle", "promote", "assignee"}
      BY <2>1, AgentFlow, SyncMoves DEF Ousts
    <3>3. ReqOf(call[c])'
      BY <2>0, <3>2, NoWork DEF Moves, Ousts
    <3>4. QED
      BY <2>0, <3>1, <3>2, <3>3, ShownQuiet
  <2>2. QED
    BY <1>3, <2>0, <2>1, ShownRequestSteps, ShownSweepSteps DEF Step
<1>4. ASSUME NEW c \in Call,
             \/ \E a \in Agent : RemoveAgent(c, a) /\ Note({"removal"})
             \/ \E crew \in (SUBSET Agent) \ {{}} : BulkEdit(c, crew) /\ Note({"bulk"})
             \/ \E a \in Agent : Handoff(c, a) /\ Note({"handoff"})
      PROVE  ShownInv'
  <2>1. Moves(c) /\ call'[c].pc \in {"remove", "sync", "idle"}
    <3>1. Idle.pc = "idle"
      BY DEF Idle
    <3>2. QED
      BY <1>4, <3>1, RemoveMoves, BulkMoves, IdleTyped, Begins DEF Handoff
  <2>2. call[c].pc = "idle" /\ UNCHANGED <<req, shown>>
    BY <1>4 DEF RemoveAgent, BulkEdit, Handoff, Begin, At
  <2>3. seen \subseteq seen' /\ (Request2Calls' => "same request" \in seen')
    BY <1>4, NoteTyped, SharedNoted
  <2>4. ReqOf(call[c])'
    BY <2>1, NoWork DEF Moves
  <2>5. QED
    BY <2>1, <2>2, <2>3, <2>4, ShownQuiet
<1>5. ASSUME NEW c \in Call, Crash(c), Note({"crash"})
      PROVE  ShownInv'
  BY <1>5, NoteTyped, SharedNoted DEF ShownInv
<1>6. ASSUME NEW c \in Call, \/ Sweep(c, TRUE) /\ Note({})
                             \/ Sweep(c, FALSE) /\ Note({"no supervisor"})
      PROVE  ShownInv'
  <2>1. Moves(c) /\ (call'[c].pc = "idle" \/ (call'[c].pc = "row" /\ call'[c].rows \subseteq Pending))
    <3>1. Idle.pc = "idle"
      BY DEF Idle
    <3>2. QED
      BY <1>6, <3>1, SweepMoves
  <2>2. call[c].pc = "idle" /\ UNCHANGED <<req, shown>>
    BY <1>6 DEF Sweep, Begin, At
  <2>3. seen \subseteq seen' /\ (Request2Calls' => "same request" \in seen')
    BY <1>6, NoteTyped, SharedNoted
  <2>4. ReqOf(call[c])'
    <3>1. CASE call'[c].pc = "idle"
      BY <2>1, <3>1, NoWork DEF Moves
    <3>2. CASE call'[c].pc = "row" /\ call'[c].rows \subseteq Pending
      BY <2>1, <2>2, <3>2 DEF ReqOf, Moves, CallOK, Pending
    <3>3. QED
      BY <2>1, <3>1, <3>2
  <2>5. QED
    BY <2>1, <2>2, <2>3, <2>4, ShownQuiet
<1>7. ASSUME NEW r \in Request, DeadlinePasses(r), Note({})
      PROVE  ShownInv'
  <2>1. UNCHANGED <<shown, call>> /\ \A s \in Request : req'[s].status = req[s].status
    BY <1>7, DataTyped DEF DeadlinePasses, Data
  <2>2. seen \subseteq seen' /\ (Request2Calls' => "same request" \in seen')
    BY <1>7, NoteTyped, SharedNoted
  <2>3. \A c \in Call : ReqOf(call[c]) => ReqOf(call[c])'
    BY <2>1, CallParts, CallTyped DEF ReqOf, CallOK
  <2>4. LatestOK => LatestOK'
    BY <2>1, DataTyped DEF LatestOK, At, Data, Shown
  <2>5. QED
    BY <2>2, <2>3, <2>4 DEF ShownInv
<1>8. QED
  BY <1>1, <1>2, <1>3, <1>4, <1>5, <1>6, <1>7 DEF Next

\* The queue shows what became of the request it names, however many calls write the
\* key back whole, if no two work on one request at a time (updateConversation).
THEOREM QueueShowsLatest == Spec => []LatestShown
<1>1. ShownInv => LatestShown
  BY DEF ShownInv, LatestOK, LatestShown, AtRest, At
<1>2. QED
  BY BaseInit, BaseStep, ShownInit, ShownStep, <1>1, PTL DEF Spec

-----------------------------------------------------------------------------
(* Escalation before triage. *)

\* What a sweep has read of a request is what it is, or another sweep has escalated it
\* since.
ReadOK(n, q) == q.status # "none" /\ (q.count = n \/ (q.count = n + 1 /\ ~q.overdue))

\* A request whose deadline is not set yet is escalated once at most.
NewOK(q) == q.status # "none" /\ ~q.triage /\ (q.count = 0 \/ (q.count = 1 /\ ~q.overdue))

SetsDeadline(c, r) == call[c].pc = "deadline" /\ call[c].r = r

Triaged  == \A r \in Request : req[r].triage => req[r].count = Limit
Escalating == \A c \in Call : \A r \in call[c].rows : call[c].verdict = "escalate"
RowsRead == \A c \in Call : \A r \in call[c].rows : ReadOK(call[c].counts[r], req[r])
Agree    == \A c, d \in Call : \A r \in call[c].rows :
              r \in call[d].rows => call[c].counts[r] = call[d].counts[r]
NewReqs  == \A c \in Call, r \in Request : SetsDeadline(c, r) =>
              /\ NewOK(req[r])
              /\ \A d \in Call : d # c => ~SetsDeadline(d, r)
              /\ \A d \in Call : r \in call[d].rows => call[d].counts[r] = 0

OrderInv == "no supervisor" \notin seen => Triaged /\ Escalating /\ RowsRead /\ Agree /\ NewReqs

LEMMA OrderInit == Init => OrderInv
<1> SUFFICES ASSUME Init
             PROVE  OrderInv
  OBVIOUS
<1>1. \A c \in Call : call[c].rows = {} /\ call[c].pc = "idle"
  BY DEF Init, Idle
<1>2. \A r \in Request : ~req[r].triage
  BY DEF Init, NoReq
<1>3. QED
  BY <1>1, <1>2 DEF OrderInv, SetsDeadline, Triaged, Escalating, RowsRead, Agree, NewReqs

\* What a step leaves of a request.
Kept(r) ==
  /\ req'[r].count = req[r].count /\ req'[r].overdue = req[r].overdue /\ req'[r].triage = req[r].triage
  /\ req[r].status # "none" => req'[r].status # "none"

\* A call takes no row, and keeps what it has read.
Works(c) ==
  \A r \in call'[c].rows :
    r \in call[c].rows /\ call'[c].counts = call[c].counts /\ call'[c].verdict = call[c].verdict

LEMMA RowsKept ==
  ASSUME OrderInv, "no supervisor" \notin seen, NEW c \in Call, Moves(c), Works(c)
  PROVE  /\ Escalating' /\ Agree'
         /\ \A d \in Call : \A r \in call'[d].rows : r \in call[d].rows /\ call'[d].counts = call[d].counts
<1>1. \A d \in Call : \A r \in call'[d].rows :
        r \in call[d].rows /\ call'[d].counts = call[d].counts /\ call'[d].verdict = call[d].verdict
  BY DEF Moves, Works
<1>2. Escalating /\ Agree
  BY DEF OrderInv
<1>3. Escalating'
  BY <1>1, <1>2 DEF Escalating
<1>4. Agree'
  <2> SUFFICES ASSUME NEW b \in Call, NEW d \in Call, NEW r \in call'[b].rows, r \in call'[d].rows
               PROVE  call'[b].counts[r] = call'[d].counts[r]
    BY DEF Agree
  <2>1. call'[b].counts = call[b].counts /\ call'[d].counts = call[d].counts
        /\ r \in call[b].rows /\ r \in call[d].rows
    BY <1>1
  <2>2. QED
    BY <1>2, <2>1 DEF Agree
<1>5. QED
  BY <1>1, <1>3, <1>4

\* A step that works off rows at most, and changes no count and no deadline.
LEMMA OrderQuiet ==
  ASSUME Base, OrderInv, seen \subseteq seen', NEW c \in Call, Moves(c), \A r \in Request : Kept(r),
         Works(c), call'[c].pc # "deadline"
  PROVE  OrderInv'
<1> SUFFICES ASSUME "no supervisor" \notin seen
             PROVE  OrderInv'
  BY DEF OrderInv
<1>1. \A d \in Call : call[d].rows \subseteq Request
  BY CallParts
<1>2. \A d \in Call, r \in Request : SetsDeadline(d, r)' => SetsDeadline(d, r)
  BY DEF Moves, SetsDeadline
<1>3. Triaged /\ RowsRead /\ NewReqs
  BY DEF OrderInv
<1>4. \A d \in Call : \A r \in call'[d].rows : r \in call[d].rows /\ call'[d].counts = call[d].counts
  BY RowsKept
<1>5. Triaged'
  BY <1>3 DEF Triaged, Kept
<1>6. RowsRead'
  <2> SUFFICES ASSUME NEW d \in Call, NEW r \in call'[d].rows
               PROVE  ReadOK(call[d].counts[r], req[r])'
    BY DEF RowsRead
  <2>1. r \in call[d].rows /\ r \in Request /\ call'[d].counts = call[d].counts
    BY <1>1, <1>4
  <2>2. ReadOK(call[d].counts[r], req[r]) /\ Kept(r)
    BY <1>3, <2>1 DEF RowsRead
  <2>3. QED
    BY <2>1, <2>2 DEF ReadOK, Kept
<1>7. NewReqs'
  <2> SUFFICES ASSUME NEW d \in Call, NEW r \in Request, SetsDeadline(d, r)'
               PROVE  (/\ NewOK(req[r])
                       /\ \A b \in Call : b # d => ~SetsDeadline(b, r)
                       /\ \A b \in Call : r \in call[b].rows => call[b].counts[r] = 0)'
    BY DEF NewReqs
  <2>1. SetsDeadline(d, r)
    BY <1>2
  <2>2. NewOK(req[r])'
    BY <1>3, <2>1 DEF NewReqs, NewOK, Kept
  <2>3. \A b \in Call : b # d => ~(SetsDeadline(b, r)')
    BY <1>2, <1>3, <2>1 DEF NewReqs
  <2>4. \A b \in Call : r \in call'[b].rows => call'[b].counts[r] = 0
    BY <1>3, <1>4, <2>1 DEF NewReqs
  <2>5. QED
    BY <2>2, <2>3, <2>4
<1>8. QED
  BY <1>5, <1>6, <1>7, RowsKept DEF OrderInv

\* One request changes, and the call that changes it.
LEMMA OrderChange ==
  ASSUME Base, OrderInv, "no supervisor" \notin seen, seen \subseteq seen',
         NEW c \in Call, Moves(c), NEW r \in Request, \A s \in Request : s # r => req'[s] = req[s],
         Works(c),
         call'[c].pc = "deadline" =>
           /\ call'[c].r = r /\ \A d \in Call : ~SetsDeadline(d, r)
           /\ \A d \in Call : r \notin call[d].rows,
         req'[r].triage => req'[r].count = Limit,
         \A d \in Call : r \in call[d].rows => ReadOK(call[d].counts[r], req'[r]),
         \A d \in Call : SetsDeadline(d, r)' => NewOK(req'[r])
  PROVE  OrderInv'
<1>1. \A d \in Call : call[d].rows \subseteq Request
  BY CallParts
<1>2. \A d \in Call, s \in Request :
        SetsDeadline(d, s)' => SetsDeadline(d, s) \/ (d = c /\ s = r /\ call'[c].pc = "deadline")
  BY DEF Moves, SetsDeadline
<1>3. Triaged /\ RowsRead /\ NewReqs
  BY DEF OrderInv
<1>4. \A d \in Call : \A s \in call'[d].rows : s \in call[d].rows /\ call'[d].counts = call[d].counts
  BY RowsKept
<1>5. Triaged'
  BY <1>3 DEF Triaged
<1>6. RowsRead'
  <2> SUFFICES ASSUME NEW d \in Call, NEW s \in call'[d].rows
               PROVE  ReadOK(call'[d].counts[s], req'[s])
    BY DEF RowsRead, ReadOK
  <2>1. s \in call[d].rows /\ s \in Request /\ call'[d].counts = call[d].counts
    BY <1>1, <1>4
  <2>2. CASE s = r
    BY <2>1, <2>2
  <2>3. CASE s # r
    <3>1. req'[s] = req[s]
      BY <2>1, <2>3
    <3>2. ReadOK(call[d].counts[s], req[s])
      BY <1>3, <2>1 DEF RowsRead
    <3>3. QED
      BY <2>1, <3>1, <3>2
  <2>4. QED
    BY <2>2, <2>3
<1>7. NewReqs'
  <2> SUFFICES ASSUME NEW d \in Call, NEW s \in Request, SetsDeadline(d, s)'
               PROVE  (/\ NewOK(req[s])
                       /\ \A b \in Call : b # d => ~SetsDeadline(b, s)
                       /\ \A b \in Call : s \in call[b].rows => call[b].counts[s] = 0)'
    BY DEF NewReqs
  <2>1. CASE d = c /\ s = r /\ call'[c].pc = "deadline"
    <3>1. NewOK(req'[s])
      BY <2>1
    <3>2. \A b \in Call : b # d => ~(SetsDeadline(b, s)')
      BY <1>2, <2>1
    <3>3. \A b \in Call : s \notin call'[b].rows
      BY <1>4, <2>1
    <3>4. QED
      BY <3>1, <3>2, <3>3 DEF NewOK
  <2>2. CASE SetsDeadline(d, s)
    <3>1. /\ NewOK(req[s]) /\ \A b \in Call : b # d => ~SetsDeadline(b, s)
          /\ \A b \in Call : s \in call[b].rows => call[b].counts[s] = 0
      BY <1>3, <2>2 DEF NewReqs
    <3>2. NewOK(req'[s])
      <4>1. CASE s = r
        BY <4>1
      <4>2. CASE s # r
        BY <3>1, <4>2
      <4>3. QED
        BY <4>1, <4>2
    <3>3. \A b \in Call : s \in call'[b].rows => call'[b].counts[s] = 0
      <4> SUFFICES ASSUME NEW b \in Call, s \in call'[b].rows
                   PROVE  call'[b].counts[s] = 0
        OBVIOUS
      <4>1. s \in call[b].rows /\ call'[b].counts = call[b].counts
        BY <1>4
      <4>2. QED
        BY <3>1, <4>1
    <3>4. \A b \in Call : b # d => ~(SetsDeadline(b, s)')
      <4> SUFFICES ASSUME NEW b \in Call, b # d, SetsDeadline(b, s)'
                   PROVE  FALSE
        OBVIOUS
      <4>1. b = c /\ s = r /\ call'[c].pc = "deadline"
        BY <1>2, <3>1
      <4>2. QED
        BY <2>2, <4>1
    <3>5. QED
      BY <3>2, <3>3, <3>4 DEF NewOK
  <2>3. QED
    BY <1>2, <2>1, <2>2
<1>8. QED
  BY <1>5, <1>6, <1>7, RowsKept DEF OrderInv

\* The steps on requests.
LEMMA OrderRequestSteps ==
  ASSUME Base, OrderInv, seen \subseteq seen', NEW c \in Call, Moves(c),
         \/ InsertRequest(c) \/ ShowRequest(c) \/ LookForPending(c) \/ Retarget(c) \/ SetDeadline(c)
         \/ WriteVerdict(c) \/ ShowVerdict(c) \/ Resolve(c)
  PROVE  OrderInv'
<1>0. Data /\ Pending \subseteq Request
  BY DataTyped DEF Pending
<1>1. call'[c].rows = {}
  BY RequestFlow DEF Moves, CallOK, RequestPcs
<1>w. Works(c)
  BY <1>1 DEF Works
<1> SUFFICES ASSUME "no supervisor" \notin seen
             PROVE  OrderInv'
  BY DEF OrderInv
<1>2. ASSUME NEW r \in Request, NEW v \in Status, NEW a \in Agent \union {None}, Insert(r, v, a),
             call'[c].pc = "deadline" => call'[c].r = r
      PROVE  OrderInv'
  <2>1. req[r].status = "none"
    BY <1>2 DEF Insert, First, Unused
  <2>2. \A s \in Request : s # r => req'[s] = req[s]
    BY <1>0, <1>2 DEF Insert, Data
  <2>3. req'[r].status = v /\ req'[r].triage = FALSE /\ req'[r].count = 0
    BY <1>0, <1>2 DEF Insert, Data, NoReq
  <2>4. \A d \in Call : ~SetsDeadline(d, r) /\ r \notin call[d].rows
    BY <2>1 DEF OrderInv, RowsRead, NewReqs, NewOK, ReadOK
  <2>5. NewOK(req'[r])
    BY <2>3 DEF NewOK, Status
  <2>6. QED
    BY <1>w, <1>2, <2>2, <2>3, <2>4, <2>5, OrderChange
<1>3. CASE InsertRequest(c)
  <2>1. PICK r \in Request : /\ Insert(r, call[c].verdict, call[c].agent)
                             /\ call' = [call EXCEPT ![c].pc = "show", ![c].r = r]
    BY <1>3 DEF InsertRequest
  <2>2. call[c].pc = "insert" /\ call[c].verdict \in Status /\ call[c].agent \in Agent \union {None}
    BY <1>3, CallParts DEF InsertRequest, At, Status
  <2>3. call'[c].r = r
    BY <2>1, <2>2, InsertMoves
  <2>4. QED
    BY <1>2, <2>1, <2>2, <2>3
<1>4. CASE LookForPending(c)
  <2>0. call[c].pc = "look" /\ call[c].agent \in Agent \union {None}
    BY <1>4, CallParts DEF LookForPending, At
  <2>1. ASSUME NEW r \in Request, Insert(r, "pending", call[c].agent),
               call' = [call EXCEPT ![c].pc = "deadline", ![c].r = r]
        PROVE  OrderInv'
    <3>1. call'[c].r = r /\ "pending" \in Status
      BY <2>0, <2>1, InsertMoves DEF Status
    <3>2. QED
      BY <1>2, <2>0, <2>1, <3>1
  <2>2. ASSUME NEW r \in Pending,
               IF call[c].agent = None THEN End(c)
               ELSE call' = [call EXCEPT ![c].pc = "found", ![c].r = r],
               UNCHANGED req
        PROVE  OrderInv'
    <3>1. call'[c].pc # "deadline"
      BY <1>0, <2>0, <2>2, EndFlow, InsertMoves
    <3>2. \A s \in Request : Kept(s)
      BY <2>2 DEF Kept
    <3>3. QED
      BY <1>w, <3>1, <3>2, OrderQuiet
  <2>3. QED
    BY <1>4, <2>1, <2>2 DEF LookForPending
<1>5. CASE SetDeadline(c)
  <2>0. call[c].pc = "deadline" /\ call[c].r \in Request
    BY <1>5, CallParts DEF SetDeadline, At
  <2>01. PICK r \in Request : r = call[c].r
    BY <2>0
  <2>1. call[c].pc = "deadline" /\ r = call[c].r /\ call'[c].pc = "show"
    BY <1>5, <2>0, <2>01, DeadlineMoves
  <2>2. SetsDeadline(c, r)
    BY <2>1 DEF SetsDeadline
  <2>3. /\ req'[r].status = req[r].status /\ req'[r].count = 0 /\ req'[r].triage = FALSE
        /\ \A s \in Request : s # r => req'[s] = req[s]
    BY <1>0, <1>5, <2>1 DEF SetDeadline, Data
  <2>4. /\ req[r].status # "none" /\ \A d \in Call : d # c => ~SetsDeadline(d, r)
        /\ \A d \in Call : r \in call[d].rows => call[d].counts[r] = 0
    BY <2>1, <2>2 DEF OrderInv, NewReqs, NewOK
  <2>5. \A d \in Call : ~(SetsDeadline(d, r)')
    <3>1. ~(SetsDeadline(c, r)')
      BY <2>1 DEF SetsDeadline
    <3>2. \A d \in Call : d # c => call'[d] = call[d]
      BY DEF Moves
    <3>3. \A d \in Call : d # c => (SetsDeadline(d, r)' => SetsDeadline(d, r))
      <4> SUFFICES ASSUME NEW d \in Call, d # c, call'[d].pc = "deadline", call'[d].r = r
                   PROVE  call[d].pc = "deadline" /\ call[d].r = r
        BY DEF SetsDeadline
      <4>1. QED
        BY <3>2
    <3>4. QED
      BY <2>4, <3>1, <3>3
  <2>6. \A d \in Call : r \in call[d].rows => ReadOK(call[d].counts[r], req'[r])
    BY <2>3, <2>4 DEF ReadOK
  <2>7. QED
    <3>1. req'[r].triage => req'[r].count = Limit
      BY <2>3
    <3>2. call'[c].pc # "deadline"
      BY <2>1
    <3>3. QED
      BY <1>w, <2>1, <2>3, <2>5, <2>6, <3>1, <3>2, OrderChange
<1>6. CASE Retarget(c) \/ Resolve(c)
  <2>1. call[c].r \in Request /\ call'[c].pc # "deadline"
    <3>1. call[c].r \in Request
      BY <1>6, CallParts DEF Retarget, Resolve, At
    <3>2. call'[c].pc # "deadline"
      BY <1>6, EndFlow, AssignFlow DEF Retarget, Resolve
    <3>3. QED
      BY <3>1, <3>2
  <2>2. \A s \in Request : Kept(s)
    <3>1. CASE req' = req
      BY <3>1 DEF Kept
    <3>2. ASSUME NEW a, req' = [req EXCEPT ![call[c].r].target = a]
          PROVE  \A s \in Request : Kept(s)
      BY <1>0, <2>1, <3>2 DEF Data, Kept
    <3>3. QED
      BY <1>6, <3>1, <3>2 DEF Retarget, Resolve
  <2>3. QED
    BY <1>w, <2>1, <2>2, OrderQuiet
<1>7. CASE WriteVerdict(c)
  <2>1. call[c].r \in Request /\ call[c].verdict \in {"approved", "rejected"}
    BY <1>7, CallParts DEF WriteVerdict, At
  <2>2. \A s \in Request : Kept(s)
    BY <1>0, <1>7, <2>1 DEF WriteVerdict, Data, Kept
  <2>3. call'[c].pc # "deadline"
    BY <1>7, CallTyped DEF WriteVerdict, Goto, Base, CallState
  <2>4. QED
    BY <1>w, <2>2, <2>3, OrderQuiet
<1>8. CASE ShowRequest(c) \/ ShowVerdict(c)
  <2>1. \A s \in Request : Kept(s)
    BY <1>8 DEF ShowRequest, ShowVerdict, Kept
  <2>2. call'[c].pc # "deadline"
    <3>1. call[c].agent \in Agent \union {None}
      BY CallParts
    <3>2. ASSUME Goto(c, "resolve")
          PROVE  call'[c].pc = "resolve"
      BY <3>2, CallTyped DEF Goto, Base, CallState
    <3>3. QED
      BY <1>8, <3>1, <3>2, EndFlow, AssignFlow DEF ShowRequest, ShowVerdict
  <2>3. QED
    BY <1>w, <2>1, <2>2, OrderQuiet
<1>9. QED
  BY <1>3, <1>4, <1>5, <1>6, <1>7, <1>8

\* Counts within the limit.
LEMMA One == 0 + 1 = 1
OBVIOUS

LEMMA Counting ==
  ASSUME NEW n \in 0..Limit, NEW m \in 0..Limit, m = n \/ m = n + 1
  PROVE  /\ n < Limit /\ m = Limit => n + 1 = Limit
         /\ ~(n < Limit) => n = Limit /\ m = Limit /\ n # 0
<1>1. Limit = 2
  BY NoneApart
<1>2. n \in {0, 1, 2} /\ m \in {0, 1, 2}
  BY <1>1
<1>3. QED
  BY <1>1, <1>2

\* The steps of a sweep.
LEMMA OrderSweepSteps ==
  ASSUME Base, OrderInv, seen \subseteq seen', NEW c \in Call, Moves(c), NEW r \in Request,
         Escalate(c, r) \/ Triage(c, r) \/ ShowTriage(c, r)
  PROVE  OrderInv'
<1>0. Data /\ r \in call[c].rows /\ First(r, call[c].rows) /\ call'[c].pc # "deadline"
  BY DataTyped, SweepFlow DEF Escalate, Triage, ShowTriage, First
<1>1. Works(c)
  <2>1. CASE Escalate(c, r) \/ ShowTriage(c, r)
    BY <1>0, <2>1, RowFlow DEF Escalate, ShowTriage, Works
  <2>2. CASE Triage(c, r)
    BY <2>2, CallTyped DEF Triage, Goto, Base, CallState, Works
  <2>3. QED
    BY <2>1, <2>2
<1> SUFFICES ASSUME "no supervisor" \notin seen
             PROVE  OrderInv'
  BY DEF OrderInv
<1>2. /\ ReadOK(call[c].counts[r], req[r]) /\ call[c].verdict = "escalate"
      /\ \A d \in Call : r \in call[d].rows =>
           ReadOK(call[d].counts[r], req[r]) /\ call[d].counts[r] = call[c].counts[r]
      /\ \A d \in Call : SetsDeadline(d, r) => NewOK(req[r]) /\ call[c].counts[r] = 0
      /\ req[r].triage => req[r].count = Limit
  BY <1>0 DEF OrderInv, Triaged, Escalating, RowsRead, Agree, NewReqs
<1> DEFINE n == call[c].counts[r]
           m == req[r].count
<1>3. /\ n < Limit /\ m = Limit => n + 1 = Limit
      /\ ~(n < Limit) => n = Limit /\ m = Limit /\ n # 0
  <2>1. n \in 0..Limit /\ m \in 0..Limit
    BY <1>0, CallParts DEF Data
  <2>2. m = n \/ m = n + 1
    BY <1>2 DEF ReadOK
  <2> HIDE DEF n, m
  <2>3. QED
    BY <2>1, <2>2, Counting
<1>4. \A d \in Call : SetsDeadline(d, r)' => SetsDeadline(d, r)
  BY <1>0 DEF SetsDeadline, Moves
<1>5. CASE Escalate(c, r)
  <2>1. /\ call[c].counts[r] < Limit
        /\ req'[r].count = call[c].counts[r] + 1 /\ req'[r].overdue = FALSE
        /\ req'[r].status = req[r].status /\ req'[r].triage = req[r].triage
        /\ \A s \in Request : s # r => req'[s] = req[s]
    BY <1>0, <1>5 DEF Escalate, Escalates, Data
  <2>2. req'[r].triage => req'[r].count = Limit
    <3>1. ASSUME req[r].triage
          PROVE  n + 1 = Limit
      BY <1>2, <1>3, <2>1, <3>1
    <3>2. req'[r].triage => req[r].triage
      BY <2>1, Zenon
    <3>3. req[r].triage => req'[r].count = Limit
      <4>1. req'[r].count = n + 1
        BY <2>1
      <4>2. QED
        BY <3>1, <4>1, Zenon
    <3>4. QED
      BY <3>2, <3>3
  <2>3. \A d \in Call : r \in call[d].rows => ReadOK(call[d].counts[r], req'[r])
    BY <1>2, <2>1 DEF ReadOK
  <2>4. \A d \in Call : SetsDeadline(d, r)' => NewOK(req'[r])
    <3> SUFFICES ASSUME NEW d \in Call, SetsDeadline(d, r)
                 PROVE  NewOK(req'[r])
      BY <1>4
    <3>1. NewOK(req[r]) /\ call[c].counts[r] = 0
      BY <1>2
    <3>2. req'[r].count = 1
      <4>1. req'[r].count = 0 + 1
        BY <2>1, <3>1, Zenon
      <4>2. QED
        BY <4>1, One, Zenon
    <3>3. QED
      BY <2>1, <3>1, <3>2 DEF NewOK
  <2>5. QED
    BY <1>0, <1>1, <2>1, <2>2, <2>3, <2>4, OrderChange
<1>6. CASE Triage(c, r)
  <2>1. /\ call[c].counts[r] = Limit /\ req'[r].count = req[r].count /\ req'[r].overdue = req[r].overdue
        /\ req'[r].status = req[r].status
        /\ \A s \in Request : s # r => req'[s] = req[s]
    <3>1. call[c].counts[r] = Limit
      BY <1>2, <1>3, <1>6 DEF Triage, Escalates
    <3>2. QED
      BY <1>0, <1>6, <3>1 DEF Triage, Data
  <2>2. req'[r].count = Limit
    BY <1>2, <1>3, <1>6, <2>1 DEF Triage, Escalates
  <2>3. \A d \in Call : r \in call[d].rows => ReadOK(call[d].counts[r], req'[r])
    BY <1>2, <2>1 DEF ReadOK
  <2>4. \A d \in Call : ~(SetsDeadline(d, r)')
    <3>1. call[c].counts[r] # 0
      BY <1>2, <1>3, <1>6 DEF Triage, Escalates
    <3>2. QED
      BY <1>2, <1>4, <3>1
  <2>5. QED
    BY <1>0, <1>1, <2>1, <2>2, <2>3, <2>4, OrderChange
<1>7. CASE ShowTriage(c, r)
  <2>1. \A s \in Request : Kept(s)
    BY <1>7 DEF ShowTriage, Kept
  <2>2. QED
    BY <1>0, <1>1, <2>1, OrderQuiet
<1>8. QED
  BY <1>5, <1>6, <1>7

\* A sweep begins: what it reads is overdue, so nobody has escalated it since another
\* sweep read it.
LEMMA OrderSweep ==
  ASSUME Base, OrderInv, seen \subseteq seen', NEW c \in Call, NEW supervisors \in BOOLEAN,
         Sweep(c, supervisors), supervisors \/ "no supervisor" \in seen'
  PROVE  OrderInv'
<1>0. Moves(c) /\ req' = req /\ Data
  BY SweepMoves, DataTyped DEF Sweep
<1>1. CASE call'[c] = Idle
  <2>1. call'[c].rows = {} /\ call'[c].pc = "idle"
    <3>1. Idle.rows = {} /\ Idle.pc = "idle"
      BY DEF Idle
    <3>2. QED
      BY <1>1, <3>1
  <2>2. \A s \in Request : Kept(s)
    BY <1>0 DEF Kept
  <2>3. QED
    BY <1>0, <2>1, <2>2, OrderQuiet DEF Works
<1>2. CASE /\ call'[c].pc = "row"
           /\ call'[c].rows = {r \in Pending : req[r].overdue}
           /\ call'[c].verdict = IF supervisors THEN "escalate" ELSE "triage"
           /\ \A r \in Request : call'[c].counts[r] = req[r].count
  <2> SUFFICES ASSUME "no supervisor" \notin seen'
               PROVE  OrderInv'
    BY DEF OrderInv
  <2>0. Triaged /\ Escalating /\ RowsRead /\ Agree /\ NewReqs /\ call'[c].verdict = "escalate"
    BY <1>2 DEF OrderInv
  <2>1. \A r \in call'[c].rows : /\ r \in Request /\ req[r].status = "pending" /\ req[r].overdue
                                   /\ call'[c].counts[r] = req[r].count
    BY <1>2 DEF Pending
  <2>2. \A d \in Call : d # c => call'[d] = call[d] /\ call[d].rows \subseteq Request
    BY <1>0, CallParts DEF Moves
  <2>3. \A d \in Call, r \in Request : SetsDeadline(d, r)' => SetsDeadline(d, r)
    BY <1>2, <2>2 DEF SetsDeadline
  <2>4. Triaged'
    BY <1>0, <2>0 DEF Triaged
  <2>5. Escalating'
    BY <2>0, <2>2 DEF Escalating
  <2>6. RowsRead'
    <3>1. \A r \in call'[c].rows : ReadOK(call'[c].counts[r], req[r])
      BY <2>1 DEF ReadOK
    <3>2. \A d \in Call : \A r \in call'[d].rows : ReadOK(call'[d].counts[r], req'[r])
      BY <1>0, <2>0, <2>2, <3>1 DEF RowsRead
    <3>3. QED
      BY <3>2 DEF RowsRead, ReadOK
  <2>7. ASSUME NEW d \in Call, NEW r \in call'[c].rows \intersect call'[d].rows
        PROVE  call'[c].counts[r] = call'[d].counts[r]
    <3>1. CASE d = c
      BY <3>1
    <3>2. CASE d # c
      <4>1. call'[d] = call[d] /\ r \in call[d].rows /\ r \in Request
        BY <2>2, <3>2
      <4>2. ReadOK(call[d].counts[r], req[r])
        BY <2>0, <4>1 DEF RowsRead
      <4>3. req[r].overdue /\ call'[c].counts[r] = req[r].count
        BY <2>1
      <4>4. QED
        BY <4>1, <4>2, <4>3 DEF ReadOK
    <3>3. QED
      BY <3>1, <3>2
  <2>8. Agree'
    <3> SUFFICES ASSUME NEW b \in Call, NEW d \in Call, NEW r \in call'[b].rows, r \in call'[d].rows
                 PROVE  call'[b].counts[r] = call'[d].counts[r]
      BY DEF Agree
    <3>1. CASE b = c
      BY <2>7, <3>1
    <3>2. CASE d = c
      BY <2>7, <3>2
    <3>3. CASE b # c /\ d # c
      <4>1. call'[b] = call[b] /\ call'[d] = call[d]
        BY <2>2, <3>3
      <4>2. r \in call[b].rows /\ r \in call[d].rows
        BY <4>1
      <4>3. QED
        BY <2>0, <4>1, <4>2 DEF Agree
    <3>4. QED
      BY <3>1, <3>2, <3>3
  <2>9. ASSUME NEW d \in Call, NEW r \in Request, SetsDeadline(d, r)'
        PROVE  (/\ NewOK(req[r])
                /\ \A b \in Call : b # d => ~SetsDeadline(b, r)
                /\ \A b \in Call : r \in call[b].rows => call[b].counts[r] = 0)'
    <3>1. /\ NewOK(req[r]) /\ \A b \in Call : b # d => ~SetsDeadline(b, r)
          /\ \A b \in Call : r \in call[b].rows => call[b].counts[r] = 0
      BY <2>0, <2>3, <2>9 DEF NewReqs
    <3>2. r \in call'[c].rows => call'[c].counts[r] = 0
      BY <2>1, <3>1 DEF NewOK
    <3>3. \A b \in Call : r \in call'[b].rows => call'[b].counts[r] = 0
      BY <2>2, <3>1, <3>2
    <3>4. NewOK(req[r])'
      BY <1>0, <3>1 DEF NewOK
    <3>5. QED
      BY <2>3, <3>1, <3>3, <3>4
  <2>10. QED
    BY <2>4, <2>5, <2>6, <2>8, <2>9 DEF OrderInv, NewReqs
<1>3. QED
  BY <1>1, <1>2, SweepMoves

LEMMA OrderStep == Base /\ OrderInv /\ [Next]_vars => OrderInv'
<1> SUFFICES ASSUME Base, OrderInv, [Next]_vars
             PROVE  OrderInv'
  OBVIOUS
<1>1. CASE UNCHANGED vars
  <2>1. req' = req /\ call' = call /\ seen' = seen
    BY <1>1 DEF vars
  <2>2. Triaged' = Triaged /\ Escalating' = Escalating /\ RowsRead' = RowsRead
    BY <2>1 DEF Triaged, Escalating, RowsRead, ReadOK
  <2>3. Agree' = Agree /\ NewReqs' = NewReqs
    BY <2>1 DEF Agree, NewReqs, NewOK, SetsDeadline
  <2>4. QED
    BY <2>1, <2>2, <2>3 DEF OrderInv
<1>2. ASSUME NEW c \in Call, Start(c), Note({})
      PROVE  OrderInv'
  <2>1. Moves(c) /\ call'[c].rows = {}
    BY <1>2, StartMoves
  <2>2. call'[c].pc # "deadline"
    BY <1>2, StartMoves DEF Idle
  <2>3. \A s \in Request : Kept(s)
    BY <1>2 DEF Start, CreateRequest, Workflow, Decide, AssignByHand, Kept
  <2>4. QED
    BY <1>2, <2>1, <2>2, <2>3, NoteTyped, OrderQuiet DEF Works
<1>3. ASSUME NEW c \in Call, Step(c), Note({})
      PROVE  OrderInv'
  <2>0. Moves(c) /\ seen \subseteq seen'
    BY <1>3, StepMoves, NoteTyped
  <2>1. CASE \/ Demote(c) \/ Promote(c) \/ SetAssignee(c) \/ ReadAssignee(c) \/ FallBack(c)
            \/ SyncRead(c) \/ (\E a \in Agent : Sync(c, a)) \/ Drop(c)
    <3>1. \A s \in Request : Kept(s)
      BY <2>1 DEF Demote, Promote, SetAssignee, ReadAssignee, FallBack, SyncRead, Sync, Drop, Kept
    <3>2. call'[c].pc \in Ousts \union {"idle", "promote", "assignee"}
      BY <2>1, AgentFlow, SyncMoves DEF Ousts
    <3>3. call'[c].rows = {} /\ call'[c].pc # "deadline"
      BY <2>0, <3>2 DEF Moves, CallOK, Ousts
    <3>4. QED
      BY <2>0, <3>1, <3>3, OrderQuiet DEF Works
  <2>2. QED
    BY <1>3, <2>0, <2>1, OrderRequestSteps, OrderSweepSteps DEF Step
<1>4. ASSUME NEW c \in Call,
             \/ \E a \in Agent : RemoveAgent(c, a) /\ Note({"removal"})
             \/ \E crew \in (SUBSET Agent) \ {{}} : BulkEdit(c, crew) /\ Note({"bulk"})
             \/ \E a \in Agent : Handoff(c, a) /\ Note({"handoff"})
             \/ Crash(c) /\ Note({"crash"})
      PROVE  OrderInv'
  <2>1. Moves(c) /\ call'[c].pc \in {"remove", "sync", "idle"}
    <3>1. Idle.pc = "idle"
      BY DEF Idle
    <3>2. QED
      BY <1>4, <3>1, RemoveMoves, BulkMoves, IdleTyped, Begins, EndMoves DEF Handoff, Crash
  <2>2. \A s \in Request : Kept(s)
    BY <1>4 DEF RemoveAgent, BulkEdit, Handoff, Crash, Kept
  <2>3. seen \subseteq seen'
    BY <1>4, NoteTyped
  <2>4. call'[c].rows = {}
    BY <2>1 DEF Moves, CallOK
  <2>5. QED
    BY <2>1, <2>2, <2>3, <2>4, OrderQuiet DEF Works
<1>5. ASSUME NEW c \in Call, \/ Sweep(c, TRUE) /\ Note({})
                             \/ Sweep(c, FALSE) /\ Note({"no supervisor"})
      PROVE  OrderInv'
  BY <1>5, NoteTyped, OrderSweep
<1>6. ASSUME NEW r \in Request, DeadlinePasses(r), Note({})
      PROVE  OrderInv'
  <2>1. /\ call' = call /\ \A s \in Request : s # r => req'[s] = req[s]
        /\ req'[r].triage = req[r].triage /\ req'[r].count = req[r].count
    BY <1>6, DataTyped DEF DeadlinePasses, Data
  <2>2. \A c \in Call : r \notin call[c].rows /\ ~SetsDeadline(c, r)
    BY <1>6, NoneApart DEF DeadlinePasses, WorksOn, SetsDeadline
  <2>3. seen \subseteq seen'
    BY <1>6, NoteTyped
  <2>4. SUFFICES ASSUME "no supervisor" \notin seen
                 PROVE  OrderInv'
    BY <2>3 DEF OrderInv
  <2>5. Triaged /\ Escalating /\ RowsRead /\ Agree /\ NewReqs
    BY <2>4 DEF OrderInv
  <2>6. Triaged' /\ Escalating' /\ Agree'
    BY <2>1, <2>5 DEF Triaged, Escalating, Agree
  <2>7. RowsRead'
    <3> SUFFICES ASSUME NEW c \in Call, NEW s \in call[c].rows
                 PROVE  ReadOK(call[c].counts[s], req'[s])
      BY <2>1 DEF RowsRead, ReadOK
    <3>1. s \in Request /\ s # r
      BY <2>2, CallParts
    <3>2. QED
      BY <2>1, <2>5, <3>1 DEF RowsRead
  <2>8. NewReqs'
    <3> SUFFICES ASSUME NEW c \in Call, NEW s \in Request, SetsDeadline(c, s)
                 PROVE  /\ NewOK(req'[s])
                        /\ \A d \in Call : d # c => ~SetsDeadline(d, s)
                        /\ \A d \in Call : s \in call[d].rows => call[d].counts[s] = 0
      BY <2>1 DEF NewReqs, NewOK, SetsDeadline
    <3>1. s # r
      BY <2>2
    <3>2. QED
      BY <2>1, <2>5, <3>1 DEF NewReqs
  <2>9. QED
    BY <2>6, <2>7, <2>8 DEF OrderInv
<1>7. QED
  BY <1>1, <1>2, <1>3, <1>4, <1>5, <1>6 DEF Next

\* While there are supervisors a request gets to triage after its two escalations,
\* however many sweeps run at once and whenever a deadline is set (runEscalationSweep).
THEOREM TriageAfterEscalations == Spec => []TriagedInOrder
<1>1. OrderInv => TriagedInOrder
  BY DEF OrderInv, Triaged, TriagedInOrder
<1>2. QED
  BY BaseInit, BaseStep, OrderInit, OrderStep, <1>1, PTL DEF Spec
=============================================================================
