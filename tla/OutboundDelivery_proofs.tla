---------------------- MODULE OutboundDelivery_proofs ----------------------
(***************************************************************************)
(* Theorems about OutboundDelivery, for any number of messages,            *)
(* conversations and workers.  Each is stated for the events under which   *)
(* it holds: what is not excluded may happen at any step, any number of    *)
(* times.                                                                  *)
(***************************************************************************)
EXTENDS OutboundDelivery, FiniteSetTheorems, TLAPS

\* A worker has a message exactly while it runs a job, and from the second
\* check to the commit it has a token.
WorkersOK ==
  \A w \in Worker :
    /\ wk[w].pc \in {"idle", "down"} <=> wk[w].m = NoMsg
    /\ wk[w].pc \in {"second", "reload", "send", "commit"} => wk[w].held
    /\ wk[w].held => wk[w].m # NoMsg

\* Nothing is known of a message that is not created.
Unknown ==
  \A m \in Msg : status[m] = "none" =>
    /\ m \notin unqueued /\ sends[m] = 0
    /\ \A b \in BOOLEAN : waiting[m][b] = 0 /\ orphan[m][b] = 0
Started == \A w \in Worker : wk[w].m \in Msg => status[wk[w].m] # "none"
RowsOK == Unknown /\ Started

\* Without late rows the messages are created in order.
InTurn == \A m, n \in Msg : n < m /\ status[m] # "none" => status[n] # "none"

Base == TypeOK /\ WorkersOK /\ RowsOK

\* The token a worker has is the one in Redis.
LockHeld == \A w \in Worker : wk[w].held => lock[ConvOf[wk[w].m]] = w

\* A worker that has passed the second check has no pending message before its
\* own, and once a message has gone out none before it is pending or about to
\* be sent.
Foremost ==
  \A w \in Worker, n \in Msg :
    wk[w].pc \in {"reload", "send"} /\ n < wk[w].m /\ ConvOf[n] = ConvOf[wk[w].m]
      => status[n] # "pending" \/ deleted[n]
Overtaken ==
  \A m, n \in Msg :
    m < n /\ ConvOf[m] = ConvOf[n] /\ sends[n] > 0 /\ ~deleted[m]
      => /\ status[m] # "pending"
         /\ \A w \in Worker : wk[w].pc = "send" => wk[w].m # m
OrderInv == Foremost /\ Overtaken

\* A message about to be sent has not been sent; one that has been sent is no
\* longer pending or about to be marked.
OnceInv ==
  /\ \A m \in Msg : sends[m] <= 1
  /\ \A w \in Worker : wk[w].pc = "send" => sends[wk[w].m] = 0
  /\ \A m \in Msg : sends[m] > 0 /\ status[m] = "pending"
       => \E w \in Worker : wk[w].pc = "commit" /\ wk[w].m = m

\* A worker that is only to release its lock does not count.
CoverInv ==
  \A m \in Msg : status[m] = "pending" /\ ~deleted[m] =>
    \/ m \in unqueued
    \/ (\E b \in BOOLEAN : waiting[m][b] > 0) \/ orphan[m][FALSE] > 0
    \/ \E w \in Worker : wk[w].m = m /\ wk[w].pc # "release"

-----------------------------------------------------------------------------
(* What the updates of the model do, field by field. *)

LEMMA MsgFacts ==
  NoMsg \notin Msg /\ Msg \subseteq Nat /\ Free \notin Worker /\ ConvOf \in [Msg -> Conv]
BY OutboundAssumption DEF Msg, NoMsg

LEMMA RunsJob ==
  ASSUME TypeOK, WorkersOK, NEW w \in Worker, wk[w].pc \notin {"idle", "down"}
  PROVE  wk[w].m \in Msg
BY DEF TypeOK, WorkersOK, WorkerState

\* Goto changes a program counter.
LEMMA GotoEffect ==
  ASSUME wk \in [Worker -> WorkerState], NEW w \in Worker, NEW p \in PC, Goto(w, p)
  PROVE  /\ wk' \in [Worker -> WorkerState]
         /\ \A v \in Worker : /\ wk'[v].m = wk[v].m /\ wk'[v].held = wk[v].held
                              /\ wk'[v].pc = IF v = w THEN p ELSE wk[v].pc
BY DEF Goto, WorkerState

\* A job is taken; a worker gets or gives up its token; it ends its job or stops.
LEMMA TakeEffect ==
  ASSUME wk \in [Worker -> WorkerState], NEW w \in Worker, NEW m \in Msg, NEW b \in BOOLEAN,
         Take(w, m, b)
  PROVE  /\ wk' \in [Worker -> WorkerState]
         /\ wk'[w].m = m /\ wk'[w].pc = "read" /\ wk'[w].held = FALSE
         /\ \A v \in Worker : v # w => wk'[v] = wk[v]
BY DEF Take, WorkerState, PC

LEMMA AcquireEffect ==
  ASSUME wk \in [Worker -> WorkerState], NEW w \in Worker, Acquire(w)
  PROVE  /\ wk' \in [Worker -> WorkerState]
         /\ wk'[w].m = wk[w].m /\ wk'[w].pc = "second" /\ wk'[w].held = TRUE
         /\ \A v \in Worker : v # w => wk'[v] = wk[v]
BY DEF Acquire, WorkerState, PC

LEMMA UnwindEffect ==
  ASSUME wk \in [Worker -> WorkerState], NEW w \in Worker, Unwind(w)
  PROVE  /\ wk' \in [Worker -> WorkerState]
         /\ wk'[w].m = wk[w].m /\ wk'[w].pc = "failing" /\ wk'[w].held = FALSE
         /\ \A v \in Worker : v # w => wk'[v] = wk[v]
BY DEF Unwind, WorkerState, PC

LEMMA LoseJobEffect ==
  ASSUME wk \in [Worker -> WorkerState], NEW w \in Worker, LoseJob(w)
  PROVE  /\ wk' \in [Worker -> WorkerState]
         /\ \A v \in Worker : wk'[v].m = wk[v].m /\ wk'[v].held = wk[v].held /\ wk'[v].pc = wk[v].pc
BY DEF LoseJob, WorkerState

LEMMA EndEffect ==
  ASSUME wk \in [Worker -> WorkerState], NEW w \in Worker,
         NEW r \in {Idle, Down}, wk' = [wk EXCEPT ![w] = r]
  PROVE  /\ wk' \in [Worker -> WorkerState]
         /\ wk'[w].m = NoMsg /\ wk'[w].pc \in {"idle", "down"} /\ wk'[w].held = FALSE
         /\ \A v \in Worker : v # w => wk'[v] = wk[v]
<1>1. r \in WorkerState /\ r.m = NoMsg /\ r.pc \in {"idle", "down"} /\ r.held = FALSE
  <2>1. CASE r = Idle
    BY <2>1 DEF Idle, WorkerState, PC
  <2>2. CASE r = Down
    BY <2>2 DEF Idle, Down, WorkerState, PC
  <2>3. QED
    BY <2>1, <2>2
<1>2. QED
  BY <1>1

LEMMA ReleaseEffect ==
  ASSUME wk \in [Worker -> WorkerState], NEW w \in Worker,
         Release(w) \/ MarkFailed(w) \/ Crash(w) \/ \E n \in 0..NMsg : Boot(w, n)
  PROVE  /\ wk' \in [Worker -> WorkerState]
         /\ wk'[w].m = NoMsg /\ wk'[w].pc \in {"idle", "down"} /\ wk'[w].held = FALSE
         /\ \A v \in Worker : v # w => wk'[v] = wk[v]
BY EndEffect DEF Release, MarkFailed, Crash, Boot

\* A job more, a job less.
LEMMA OneMore ==
  ASSUME NEW f \in [BOOLEAN -> Nat], NEW b \in BOOLEAN
  PROVE  /\ [f EXCEPT ![b] = @ + 1] \in [BOOLEAN -> Nat]
         /\ \A a \in BOOLEAN : [f EXCEPT ![b] = @ + 1][a] >= f[a]
OBVIOUS

LEMMA SendsMore ==
  ASSUME sends \in [Msg -> Nat], NEW w \in Worker, wk[w].m \in Msg, Send(w)
  PROVE  /\ sends' \in [Msg -> Nat]
         /\ \A k \in Msg : sends'[k] = IF k = wk[w].m THEN sends[k] + 1 ELSE sends[k]
<1> DEFINE m == wk[w].m
<1>1. sends' = [sends EXCEPT ![m] = @ + 1] /\ m \in Msg
  BY DEF Send
<1> HIDE DEF m
<1>2. /\ sends' \in [Msg -> Nat]
      /\ \A k \in Msg : sends'[k] = IF k = m THEN sends[k] + 1 ELSE sends[k]
  BY <1>1
<1>3. QED
  BY <1>2 DEF m

LEMMA WaitingMore ==
  ASSUME waiting \in [Msg -> [BOOLEAN -> Nat]], NEW m \in Msg, NEW b \in BOOLEAN,
         waiting' = [waiting EXCEPT ![m][b] = @ + 1]
  PROVE  /\ waiting' \in [Msg -> [BOOLEAN -> Nat]]
         /\ \A k \in Msg, a \in BOOLEAN :
              waiting'[k][a] = IF k = m /\ a = b THEN waiting[k][a] + 1 ELSE waiting[k][a]
OBVIOUS

LEMMA WaitingLess ==
  ASSUME waiting \in [Msg -> [BOOLEAN -> Nat]], NEW w \in Worker, NEW m \in Msg,
         NEW b \in BOOLEAN, Take(w, m, b)
  PROVE  /\ waiting' \in [Msg -> [BOOLEAN -> Nat]]
         /\ \A k \in Msg, a \in BOOLEAN :
              waiting'[k][a] = IF k = m /\ a = b THEN waiting[k][a] - 1 ELSE waiting[k][a]
BY DEF Take

LEMMA OrphanLess ==
  ASSUME orphan \in [Msg -> [BOOLEAN -> Nat]], NEW m \in Msg, NEW b \in BOOLEAN, Stall(m, b)
  PROVE  /\ orphan' \in [Msg -> [BOOLEAN -> Nat]]
         /\ \A k \in Msg, a \in BOOLEAN :
              orphan'[k][a] = IF k = m /\ a = b THEN orphan[k][a] - 1 ELSE orphan[k][a]
BY DEF Stall

LEMMA RequeueMore ==
  ASSUME waiting \in [Msg -> [BOOLEAN -> Nat]], NEW w \in Worker, wk[w].m \in Msg, Requeue(w)
  PROVE  /\ waiting' \in [Msg -> [BOOLEAN -> Nat]]
         /\ waiting'[wk[w].m][FALSE] > 0
         /\ \A k \in Msg, a \in BOOLEAN :
              /\ waiting'[k][a] >= waiting[k][a]
              /\ k # wk[w].m => waiting'[k][a] = waiting[k][a]
<1> DEFINE m == wk[w].m
           b == FALSE
<1>1. \/ waiting' = [waiting EXCEPT ![m][b] = @ + 1]
      \/ waiting[m][b] > 0 /\ waiting' = waiting
  BY DEF Requeue
<1>2. m \in Msg /\ b \in BOOLEAN
  OBVIOUS
<1> HIDE DEF m, b
<1>3. /\ waiting' \in [Msg -> [BOOLEAN -> Nat]]
      /\ waiting'[m][b] > 0
      /\ \A k \in Msg, a \in BOOLEAN :
           /\ waiting'[k][a] >= waiting[k][a]
           /\ k # m => waiting'[k][a] = waiting[k][a]
  <2>1. CASE waiting' = [waiting EXCEPT ![m][b] = @ + 1]
    BY <1>2, <2>1, WaitingMore
  <2>2. CASE waiting[m][b] > 0 /\ waiting' = waiting
    BY <2>2
  <2>3. QED
    BY <1>1, <2>1, <2>2
<1>4. QED
  BY <1>3 DEF m, b

LEMMA StallMore ==
  ASSUME waiting \in [Msg -> [BOOLEAN -> Nat]], NEW m \in Msg, NEW b \in BOOLEAN, Stall(m, b)
  PROVE  /\ waiting' \in [Msg -> [BOOLEAN -> Nat]]
         /\ \A k \in Msg, a \in BOOLEAN :
              waiting'[k][a] = IF ~b /\ k = m /\ a THEN waiting[k][a] + 1 ELSE waiting[k][a]
<1>1. CASE b
  BY <1>1 DEF Stall
<1>2. CASE ~b
  <2> DEFINE t == TRUE
  <2>1. waiting' = [waiting EXCEPT ![m][t] = @ + 1] /\ t \in BOOLEAN
    BY <1>2 DEF Stall
  <2> HIDE DEF t
  <2>2. /\ waiting' \in [Msg -> [BOOLEAN -> Nat]]
        /\ \A k \in Msg, a \in BOOLEAN :
             waiting'[k][a] = IF k = m /\ a = t THEN waiting[k][a] + 1 ELSE waiting[k][a]
    BY <2>1, WaitingMore
  <2>3. QED
    BY <1>2, <2>2 DEF t
<1>3. QED
  BY <1>1, <1>2

\* A job becomes an orphan only if it is its worker's own.
LEMMA DropEffect ==
  ASSUME orphan \in [Msg -> [BOOLEAN -> Nat]], wk \in [Worker -> WorkerState],
         NEW w \in Worker, orphan' = Drop(w)
  PROVE  /\ orphan' \in [Msg -> [BOOLEAN -> Nat]]
         /\ \A k \in Msg, a \in BOOLEAN :
              /\ orphan'[k][a] >= orphan[k][a]
              /\ k # wk[w].m => orphan'[k][a] = orphan[k][a]
<1> DEFINE m == wk[w].m
           b == wk[w].again
<1>1. CASE ~wk[w].own
  BY <1>1 DEF Drop
<1>2. CASE wk[w].own /\ m \notin Msg
  <2>1. orphan' = orphan
    BY <1>2 DEF Drop
  <2>2. QED
    BY <2>1
<1>3. CASE wk[w].own /\ m \in Msg
  <2>1. b \in BOOLEAN
    BY DEF WorkerState
  <2>2. orphan' = [orphan EXCEPT ![m][b] = @ + 1]
    BY <1>3 DEF Drop
  <2> HIDE DEF m, b
  <2>3. /\ orphan' \in [Msg -> [BOOLEAN -> Nat]]
        /\ \A k \in Msg, a \in BOOLEAN :
             orphan'[k][a] = IF k = m /\ a = b THEN orphan[k][a] + 1 ELSE orphan[k][a]
    BY <1>3, <2>1, <2>2
  <2>4. QED
    BY <2>3 DEF m
<1>4. QED
  BY <1>1, <1>2, <1>3

\* The boot adds jobs of created messages only.
LEMMA BootMore ==
  ASSUME waiting \in [Msg -> [BOOLEAN -> Nat]], NEW w \in Worker, NEW n \in 0..NMsg, Boot(w, n)
  PROVE  /\ waiting' \in [Msg -> [BOOLEAN -> Nat]]
         /\ \A k \in Msg, a \in BOOLEAN :
              /\ waiting'[k][a] >= waiting[k][a]
              /\ status[k] # "pending" => waiting'[k][a] = waiting[k][a]
<1> DEFINE again == {m \in 1..n : status[m] = "pending" /\ ~deleted[m]} \ replayed
<1>1. waiting' = [m \in Msg |-> IF m \in again THEN [waiting[m] EXCEPT ![FALSE] = @ + 1]
                                ELSE waiting[m]]
  BY DEF Boot
<1>2. \A k \in again : status[k] = "pending"
  OBVIOUS
<1> HIDE DEF again
<1>3. ASSUME NEW k \in Msg
      PROVE  /\ waiting'[k] \in [BOOLEAN -> Nat]
             /\ \A a \in BOOLEAN : /\ waiting'[k][a] >= waiting[k][a]
                                   /\ k \notin again => waiting'[k][a] = waiting[k][a]
  <2>1. CASE k \in again
    <3>1. waiting'[k] = [waiting[k] EXCEPT ![FALSE] = @ + 1]
      BY <1>1, <2>1
    <3>2. waiting[k] \in [BOOLEAN -> Nat]
      OBVIOUS
    <3>3. QED
      BY <2>1, <3>1, <3>2, OneMore
  <2>2. CASE k \notin again
    BY <1>1, <2>2
  <2>3. QED
    BY <2>1, <2>2
<1>4. QED
  BY <1>1, <1>2, <1>3

\* Every step keeps the types.
LEMMA TypeStep ==
  ASSUME TypeOK, WorkersOK, [Next]_vars
  PROVE  TypeOK'
<1> USE DEF TypeOK, WorkersOK, Status, Reports, msgVars, jobVars
<1> USE MsgFacts
<1>1. ASSUME NEW m \in Msg, SendMessage(m) PROVE TypeOK'
  BY <1>1 DEF SendMessage
<1>2. ASSUME NEW m \in Msg, Enqueue(m) PROVE TypeOK'
  BY <1>2, WaitingMore DEF Enqueue
<1>3. ASSUME NEW m \in Msg, SenderFails(m) PROVE TypeOK'
  BY <1>3 DEF SenderFails
<1>4. ASSUME NEW m \in Msg, DeleteMessage(m) PROVE TypeOK'
  BY <1>4 DEF DeleteMessage
<1>5. ASSUME NEW m \in Msg, NEW s \in Reports, ApplyStatus(m, s) PROVE TypeOK'
  BY <1>5 DEF ApplyStatus
<1>6. ASSUME NEW m \in Msg, NEW s \in Reports \union {"pending"}, UpdateMessageStatus(m, s) PROVE TypeOK'
  BY <1>6 DEF UpdateMessageStatus
<1>7. ASSUME NEW w \in Worker, NEW m \in Msg, NEW b \in BOOLEAN, Take(w, m, b) PROVE TypeOK'
  BY <1>7, WaitingLess, TakeEffect DEF Take, Take
<1>8. ASSUME NEW m \in Msg, NEW b \in BOOLEAN, Stall(m, b) PROVE TypeOK'
  BY <1>8, StallMore, OrphanLess DEF Stall
<1>9. ASSUME NEW w \in Worker, ReadMessage(w) PROVE TypeOK'
  BY <1>9, GotoEffect DEF ReadMessage, At, PC
<1>10. ASSUME NEW w \in Worker, FirstCheck(w) PROVE TypeOK'
  BY <1>10, GotoEffect DEF FirstCheck, At, PC
<1>11. ASSUME NEW w \in Worker, Acquire(w) PROVE TypeOK'
  BY <1>11, AcquireEffect, MsgFacts DEF Acquire, LockOf, At
<1>12. ASSUME NEW w \in Worker, GiveUp(w) PROVE TypeOK'
  BY <1>12, GotoEffect DEF GiveUp, At, PC
<1>13. ASSUME NEW w \in Worker, SecondCheck(w) PROVE TypeOK'
  BY <1>13, GotoEffect DEF SecondCheck, At, PC
<1>14. ASSUME NEW w \in Worker, Reload(w) PROVE TypeOK'
  BY <1>14, GotoEffect DEF Reload, At, PC
<1>15. ASSUME NEW w \in Worker, Send(w) PROVE TypeOK'
  <2>1. wk[w].m \in Msg
    BY <1>15, RunsJob DEF Send, At
  <2>2. sends' \in [Msg -> Nat]
    BY <1>15, <2>1, SendsMore
  <2>3. Goto(w, "commit") \/ Goto(w, "throw")
    BY <1>15 DEF Send
  <2>4. wk' \in [Worker -> WorkerState]
    BY <2>3, GotoEffect DEF PC
  <2>5. QED
    BY <1>15, <2>2, <2>4 DEF Send
<1>16. ASSUME NEW w \in Worker, Commit(w) PROVE TypeOK'
  <2>1. wk[w].m \in Msg
    BY <1>16, RunsJob DEF Commit, At
  <2>2. status' \in [Msg -> Status] /\ extId' \in [Msg -> BOOLEAN]
    BY <1>16, <2>1 DEF Commit
  <2>3. wk' \in [Worker -> WorkerState]
    BY <1>16, GotoEffect DEF Commit, PC
  <2>4. QED
    BY <1>16, <2>2, <2>3 DEF Commit
<1>17. ASSUME NEW w \in Worker, Requeue(w) PROVE TypeOK'
  BY <1>17, GotoEffect, RequeueMore, RunsJob DEF Requeue, At, PC
<1>18. ASSUME NEW w \in Worker, Release(w) PROVE TypeOK'
  BY <1>18, ReleaseEffect, MsgFacts DEF Release, At, ReleaseLock, LockOf
<1>19. ASSUME NEW w \in Worker, Unwind(w) PROVE TypeOK'
  BY <1>19, UnwindEffect, MsgFacts DEF Unwind, At, ReleaseLock, LockOf
<1>20. ASSUME NEW w \in Worker, MarkFailed(w) PROVE TypeOK'
  BY <1>20, ReleaseEffect DEF MarkFailed, At
<1>21. ASSUME NEW w \in Worker, Throw(w) PROVE TypeOK'
  BY <1>21, GotoEffect DEF Throw, At, PC
<1>22. ASSUME NEW w \in Worker, Crash(w) PROVE TypeOK'
  <2>1. orphan' \in [Msg -> [BOOLEAN -> Nat]]
    BY <1>22, DropEffect DEF Crash
  <2>2. wk' \in [Worker -> WorkerState]
    BY <1>22, ReleaseEffect
  <2>3. faults' \in 0..MaxFault
    BY <1>22, OutboundAssumption DEF Crash
  <2>4. QED
    BY <1>22, <2>1, <2>2, <2>3 DEF Crash
<1>23. ASSUME NEW w \in Worker, LoseJob(w) PROVE TypeOK'
  <2>1. orphan' \in [Msg -> [BOOLEAN -> Nat]]
    BY <1>23, DropEffect DEF LoseJob
  <2>2. wk' \in [Worker -> WorkerState]
    BY <1>23, LoseJobEffect
  <2>3. faults' \in 0..MaxFault
    BY <1>23, OutboundAssumption DEF LoseJob
  <2>4. QED
    BY <1>23, <2>1, <2>2, <2>3 DEF LoseJob
<1>24. ASSUME NEW w \in Worker, NEW n \in 0..NMsg, Boot(w, n) PROVE TypeOK'
  <2>1. waiting' \in [Msg -> [BOOLEAN -> Nat]]
    BY <1>24, BootMore
  <2>2. wk' \in [Worker -> WorkerState]
    BY <1>24, ReleaseEffect
  <2>3. 1..n \subseteq Msg
    BY OutboundAssumption DEF Msg
  <2>4. replayed' \subseteq Msg
    BY <1>24, <2>3 DEF Boot
  <2>5. QED
    BY <1>24, <2>1, <2>2, <2>4 DEF Boot
<1>25. ASSUME NEW c \in Conv, Expire(c) PROVE TypeOK'
  BY <1>25 DEF Expire
<1>26. CASE Age
  BY <1>26, OutboundAssumption DEF Age
<1>27. CASE UNCHANGED vars
  BY <1>27 DEF vars, msgVars, jobVars
<1> HIDE DEF TypeOK, WorkersOK, Status, Reports, msgVars, jobVars
<1>28. QED
  BY <1>1, <1>2, <1>3, <1>4, <1>5, <1>6, <1>7, <1>8, <1>9, <1>10, <1>11, <1>12, <1>13, <1>14, <1>15, <1>16, <1>17, <1>18, <1>19, <1>20, <1>21, <1>22, <1>23, <1>24, <1>25, <1>26, <1>27 DEF Next, Step

\* Every step keeps WorkersOK.
LEMMA WorkersStep ==
  ASSUME TypeOK, WorkersOK, [Next]_vars
  PROVE  WorkersOK'
<1> USE DEF TypeOK, WorkersOK, msgVars, jobVars
<1> USE MsgFacts
<1>1. ASSUME NEW m \in Msg, SendMessage(m) PROVE WorkersOK'
  BY <1>1 DEF SendMessage
<1>2. ASSUME NEW m \in Msg, Enqueue(m) PROVE WorkersOK'
  BY <1>2 DEF Enqueue
<1>3. ASSUME NEW m \in Msg, SenderFails(m) PROVE WorkersOK'
  BY <1>3 DEF SenderFails
<1>4. ASSUME NEW m \in Msg, DeleteMessage(m) PROVE WorkersOK'
  BY <1>4 DEF DeleteMessage
<1>5. ASSUME NEW m \in Msg, NEW s \in Reports, ApplyStatus(m, s) PROVE WorkersOK'
  BY <1>5 DEF ApplyStatus
<1>6. ASSUME NEW m \in Msg, NEW s \in Reports \union {"pending"}, UpdateMessageStatus(m, s) PROVE WorkersOK'
  BY <1>6 DEF UpdateMessageStatus
<1>7. ASSUME NEW w \in Worker, NEW m \in Msg, NEW b \in BOOLEAN, Take(w, m, b) PROVE WorkersOK'
  BY <1>7, TakeEffect DEF Take, At
<1>8. ASSUME NEW m \in Msg, NEW b \in BOOLEAN, Stall(m, b) PROVE WorkersOK'
  BY <1>8 DEF Stall
<1>9. ASSUME NEW w \in Worker, ReadMessage(w) PROVE WorkersOK'
  BY <1>9, GotoEffect DEF ReadMessage, At, PC
<1>10. ASSUME NEW w \in Worker, FirstCheck(w) PROVE WorkersOK'
  BY <1>10, GotoEffect DEF FirstCheck, At, PC
<1>11. ASSUME NEW w \in Worker, Acquire(w) PROVE WorkersOK'
  <2>1. wk[w].m # NoMsg
    BY <1>11 DEF Acquire, At
  <2>2. QED
    BY <1>11, <2>1, AcquireEffect
<1>12. ASSUME NEW w \in Worker, GiveUp(w) PROVE WorkersOK'
  BY <1>12, GotoEffect DEF GiveUp, At, PC
<1>13. ASSUME NEW w \in Worker, SecondCheck(w) PROVE WorkersOK'
  BY <1>13, GotoEffect DEF SecondCheck, At, PC
<1>14. ASSUME NEW w \in Worker, Reload(w) PROVE WorkersOK'
  BY <1>14, GotoEffect DEF Reload, At, PC
<1>15. ASSUME NEW w \in Worker, Send(w) PROVE WorkersOK'
  <2>1. CASE Goto(w, "commit")
    BY <1>15, <2>1, GotoEffect DEF Send, At, PC
  <2>2. CASE Goto(w, "throw")
    BY <1>15, <2>2, GotoEffect DEF Send, At, PC
  <2>3. QED
    BY <1>15, <2>1, <2>2 DEF Send
<1>16. ASSUME NEW w \in Worker, Commit(w) PROVE WorkersOK'
  BY <1>16, GotoEffect DEF Commit, At, PC
<1>17. ASSUME NEW w \in Worker, Requeue(w) PROVE WorkersOK'
  BY <1>17, GotoEffect DEF Requeue, At, PC
<1>18. ASSUME NEW w \in Worker, Release(w) PROVE WorkersOK'
  BY <1>18, ReleaseEffect DEF Release, At
<1>19. ASSUME NEW w \in Worker, Unwind(w) PROVE WorkersOK'
  BY <1>19, UnwindEffect DEF Unwind, At
<1>20. ASSUME NEW w \in Worker, MarkFailed(w) PROVE WorkersOK'
  BY <1>20, ReleaseEffect DEF MarkFailed, At
<1>21. ASSUME NEW w \in Worker, Throw(w) PROVE WorkersOK'
  BY <1>21, GotoEffect DEF Throw, At, PC
<1>22. ASSUME NEW w \in Worker, Crash(w) PROVE WorkersOK'
  BY <1>22, ReleaseEffect DEF Crash, At
<1>23. ASSUME NEW w \in Worker, LoseJob(w) PROVE WorkersOK'
  BY <1>23, LoseJobEffect DEF LoseJob
<1>24. ASSUME NEW w \in Worker, NEW n \in 0..NMsg, Boot(w, n) PROVE WorkersOK'
  BY <1>24, ReleaseEffect DEF Boot, At
<1>25. ASSUME NEW c \in Conv, Expire(c) PROVE WorkersOK'
  BY <1>25 DEF Expire
<1>26. CASE Age
  BY <1>26 DEF Age
<1>27. CASE UNCHANGED vars
  BY <1>27 DEF vars, msgVars, jobVars
<1> HIDE DEF TypeOK, WorkersOK, msgVars, jobVars
<1>28. QED
  BY <1>1, <1>2, <1>3, <1>4, <1>5, <1>6, <1>7, <1>8, <1>9, <1>10, <1>11, <1>12, <1>13, <1>14, <1>15, <1>16, <1>17, <1>18, <1>19, <1>20, <1>21, <1>22, <1>23, <1>24, <1>25, <1>26, <1>27 DEF Next, Step

\* Every step keeps RowsOK.
LEMMA RowsStep ==
  ASSUME TypeOK, WorkersOK, RowsOK, [Next]_vars
  PROVE  RowsOK'
<1> USE DEF TypeOK, RowsOK, Status, Reports, msgVars, jobVars
<1> USE MsgFacts
<1>1. ASSUME NEW m \in Msg, SendMessage(m) PROVE RowsOK'
  BY <1>1 DEF SendMessage, Unknown, Started
<1>2. ASSUME NEW m \in Msg, Enqueue(m) PROVE RowsOK'
  <2>1. UNCHANGED <<status, orphan, sends, wk>> /\ unqueued' \subseteq unqueued /\ m \in unqueued
    BY <1>2 DEF Enqueue
  <2>2. \A k \in Msg, a \in BOOLEAN : k # m => waiting'[k][a] = waiting[k][a]
    BY <1>2, WaitingMore DEF Enqueue
  <2>3. QED
    BY <2>1, <2>2 DEF Unknown, Started
<1>3. ASSUME NEW m \in Msg, SenderFails(m) PROVE RowsOK'
  BY <1>3 DEF SenderFails, Unknown, Started
<1>4. ASSUME NEW m \in Msg, DeleteMessage(m) PROVE RowsOK'
  BY <1>4 DEF DeleteMessage, Unknown, Started
<1>5. ASSUME NEW m \in Msg, NEW s \in Reports, ApplyStatus(m, s) PROVE RowsOK'
  BY <1>5 DEF ApplyStatus, Unknown, Started
<1>6. ASSUME NEW m \in Msg, NEW s \in Reports \union {"pending"}, UpdateMessageStatus(m, s) PROVE RowsOK'
  BY <1>6 DEF UpdateMessageStatus, Unknown, Started
<1>7. ASSUME NEW w \in Worker, NEW m \in Msg, NEW b \in BOOLEAN, Take(w, m, b) PROVE RowsOK'
  BY <1>7, TakeEffect, WaitingLess DEF Take, At, Take, Unknown, Started
<1>8. ASSUME NEW m \in Msg, NEW b \in BOOLEAN, Stall(m, b) PROVE RowsOK'
  <2>1. UNCHANGED <<status, unqueued, sends, wk>> /\ orphan[m][b] > 0
    BY <1>8 DEF Stall, msgVars
  <2>2. \A k \in Msg, a \in BOOLEAN :
          k # m => waiting'[k][a] = waiting[k][a] /\ orphan'[k][a] = orphan[k][a]
    BY <1>8, StallMore, OrphanLess
  <2>3. status[m] # "none"
    BY <2>1 DEF Unknown
  <2>4. QED
    BY <2>1, <2>2, <2>3 DEF Unknown, Started
<1>9. ASSUME NEW w \in Worker, ReadMessage(w) PROVE RowsOK'
  BY <1>9, GotoEffect DEF ReadMessage, Unknown, Started, At, PC
<1>10. ASSUME NEW w \in Worker, FirstCheck(w) PROVE RowsOK'
  BY <1>10, GotoEffect DEF FirstCheck, Unknown, Started, At, PC
<1>11. ASSUME NEW w \in Worker, Acquire(w) PROVE RowsOK'
  <2>1. UNCHANGED <<status, unqueued, waiting, orphan, sends>>
    BY <1>11 DEF Acquire, msgVars, jobVars
  <2>2. \A v \in Worker : wk'[v].m = wk[v].m \/ wk'[v].m = NoMsg
    BY <1>11, AcquireEffect
  <2>3. QED
    BY <2>1, <2>2 DEF Unknown, Started
<1>12. ASSUME NEW w \in Worker, GiveUp(w) PROVE RowsOK'
  BY <1>12, GotoEffect DEF GiveUp, Unknown, Started, At, PC
<1>13. ASSUME NEW w \in Worker, SecondCheck(w) PROVE RowsOK'
  BY <1>13, GotoEffect DEF SecondCheck, Unknown, Started, At, PC
<1>14. ASSUME NEW w \in Worker, Reload(w) PROVE RowsOK'
  BY <1>14, GotoEffect DEF Reload, Unknown, Started, At, PC
<1>15. ASSUME NEW w \in Worker, Send(w) PROVE RowsOK'
  <2>1. UNCHANGED <<status, unqueued, waiting, orphan>> /\ wk[w].m \in Msg
    BY <1>15, RunsJob DEF Send, At, msgVars, jobVars
  <2>2. \A k \in Msg : k # wk[w].m => sends'[k] = sends[k]
    BY <1>15, <2>1, SendsMore
  <2>3. \A v \in Worker : wk'[v].m = wk[v].m
    BY <1>15, GotoEffect DEF Send, PC
  <2>4. QED
    BY <2>1, <2>2, <2>3 DEF Unknown, Started
<1>16. ASSUME NEW w \in Worker, Commit(w) PROVE RowsOK'
  BY <1>16, GotoEffect, RunsJob DEF Commit, Unknown, Started, At, PC
<1>17. ASSUME NEW w \in Worker, Requeue(w) PROVE RowsOK'
  <2>1. UNCHANGED <<status, unqueued, orphan, sends>> /\ wk[w].m \in Msg
    BY <1>17, RunsJob DEF Requeue, At, msgVars
  <2>2. \A k \in Msg, a \in BOOLEAN : k # wk[w].m => waiting'[k][a] = waiting[k][a]
    BY <1>17, <2>1, RequeueMore
  <2>3. \A v \in Worker : wk'[v].m = wk[v].m
    BY <1>17, GotoEffect DEF Requeue, PC
  <2>4. QED
    BY <2>1, <2>2, <2>3 DEF Unknown, Started
<1>18. ASSUME NEW w \in Worker, Release(w) PROVE RowsOK'
  <2>1. UNCHANGED <<status, unqueued, waiting, orphan, sends>>
    BY <1>18 DEF Release, msgVars, jobVars
  <2>2. \A v \in Worker : wk'[v].m = wk[v].m \/ wk'[v].m = NoMsg
    BY <1>18, ReleaseEffect
  <2>3. QED
    BY <2>1, <2>2 DEF Unknown, Started
<1>19. ASSUME NEW w \in Worker, Unwind(w) PROVE RowsOK'
  <2>1. UNCHANGED <<status, unqueued, waiting, orphan, sends>>
    BY <1>19 DEF Unwind, msgVars, jobVars
  <2>2. \A v \in Worker : wk'[v].m = wk[v].m \/ wk'[v].m = NoMsg
    BY <1>19, UnwindEffect
  <2>3. QED
    BY <2>1, <2>2 DEF Unknown, Started
<1>20. ASSUME NEW w \in Worker, MarkFailed(w) PROVE RowsOK'
  <2>1. UNCHANGED <<unqueued, waiting, orphan, sends>> /\ wk[w].m \in Msg
    BY <1>20, RunsJob DEF MarkFailed, At, jobVars
  <2>2. \A k \in Msg : status'[k] = "none" <=> status[k] = "none"
    BY <1>20, <2>1 DEF MarkFailed, Started
  <2>3. \A v \in Worker : wk'[v].m = wk[v].m \/ wk'[v].m = NoMsg
    BY <1>20, ReleaseEffect
  <2>4. Unknown'
    BY <2>1, <2>2 DEF Unknown
  <2>5. Started'
    BY <2>2, <2>3 DEF Started
  <2>6. QED
    BY <2>4, <2>5
<1>21. ASSUME NEW w \in Worker, Throw(w) PROVE RowsOK'
  BY <1>21, GotoEffect DEF Throw, Unknown, Started, At, PC
<1>22. ASSUME NEW w \in Worker, Crash(w) PROVE RowsOK'
  <2>1. UNCHANGED <<status, unqueued, waiting, sends>>
    BY <1>22 DEF Crash, msgVars
  <2>2. \A v \in Worker : wk'[v].m = wk[v].m \/ wk'[v].m = NoMsg
    BY <1>22, ReleaseEffect
  <2>3. \A k \in Msg, a \in BOOLEAN : k # wk[w].m => orphan'[k][a] = orphan[k][a]
    BY <1>22, DropEffect DEF Crash
  <2>4. \A k \in Msg : status[k] = "none" => k # wk[w].m
    BY DEF Started
  <2>5. Unknown'
    BY <2>1, <2>3, <2>4 DEF Unknown
  <2>6. QED
    BY <2>1, <2>2, <2>5 DEF Started
<1>23. ASSUME NEW w \in Worker, LoseJob(w) PROVE RowsOK'
  BY <1>23, LoseJobEffect, DropEffect DEF LoseJob, Unknown, Started
<1>24. ASSUME NEW w \in Worker, NEW n \in 0..NMsg, Boot(w, n) PROVE RowsOK'
  <2>1. UNCHANGED <<status, unqueued, orphan, sends>>
    BY <1>24 DEF Boot, msgVars
  <2>2. \A v \in Worker : wk'[v].m = wk[v].m \/ wk'[v].m = NoMsg
    BY <1>24, ReleaseEffect
  <2>3. \A k \in Msg, a \in BOOLEAN : status[k] # "pending" => waiting'[k][a] = waiting[k][a]
    BY <1>24, BootMore
  <2>4. QED
    BY <2>1, <2>2, <2>3 DEF Unknown, Started
<1>25. ASSUME NEW c \in Conv, Expire(c) PROVE RowsOK'
  BY <1>25 DEF Expire, Unknown, Started
<1>26. CASE Age
  BY <1>26 DEF Age, Unknown, Started
<1>27. CASE UNCHANGED vars
  BY <1>27 DEF vars, msgVars, jobVars, Unknown, Started
<1> HIDE DEF TypeOK, RowsOK, Status, Reports, msgVars, jobVars
<1>28. QED
  BY <1>1, <1>2, <1>3, <1>4, <1>5, <1>6, <1>7, <1>8, <1>9, <1>10, <1>11, <1>12, <1>13, <1>14, <1>15, <1>16, <1>17, <1>18, <1>19, <1>20, <1>21, <1>22, <1>23, <1>24, <1>25, <1>26, <1>27 DEF Next, Step

\* While no lock expires under its holder, every step keeps LockHeld.
LEMMA LockStep ==
  ASSUME TypeOK, WorkersOK, LockHeld, "lock_expiry" \notin Events, [Next]_vars
  PROVE  LockHeld'
<1>t. wk \in [Worker -> WorkerState] /\ lock \in [Conv -> Worker \union {Free}]
  BY DEF TypeOK
<1>1. ASSUME NEW m \in Msg, SendMessage(m) PROVE LockHeld'
  BY <1>1, <1>t DEF SendMessage, msgVars, jobVars, LockHeld
<1>2. ASSUME NEW m \in Msg, Enqueue(m) PROVE LockHeld'
  BY <1>2, <1>t DEF Enqueue, msgVars, jobVars, LockHeld
<1>3. ASSUME NEW m \in Msg, SenderFails(m) PROVE LockHeld'
  BY <1>3, <1>t DEF SenderFails, msgVars, jobVars, LockHeld
<1>4. ASSUME NEW m \in Msg, DeleteMessage(m) PROVE LockHeld'
  BY <1>4, <1>t DEF DeleteMessage, msgVars, jobVars, LockHeld
<1>5. ASSUME NEW m \in Msg, NEW s \in Reports, ApplyStatus(m, s) PROVE LockHeld'
  BY <1>5, <1>t DEF ApplyStatus, msgVars, jobVars, LockHeld
<1>6. ASSUME NEW m \in Msg, NEW s \in Reports \union {"pending"}, UpdateMessageStatus(m, s) PROVE LockHeld'
  BY <1>6, <1>t DEF UpdateMessageStatus, msgVars, jobVars, LockHeld
<1>7. ASSUME NEW w \in Worker, NEW m \in Msg, NEW b \in BOOLEAN, Take(w, m, b) PROVE LockHeld'
  BY <1>7, <1>t, TakeEffect DEF Take, msgVars, jobVars, LockHeld
<1>8. ASSUME NEW m \in Msg, NEW b \in BOOLEAN, Stall(m, b) PROVE LockHeld'
  BY <1>8, <1>t DEF Stall, msgVars, jobVars, LockHeld
<1>9. ASSUME NEW w \in Worker, ReadMessage(w) PROVE LockHeld'
  BY <1>9, <1>t, GotoEffect DEF ReadMessage, PC, msgVars, jobVars, LockHeld
<1>10. ASSUME NEW w \in Worker, FirstCheck(w) PROVE LockHeld'
  BY <1>10, <1>t, GotoEffect DEF FirstCheck, PC, msgVars, jobVars, LockHeld
<1>11. ASSUME NEW w \in Worker, Acquire(w) PROVE LockHeld'
  <2>1. wk[w].m \in Msg /\ ConvOf[wk[w].m] \in Conv
    BY <1>11, RunsJob, MsgFacts DEF Acquire, At
  <2>2. lock[ConvOf[wk[w].m]] = Free /\ lock' = [lock EXCEPT ![ConvOf[wk[w].m]] = w]
    BY <1>11 DEF Acquire, LockOf
  <2>3. ASSUME NEW v \in Worker, v # w, wk[v].held
        PROVE  lock'[ConvOf[wk[v].m]] = v
    <3>1. ConvOf[wk[v].m] \in Conv /\ v # Free
      BY <1>t, <2>3, MsgFacts DEF WorkersOK, WorkerState
    <3>2. QED
      BY <1>t, <2>1, <2>2, <2>3, <3>1 DEF LockHeld
  <2>4. lock'[ConvOf[wk[w].m]] = w
    BY <1>t, <2>1, <2>2
  <2>5. /\ wk'[w].m = wk[w].m
        /\ \A v \in Worker : v # w => wk'[v] = wk[v]
    BY <1>11, <1>t, AcquireEffect
  <2>6. ASSUME NEW v \in Worker, wk'[v].held PROVE lock'[ConvOf[wk'[v].m]] = v
    BY <2>3, <2>4, <2>5, <2>6
  <2>7. QED
    BY <2>6 DEF LockHeld
<1>12. ASSUME NEW w \in Worker, GiveUp(w) PROVE LockHeld'
  BY <1>12, <1>t, GotoEffect DEF GiveUp, PC, msgVars, jobVars, LockHeld
<1>13. ASSUME NEW w \in Worker, SecondCheck(w) PROVE LockHeld'
  BY <1>13, <1>t, GotoEffect DEF SecondCheck, PC, msgVars, jobVars, LockHeld
<1>14. ASSUME NEW w \in Worker, Reload(w) PROVE LockHeld'
  BY <1>14, <1>t, GotoEffect DEF Reload, PC, msgVars, jobVars, LockHeld
<1>15. ASSUME NEW w \in Worker, Send(w) PROVE LockHeld'
  <2>1. UNCHANGED lock
    BY <1>15 DEF Send
  <2>2. \A v \in Worker : wk'[v].m = wk[v].m /\ wk'[v].held = wk[v].held
    BY <1>15, <1>t, GotoEffect DEF Send, PC
  <2>3. QED
    BY <2>1, <2>2 DEF LockHeld
<1>16. ASSUME NEW w \in Worker, Commit(w) PROVE LockHeld'
  BY <1>16, <1>t, GotoEffect DEF Commit, PC, msgVars, jobVars, LockHeld
<1>17. ASSUME NEW w \in Worker, Requeue(w) PROVE LockHeld'
  BY <1>17, <1>t, GotoEffect DEF Requeue, PC, msgVars, jobVars, LockHeld
<1>18. ASSUME NEW w \in Worker, Release(w) PROVE LockHeld'
  <2>1. \A x \in Conv : lock'[x] = lock[x] \/ (lock'[x] = Free /\ lock[x] = w)
    BY <1>18, <1>t DEF Release, ReleaseLock, LockOf
  <2>2. ASSUME NEW v \in Worker, v # w, wk[v].held
        PROVE  lock'[ConvOf[wk[v].m]] = v
    <3>1. ConvOf[wk[v].m] \in Conv
      BY <1>t, <2>2, MsgFacts DEF WorkersOK, WorkerState
    <3>2. QED
      BY <2>1, <2>2, <3>1 DEF LockHeld
  <2>3. QED
    BY <1>18, <1>t, <2>2, ReleaseEffect DEF LockHeld
<1>19. ASSUME NEW w \in Worker, Unwind(w) PROVE LockHeld'
  <2>1. \A x \in Conv : lock'[x] = lock[x] \/ (lock'[x] = Free /\ lock[x] = w)
    BY <1>19, <1>t DEF Unwind, ReleaseLock, LockOf
  <2>2. ASSUME NEW v \in Worker, v # w, wk[v].held
        PROVE  lock'[ConvOf[wk[v].m]] = v
    <3>1. ConvOf[wk[v].m] \in Conv
      BY <1>t, <2>2, MsgFacts DEF WorkersOK, WorkerState
    <3>2. QED
      BY <2>1, <2>2, <3>1 DEF LockHeld
  <2>3. QED
    BY <1>19, <1>t, <2>2, UnwindEffect DEF LockHeld
<1>20. ASSUME NEW w \in Worker, MarkFailed(w) PROVE LockHeld'
  BY <1>20, <1>t, ReleaseEffect DEF MarkFailed, msgVars, jobVars, LockHeld
<1>21. ASSUME NEW w \in Worker, Throw(w) PROVE LockHeld'
  BY <1>21, <1>t, GotoEffect DEF Throw, PC, msgVars, jobVars, LockHeld
<1>22. ASSUME NEW w \in Worker, Crash(w) PROVE LockHeld'
  BY <1>22, <1>t, ReleaseEffect DEF Crash, msgVars, jobVars, LockHeld
<1>23. ASSUME NEW w \in Worker, LoseJob(w) PROVE LockHeld'
  BY <1>23, <1>t, LoseJobEffect DEF LoseJob, msgVars, jobVars, LockHeld
<1>24. ASSUME NEW w \in Worker, NEW n \in 0..NMsg, Boot(w, n) PROVE LockHeld'
  BY <1>24, <1>t, ReleaseEffect DEF Boot, msgVars, jobVars, LockHeld
<1>25. ASSUME NEW c \in Conv, Expire(c) PROVE LockHeld'
  <2>1. \A w \in Worker : wk[w].held /\ ConvOf[wk[w].m] = c => lock[c] # w
    BY <1>25 DEF Expire, Holds
  <2>2. QED
    BY <1>25, <1>t, <2>1 DEF Expire, LockHeld
<1>26. CASE Age
  BY <1>26, <1>t DEF Age, msgVars, jobVars, LockHeld
<1>27. CASE UNCHANGED vars
  BY <1>27 DEF vars, msgVars, jobVars, LockHeld
<1>28. QED
  BY <1>1, <1>2, <1>3, <1>4, <1>5, <1>6, <1>7, <1>8, <1>9, <1>10, <1>11, <1>12, <1>13, <1>14, <1>15, <1>16, <1>17, <1>18, <1>19, <1>20, <1>21, <1>22, <1>23, <1>24, <1>25, <1>26, <1>27 DEF Next, Step

\* Only Send counts a sending.
LEMMA SendOnly == Next => UNCHANGED sends \/ \E w \in Worker : Send(w)
BY DEF Next, Step, SendMessage, Enqueue, SenderFails, DeleteMessage, ApplyStatus, UpdateMessageStatus, Take, Stall, ReadMessage, FirstCheck, Acquire, GiveUp, SecondCheck, Reload, Commit, Requeue, Release, Unwind, MarkFailed, Throw, Crash, LoseJob, Boot, Expire, Age

\* What changes a status.
LEMMA StatusOnly ==
  Next => \/ UNCHANGED status
          \/ \E m \in Msg : SendMessage(m)
          \/ \E m \in Msg, s \in Reports : ApplyStatus(m, s)
          \/ \E m \in Msg, s \in Reports \union {"pending"} : UpdateMessageStatus(m, s)
          \/ \E w \in Worker : Commit(w) \/ MarkFailed(w)
BY DEF Next, Step, msgVars, Enqueue, SenderFails, DeleteMessage, Take, Stall, ReadMessage, FirstCheck, Acquire, GiveUp, SecondCheck, Reload, Send, Requeue, Release, Unwind, Throw, Crash, LoseJob, Boot, Expire, Age

\* Without late rows, every step keeps InTurn.
LEMMA InTurnStep ==
  ASSUME TypeOK, WorkersOK, RowsOK, InTurn, "late_row" \notin Events, [Next]_vars
  PROVE  InTurn'
<1>1. ASSUME NEW m \in Msg, SendMessage(m) PROVE InTurn'
  <2>1. /\ \A k \in Msg : status'[k] = IF k = m THEN "pending" ELSE status[k]
        /\ \A n \in Msg : n < m => status[n] # "none"
    BY <1>1 DEF SendMessage, TypeOK
  <2>2. QED
    BY <2>1 DEF InTurn
<1>2. ASSUME NEW m \in Msg, NEW s \in Reports \union {"pending"},
             ApplyStatus(m, s) \/ UpdateMessageStatus(m, s)
      PROVE  InTurn'
  <2>1. \A k \in Msg : status'[k] = "none" <=> status[k] = "none"
    BY <1>2 DEF ApplyStatus, UpdateMessageStatus, TypeOK, RowsOK, Unknown, Reports
  <2>2. QED
    BY <2>1 DEF InTurn
<1>3. ASSUME NEW w \in Worker, Commit(w) \/ MarkFailed(w) PROVE InTurn'
  <2>1. wk[w].m \in Msg
    BY <1>3, RunsJob DEF Commit, MarkFailed, At
  <2>2. \A k \in Msg : status'[k] = "none" <=> status[k] = "none"
    BY <1>3, <2>1 DEF Commit, MarkFailed, TypeOK, RowsOK, Started
  <2>3. QED
    BY <2>2 DEF InTurn
<1>4. CASE UNCHANGED status
  BY <1>4 DEF InTurn
<1>5. QED
  BY <1>1, <1>2, <1>3, <1>4, StatusOnly DEF vars, msgVars

\* Two workers with tokens of one conversation are one.
LEMMA Exclusive ==
  ASSUME LockHeld, NEW v \in Worker, NEW w \in Worker, wk[v].held, wk[w].held,
         ConvOf[wk[v].m] = ConvOf[wk[w].m]
  PROVE  v = w
BY DEF LockHeld

\* What most steps do to the order: no message becomes pending, none is
\* undeleted or sent, no worker passes a check.
OrderQuiet ==
  /\ \A k \in Msg : /\ status'[k] = "pending" => status[k] = "pending"
                    /\ deleted[k] => deleted'[k]
  /\ sends' = sends
  /\ \A v \in Worker : wk'[v].pc \in {"reload", "send"}
                         => wk'[v].pc = wk[v].pc /\ wk'[v].m = wk[v].m

LEMMA QuietKeepsOrder == OrderInv /\ OrderQuiet => OrderInv'
<1> SUFFICES ASSUME OrderInv, OrderQuiet PROVE OrderInv'
  OBVIOUS
<1>1. Foremost'
  BY DEF OrderInv, Foremost, OrderQuiet
<1>2. Overtaken'
  BY DEF OrderInv, Overtaken, OrderQuiet
<1>3. QED
  BY <1>1, <1>2 DEF OrderInv

\* Every step keeps OrderInv: whether a message is sent or its job thrown out,
\* the lock keeps a second worker of the conversation from passing the checks.
LEMMA OrderStep ==
  ASSUME TypeOK, WorkersOK, RowsOK, InTurn, LockHeld, OrderInv,
         Events \intersect {"late_row", "repend"} = {}, [Next]_vars
  PROVE  OrderInv'
<1>t. wk \in [Worker -> WorkerState] /\ sends \in [Msg -> Nat] /\ status \in [Msg -> Status] /\ deleted \in [Msg -> BOOLEAN]
  BY DEF TypeOK
<1>1. ASSUME NEW m \in Msg, SendMessage(m) PROVE OrderInv'
  <2>1. \A n \in Msg : status[n] # "none" => ~(m <= n)
    BY <1>1, MsgFacts DEF SendMessage, InTurn
  <2>2. /\ UNCHANGED <<deleted, sends, wk>>
        /\ \A k \in Msg : k # m => status'[k] = status[k]
    BY <1>1, <1>t DEF SendMessage
  <2>3. \A w \in Worker : wk[w].pc \in {"reload", "send"} => wk[w].m \in Msg /\ ~(m < wk[w].m)
    <3>1. ASSUME NEW w \in Worker, wk[w].pc \in {"reload", "send"}
          PROVE  wk[w].m \in Msg /\ status[wk[w].m] # "none"
      BY <3>1, RunsJob DEF RowsOK, Started
    <3>2. \A n \in Msg : m < n => m <= n
      BY MsgFacts
    <3>3. QED
      BY <2>1, <3>1, <3>2
  <2>4. \A n \in Msg : sends[n] > 0 => ~(m < n)
    BY <2>1, MsgFacts DEF RowsOK, Unknown
  <2>5. Foremost'
    BY <2>2, <2>3 DEF OrderInv, Foremost
  <2>6. Overtaken'
    BY <2>2, <2>4 DEF OrderInv, Overtaken
  <2>7. QED
    BY <2>5, <2>6 DEF OrderInv
<1>2. ASSUME NEW m \in Msg, Enqueue(m) PROVE OrderInv'
  BY <1>2, <1>t, QuietKeepsOrder DEF Enqueue, msgVars, jobVars, OrderQuiet, At, Reports
<1>3. ASSUME NEW m \in Msg, SenderFails(m) PROVE OrderInv'
  BY <1>3, <1>t, QuietKeepsOrder DEF SenderFails, msgVars, jobVars, OrderQuiet, At, Reports
<1>4. ASSUME NEW m \in Msg, DeleteMessage(m) PROVE OrderInv'
  BY <1>4, <1>t, QuietKeepsOrder DEF DeleteMessage, msgVars, jobVars, OrderQuiet, At, Reports
<1>5. ASSUME NEW m \in Msg, NEW s \in Reports, ApplyStatus(m, s) PROVE OrderInv'
  BY <1>5, <1>t, QuietKeepsOrder DEF ApplyStatus, msgVars, jobVars, OrderQuiet, At, Reports
<1>6. ASSUME NEW m \in Msg, NEW s \in Reports \union {"pending"}, UpdateMessageStatus(m, s) PROVE OrderInv'
  BY <1>6, <1>t, QuietKeepsOrder DEF UpdateMessageStatus, msgVars, jobVars, OrderQuiet, At, Reports
<1>7. ASSUME NEW w \in Worker, NEW m \in Msg, NEW b \in BOOLEAN, Take(w, m, b) PROVE OrderInv'
  BY <1>7, <1>t, TakeEffect, QuietKeepsOrder DEF Take, msgVars, jobVars, OrderQuiet, At, Reports
<1>8. ASSUME NEW m \in Msg, NEW b \in BOOLEAN, Stall(m, b) PROVE OrderInv'
  BY <1>8, <1>t, QuietKeepsOrder DEF Stall, msgVars, jobVars, OrderQuiet, At, Reports
<1>9. ASSUME NEW w \in Worker, ReadMessage(w) PROVE OrderInv'
  BY <1>9, <1>t, GotoEffect, QuietKeepsOrder DEF ReadMessage, PC, msgVars, jobVars, OrderQuiet, At, Reports
<1>10. ASSUME NEW w \in Worker, FirstCheck(w) PROVE OrderInv'
  BY <1>10, <1>t, GotoEffect, QuietKeepsOrder DEF FirstCheck, PC, msgVars, jobVars, OrderQuiet, At, Reports
<1>11. ASSUME NEW w \in Worker, Acquire(w) PROVE OrderInv'
  BY <1>11, <1>t, AcquireEffect, QuietKeepsOrder DEF Acquire, msgVars, jobVars, OrderQuiet, At, Reports
<1>12. ASSUME NEW w \in Worker, GiveUp(w) PROVE OrderInv'
  BY <1>12, <1>t, GotoEffect, QuietKeepsOrder DEF GiveUp, PC, msgVars, jobVars, OrderQuiet, At, Reports
<1>13. ASSUME NEW w \in Worker, SecondCheck(w) PROVE OrderInv'
  <2>1. UNCHANGED <<status, deleted, sends>>
    BY <1>13 DEF SecondCheck, msgVars
  <2>2. CASE IsNext(wk[w].m)
    <3>1. /\ \A v \in Worker : wk'[v].m = wk[v].m /\ (v # w => wk'[v].pc = wk[v].pc)
          /\ wk'[w].pc = "reload"
      BY <1>13, <1>t, <2>2, GotoEffect DEF SecondCheck, PC
    <3>2. \A n \in Msg : n < wk[w].m /\ ConvOf[n] = ConvOf[wk[w].m]
                           => status[n] # "pending" \/ deleted[n]
      <4>1. wk[w].m \in Msg
        BY <1>13, RunsJob DEF SecondCheck, At
      <4>2. QED
        <5>1. ASSUME NEW n \in Msg, n < wk[w].m, ConvOf[n] = ConvOf[wk[w].m],
                     status[n] = "pending", ~deleted[n]
              PROVE  FALSE
          <6>1. n \in Pending(ConvOf[wk[w].m])
            BY <5>1 DEF Pending
          <6>2. wk[w].m <= n
            BY <2>2, <6>1 DEF IsNext
          <6>3. n \in Nat /\ wk[w].m \in Nat
            BY <4>1, MsgFacts
          <6>4. QED
            BY <5>1, <6>2, <6>3
        <5>2. QED
          BY <5>1
    <3>3. Foremost'
      BY <2>1, <3>1, <3>2 DEF OrderInv, Foremost
    <3>4. Overtaken'
      BY <2>1, <3>1 DEF OrderInv, Overtaken
    <3>5. QED
      BY <3>3, <3>4 DEF OrderInv
  <2>3. CASE ~IsNext(wk[w].m)
    BY <1>13, <1>t, <2>1, <2>3, GotoEffect, QuietKeepsOrder DEF SecondCheck, OrderQuiet, PC
  <2>4. QED
    BY <2>2, <2>3
<1>14. ASSUME NEW w \in Worker, Reload(w) PROVE OrderInv'
  <2>1. UNCHANGED <<status, deleted, sends>>
    BY <1>14 DEF Reload, msgVars
  <2>2. CASE status[wk[w].m] = "pending"
    <3>1. /\ \A v \in Worker : wk'[v].m = wk[v].m /\ (v # w => wk'[v].pc = wk[v].pc)
          /\ wk[w].pc = "reload" /\ wk'[w].pc = "send"
      BY <1>14, <1>t, <2>2, GotoEffect DEF Reload, At, PC
    <3>2. Foremost'
      BY <2>1, <3>1 DEF OrderInv, Foremost
    <3>3. Overtaken'
      BY <2>1, <2>2, <3>1 DEF OrderInv, Overtaken
    <3>4. QED
      BY <3>2, <3>3 DEF OrderInv
  <2>3. CASE status[wk[w].m] # "pending"
    BY <1>14, <1>t, <2>1, <2>3, GotoEffect, QuietKeepsOrder DEF Reload, OrderQuiet, PC
  <2>4. QED
    BY <2>2, <2>3
<1>15. ASSUME NEW w \in Worker, Send(w) PROVE OrderInv'
  <2>1. UNCHANGED <<status, deleted>> /\ wk[w].pc = "send" /\ wk[w].m \in Msg
    BY <1>15, RunsJob DEF Send, At, msgVars
  <2>2. \A k \in Msg : k # wk[w].m => sends'[k] = sends[k]
    BY <1>15, <1>t, <2>1, SendsMore
  <2>3. \A v \in Worker : wk'[v].m = wk[v].m /\ (v # w => wk'[v].pc = wk[v].pc)
    BY <1>15, <1>t, GotoEffect DEF Send, PC
  <2>4. wk'[w].pc \in {"commit", "throw"}
    BY <1>15, <1>t, GotoEffect DEF Send, PC
  <2>5. Foremost'
    BY <2>1, <2>3, <2>4 DEF OrderInv, Foremost
  <2>6. ASSUME NEW m \in Msg, m < wk[w].m, ConvOf[m] = ConvOf[wk[w].m], ~deleted[m]
        PROVE  status[m] # "pending" /\ \A v \in Worker : wk[v].pc = "send" => wk[v].m # m
    <3>1. status[m] # "pending"
      BY <2>1, <2>6 DEF OrderInv, Foremost
    <3>2. ASSUME NEW v \in Worker, wk[v].pc = "send", wk[v].m = m PROVE FALSE
      <4>1. wk[v].held /\ wk[w].held
        BY <2>1, <3>2 DEF WorkersOK
      <4>2. v = w
        BY <2>6, <3>2, <4>1, Exclusive
      <4>3. QED
        BY <2>6, <3>2, <4>2, MsgFacts
    <3>3. QED
      BY <3>1, <3>2
  <2>7. Overtaken'
    BY <2>1, <2>2, <2>3, <2>4, <2>6 DEF OrderInv, Overtaken
  <2>8. QED
    BY <2>5, <2>7 DEF OrderInv
<1>16. ASSUME NEW w \in Worker, Commit(w) PROVE OrderInv'
  BY <1>16, <1>t, GotoEffect, QuietKeepsOrder DEF Commit, PC, msgVars, jobVars, OrderQuiet, At, Reports
<1>17. ASSUME NEW w \in Worker, Requeue(w) PROVE OrderInv'
  BY <1>17, <1>t, GotoEffect, QuietKeepsOrder DEF Requeue, PC, msgVars, jobVars, OrderQuiet, At, Reports
<1>18. ASSUME NEW w \in Worker, Release(w) PROVE OrderInv'
  BY <1>18, <1>t, ReleaseEffect, QuietKeepsOrder DEF Release, msgVars, jobVars, OrderQuiet, At, Reports
<1>19. ASSUME NEW w \in Worker, Unwind(w) PROVE OrderInv'
  BY <1>19, <1>t, UnwindEffect, QuietKeepsOrder DEF Unwind, msgVars, jobVars, OrderQuiet, At, Reports
<1>20. ASSUME NEW w \in Worker, MarkFailed(w) PROVE OrderInv'
  BY <1>20, <1>t, ReleaseEffect, QuietKeepsOrder DEF MarkFailed, msgVars, jobVars, OrderQuiet, At, Reports
<1>21. ASSUME NEW w \in Worker, Throw(w) PROVE OrderInv'
  BY <1>21, <1>t, GotoEffect, QuietKeepsOrder DEF Throw, PC, msgVars, jobVars, OrderQuiet, At, Reports
<1>22. ASSUME NEW w \in Worker, Crash(w) PROVE OrderInv'
  BY <1>22, <1>t, ReleaseEffect, QuietKeepsOrder DEF Crash, msgVars, jobVars, OrderQuiet, At, Reports
<1>23. ASSUME NEW w \in Worker, LoseJob(w) PROVE OrderInv'
  BY <1>23, <1>t, LoseJobEffect, QuietKeepsOrder DEF LoseJob, msgVars, jobVars, OrderQuiet, At, Reports
<1>24. ASSUME NEW w \in Worker, NEW n \in 0..NMsg, Boot(w, n) PROVE OrderInv'
  BY <1>24, <1>t, ReleaseEffect, QuietKeepsOrder DEF Boot, msgVars, jobVars, OrderQuiet, At, Reports
<1>25. ASSUME NEW c \in Conv, Expire(c) PROVE OrderInv'
  BY <1>25, <1>t, QuietKeepsOrder DEF Expire, msgVars, jobVars, OrderQuiet, At, Reports
<1>26. CASE Age
  BY <1>26, <1>t, QuietKeepsOrder DEF Age, msgVars, jobVars, OrderQuiet, At, Reports
<1>27. CASE UNCHANGED vars
  BY <1>27, QuietKeepsOrder DEF vars, msgVars, jobVars, OrderQuiet
<1>28. QED
  BY <1>1, <1>2, <1>3, <1>4, <1>5, <1>6, <1>7, <1>8, <1>9, <1>10, <1>11, <1>12, <1>13, <1>14, <1>15, <1>16, <1>17, <1>18, <1>19, <1>20, <1>21, <1>22, <1>23, <1>24, <1>25, <1>26, <1>27 DEF Next, Step

\* What most steps do to the count of sendings.
OnceQuiet ==
  /\ \A k \in Msg : status'[k] = "pending" => status[k] = "pending"
  /\ sends' = sends
  /\ \A v \in Worker : /\ wk'[v].pc = "send" => wk[v].pc = "send" /\ wk'[v].m = wk[v].m
                       /\ wk[v].pc = "commit" => wk'[v].pc = "commit" /\ wk'[v].m = wk[v].m

LEMMA QuietKeepsOnce == OnceInv /\ OnceQuiet => OnceInv'
BY DEF OnceInv, OnceQuiet

\* While no answer is lost and no worker stops, every step keeps OnceInv.
LEMMA OnceStep ==
  ASSUME TypeOK, WorkersOK, RowsOK, LockHeld, OnceInv,
         Events \intersect {"error", "crash", "repend"} = {}, [Next]_vars
  PROVE  OnceInv'
<1>t. wk \in [Worker -> WorkerState] /\ sends \in [Msg -> Nat] /\ status \in [Msg -> Status]
  BY DEF TypeOK
<1>1. ASSUME NEW m \in Msg, SendMessage(m) PROVE OnceInv'
  <2>1. sends[m] = 0
    BY <1>1 DEF SendMessage, RowsOK, Unknown
  <2>2. UNCHANGED <<sends, wk>> /\ \A k \in Msg : k # m => status'[k] = status[k]
    BY <1>1, <1>t DEF SendMessage
  <2>3. QED
    BY <2>1, <2>2 DEF OnceInv
<1>2. ASSUME NEW m \in Msg, Enqueue(m) PROVE OnceInv'
  BY <1>2, <1>t, QuietKeepsOnce DEF Enqueue, msgVars, jobVars, OnceQuiet, At, Reports
<1>3. ASSUME NEW m \in Msg, SenderFails(m) PROVE OnceInv'
  BY <1>3, <1>t, QuietKeepsOnce DEF SenderFails, msgVars, jobVars, OnceQuiet, At, Reports
<1>4. ASSUME NEW m \in Msg, DeleteMessage(m) PROVE OnceInv'
  BY <1>4, <1>t, QuietKeepsOnce DEF DeleteMessage, msgVars, jobVars, OnceQuiet, At, Reports
<1>5. ASSUME NEW m \in Msg, NEW s \in Reports, ApplyStatus(m, s) PROVE OnceInv'
  BY <1>5, <1>t, QuietKeepsOnce DEF ApplyStatus, msgVars, jobVars, OnceQuiet, At, Reports
<1>6. ASSUME NEW m \in Msg, NEW s \in Reports \union {"pending"}, UpdateMessageStatus(m, s) PROVE OnceInv'
  BY <1>6, <1>t, QuietKeepsOnce DEF UpdateMessageStatus, msgVars, jobVars, OnceQuiet, At, Reports
<1>7. ASSUME NEW w \in Worker, NEW m \in Msg, NEW b \in BOOLEAN, Take(w, m, b) PROVE OnceInv'
  BY <1>7, <1>t, TakeEffect, QuietKeepsOnce DEF Take, msgVars, jobVars, OnceQuiet, At, Reports
<1>8. ASSUME NEW m \in Msg, NEW b \in BOOLEAN, Stall(m, b) PROVE OnceInv'
  BY <1>8, <1>t, QuietKeepsOnce DEF Stall, msgVars, jobVars, OnceQuiet, At, Reports
<1>9. ASSUME NEW w \in Worker, ReadMessage(w) PROVE OnceInv'
  BY <1>9, <1>t, GotoEffect, QuietKeepsOnce DEF ReadMessage, PC, msgVars, jobVars, OnceQuiet, At, Reports
<1>10. ASSUME NEW w \in Worker, FirstCheck(w) PROVE OnceInv'
  BY <1>10, <1>t, GotoEffect, QuietKeepsOnce DEF FirstCheck, PC, msgVars, jobVars, OnceQuiet, At, Reports
<1>11. ASSUME NEW w \in Worker, Acquire(w) PROVE OnceInv'
  BY <1>11, <1>t, AcquireEffect, QuietKeepsOnce DEF Acquire, msgVars, jobVars, OnceQuiet, At, Reports
<1>12. ASSUME NEW w \in Worker, GiveUp(w) PROVE OnceInv'
  BY <1>12, <1>t, GotoEffect, QuietKeepsOnce DEF GiveUp, PC, msgVars, jobVars, OnceQuiet, At, Reports
<1>13. ASSUME NEW w \in Worker, SecondCheck(w) PROVE OnceInv'
  BY <1>13, <1>t, GotoEffect, QuietKeepsOnce DEF SecondCheck, PC, msgVars, jobVars, OnceQuiet, At, Reports
<1>14. ASSUME NEW w \in Worker, Reload(w) PROVE OnceInv'
  <2>1. UNCHANGED <<status, sends>>
    BY <1>14 DEF Reload, msgVars
  <2>2. CASE status[wk[w].m] = "pending"
    <3>1. /\ \A v \in Worker : wk'[v].m = wk[v].m /\ (v # w => wk'[v].pc = wk[v].pc)
          /\ wk[w].pc = "reload" /\ wk'[w].pc = "send" /\ wk[w].m \in Msg
      BY <1>14, <1>t, <2>2, GotoEffect, RunsJob DEF Reload, At, PC
    <3>2. ASSUME NEW v \in Worker, wk[v].pc = "commit", wk[v].m = wk[w].m PROVE FALSE
      <4>1. wk[v].held /\ wk[w].held
        BY <3>1, <3>2 DEF WorkersOK
      <4>2. QED
        BY <3>1, <3>2, <4>1, Exclusive
    <3>3. sends[wk[w].m] = 0
      BY <1>t, <2>2, <3>1, <3>2 DEF OnceInv
    <3>4. QED
      BY <2>1, <3>1, <3>3 DEF OnceInv
  <2>3. CASE status[wk[w].m] # "pending"
    BY <1>14, <1>t, <2>1, <2>3, GotoEffect, QuietKeepsOnce DEF Reload, At, OnceQuiet, PC
  <2>4. QED
    BY <2>2, <2>3
<1>15. ASSUME NEW w \in Worker, Send(w) PROVE OnceInv'
  <2>1. UNCHANGED status /\ wk[w].pc = "send" /\ wk[w].m \in Msg
    BY <1>15, RunsJob DEF Send, At, msgVars
  <2>2. \A k \in Msg : sends'[k] = IF k = wk[w].m THEN sends[k] + 1 ELSE sends[k]
    BY <1>15, <1>t, <2>1, SendsMore
  <2>3. /\ \A v \in Worker : wk'[v].m = wk[v].m /\ (v # w => wk'[v].pc = wk[v].pc)
        /\ wk'[w].pc = "commit"
    BY <1>15, <1>t, GotoEffect DEF Send, PC
  <2>4. ASSUME NEW v \in Worker, v # w, wk[v].pc = "send" PROVE wk[v].m # wk[w].m
    <3>1. wk[v].held /\ wk[w].held
      BY <2>1, <2>4 DEF WorkersOK
    <3>2. QED
      BY <2>4, <3>1, Exclusive
  <2>5. sends[wk[w].m] = 0
    BY <2>1 DEF OnceInv
  <2>6. \A k \in Msg : sends'[k] <= 1
    BY <2>2, <2>5 DEF OnceInv
  <2>7. ASSUME NEW v \in Worker, wk'[v].pc = "send" PROVE sends'[wk'[v].m] = 0
    <3>1. v # w /\ wk[v].pc = "send" /\ wk[v].m \in Msg
      BY <2>3, <2>7, RunsJob
    <3>2. QED
      BY <2>2, <2>3, <2>4, <3>1 DEF OnceInv
  <2>8. ASSUME NEW m \in Msg, sends'[m] > 0, status'[m] = "pending"
        PROVE  \E v \in Worker : wk'[v].pc = "commit" /\ wk'[v].m = m
    <3>1. CASE m = wk[w].m
      BY <2>3, <3>1
    <3>2. CASE m # wk[w].m
      <4>1. PICK v \in Worker : wk[v].pc = "commit" /\ wk[v].m = m
        BY <2>1, <2>2, <2>8, <3>2 DEF OnceInv
      <4>2. QED
        BY <2>1, <2>3, <4>1
    <3>3. QED
      BY <3>1, <3>2
  <2>9. QED
    BY <2>6, <2>7, <2>8 DEF OnceInv
<1>16. ASSUME NEW w \in Worker, Commit(w) PROVE OnceInv'
  <2>1. UNCHANGED sends /\ wk[w].pc = "commit" /\ wk[w].m \in Msg
    BY <1>16, RunsJob DEF Commit, At
  <2>2. /\ status'[wk[w].m] = "sent"
        /\ \A k \in Msg : k # wk[w].m => status'[k] = status[k]
    BY <1>16, <1>t, <2>1 DEF Commit
  <2>3. /\ \A v \in Worker : wk'[v].m = wk[v].m /\ (v # w => wk'[v].pc = wk[v].pc)
        /\ wk'[w].pc = "release"
    BY <1>16, <1>t, GotoEffect DEF Commit, PC
  <2>4. ASSUME NEW m \in Msg, sends'[m] > 0, status'[m] = "pending"
        PROVE  \E v \in Worker : wk'[v].pc = "commit" /\ wk'[v].m = m
    <3>1. m # wk[w].m
      BY <2>2, <2>4
    <3>2. PICK v \in Worker : wk[v].pc = "commit" /\ wk[v].m = m
      BY <2>1, <2>2, <2>4, <3>1 DEF OnceInv
    <3>3. QED
      BY <2>3, <3>1, <3>2
  <2>5. QED
    BY <2>1, <2>3, <2>4 DEF OnceInv
<1>17. ASSUME NEW w \in Worker, Requeue(w) PROVE OnceInv'
  BY <1>17, <1>t, GotoEffect, QuietKeepsOnce DEF Requeue, PC, msgVars, jobVars, OnceQuiet, At, Reports
<1>18. ASSUME NEW w \in Worker, Release(w) PROVE OnceInv'
  BY <1>18, <1>t, ReleaseEffect, QuietKeepsOnce DEF Release, msgVars, jobVars, OnceQuiet, At, Reports
<1>19. ASSUME NEW w \in Worker, Unwind(w) PROVE OnceInv'
  BY <1>19, <1>t, UnwindEffect, QuietKeepsOnce DEF Unwind, msgVars, jobVars, OnceQuiet, At, Reports
<1>20. ASSUME NEW w \in Worker, MarkFailed(w) PROVE OnceInv'
  BY <1>20, <1>t, ReleaseEffect, QuietKeepsOnce DEF MarkFailed, msgVars, jobVars, OnceQuiet, At, Reports
<1>21. ASSUME NEW w \in Worker, Throw(w) PROVE OnceInv'
  BY <1>21, <1>t, GotoEffect, QuietKeepsOnce DEF Throw, PC, msgVars, jobVars, OnceQuiet, At, Reports
<1>22. ASSUME NEW w \in Worker, Crash(w) PROVE OnceInv'
  BY <1>22, <1>t, ReleaseEffect, QuietKeepsOnce DEF Crash, msgVars, jobVars, OnceQuiet, At, Reports
<1>23. ASSUME NEW w \in Worker, LoseJob(w) PROVE OnceInv'
  BY <1>23, <1>t, LoseJobEffect, QuietKeepsOnce DEF LoseJob, msgVars, jobVars, OnceQuiet, At, Reports
<1>24. ASSUME NEW w \in Worker, NEW n \in 0..NMsg, Boot(w, n) PROVE OnceInv'
  BY <1>24, <1>t, ReleaseEffect, QuietKeepsOnce DEF Boot, msgVars, jobVars, OnceQuiet, At, Reports
<1>25. ASSUME NEW c \in Conv, Expire(c) PROVE OnceInv'
  BY <1>25, <1>t, QuietKeepsOnce DEF Expire, msgVars, jobVars, OnceQuiet, At, Reports
<1>26. CASE Age
  BY <1>26, <1>t, QuietKeepsOnce DEF Age, msgVars, jobVars, OnceQuiet, At, Reports
<1>27. CASE UNCHANGED vars
  BY <1>27, QuietKeepsOnce DEF vars, msgVars, jobVars, OnceQuiet
<1>28. QED
  BY <1>1, <1>2, <1>3, <1>4, <1>5, <1>6, <1>7, <1>8, <1>9, <1>10, <1>11, <1>12, <1>13, <1>14, <1>15, <1>16, <1>17, <1>18, <1>19, <1>20, <1>21, <1>22, <1>23, <1>24, <1>25, <1>26, <1>27 DEF Next, Step

\* What most steps do to the jobs: a message loses its worker only if it is not
\* to be sent, or has a job.
CoverQuiet ==
  /\ \A k \in Msg :
       /\ status'[k] = "pending" /\ ~deleted'[k] => status[k] = "pending" /\ ~deleted[k]
       /\ k \in unqueued => k \in unqueued'
       /\ \A b \in BOOLEAN : waiting[k][b] > 0 => waiting'[k][b] > 0
       /\ orphan[k][FALSE] > 0 => orphan'[k][FALSE] > 0
  /\ \A v \in Worker : wk[v].m \in Msg /\ wk[v].pc # "release" =>
       \/ wk'[v].m = wk[v].m /\ wk'[v].pc # "release"
       \/ status'[wk[v].m] # "pending" \/ deleted'[wk[v].m]
       \/ waiting'[wk[v].m][FALSE] > 0

LEMMA QuietKeepsCover == CoverInv /\ CoverQuiet => CoverInv'
<1> SUFFICES ASSUME CoverInv, CoverQuiet, NEW m \in Msg, status'[m] = "pending", ~deleted'[m]
             PROVE  \/ m \in unqueued'
                    \/ (\E b \in BOOLEAN : waiting'[m][b] > 0) \/ orphan'[m][FALSE] > 0
                    \/ \E w \in Worker : wk'[w].m = m /\ wk'[w].pc # "release"
  BY DEF CoverInv
<1>1. CASE \E w \in Worker : wk[w].m = m /\ wk[w].pc # "release"
  <2>1. PICK w \in Worker : wk[w].m = m /\ wk[w].pc # "release"
    BY <1>1
  <2>2. QED
    BY <2>1 DEF CoverQuiet
<1>2. CASE m \in unqueued \/ (\E b \in BOOLEAN : waiting[m][b] > 0) \/ orphan[m][FALSE] > 0
  BY <1>2 DEF CoverQuiet
<1>3. QED
  BY <1>1, <1>2 DEF CoverInv, CoverQuiet

\* A worker goes on, or goes to release a message that is not to be sent.
LEMMA GotoKeepsCover ==
  ASSUME CoverInv, wk \in [Worker -> WorkerState], NEW w \in Worker, NEW p \in PC, Goto(w, p),
         UNCHANGED <<deleted, unqueued, waiting, orphan>>,
         \A k \in Msg : status'[k] = "pending" => status[k] = "pending",
         p # "release" \/ status'[wk[w].m] # "pending" \/ deleted[wk[w].m]
  PROVE  CoverInv'
BY GotoEffect, QuietKeepsCover DEF CoverQuiet

LEMMA JobCounts ==
  ASSUME TypeOK
  PROVE  \A k \in Msg, a \in BOOLEAN : waiting[k][a] \in Nat /\ orphan[k][a] \in Nat
BY DEF TypeOK

\* While no process stops and every failed job marks its message, every step
\* keeps CoverInv.
LEMMA CoverStep ==
  ASSUME TypeOK, WorkersOK, CoverInv,
         Events \intersect {"crash", "api_crash", "mark_error", "repend"} = {}, [Next]_vars
  PROVE  CoverInv'
<1>t. /\ wk \in [Worker -> WorkerState] /\ status \in [Msg -> Status] /\ deleted \in [Msg -> BOOLEAN]
      /\ waiting \in [Msg -> [BOOLEAN -> Nat]] /\ orphan \in [Msg -> [BOOLEAN -> Nat]]
  BY DEF TypeOK
<1>j. /\ \A k \in Msg, a \in BOOLEAN : waiting[k][a] \in Nat /\ orphan[k][a] \in Nat
      /\ \A k \in Msg, a \in BOOLEAN : waiting'[k][a] \in Nat /\ orphan'[k][a] \in Nat
  <2>1. TypeOK'
    BY TypeStep
  <2>2. \A k \in Msg, a \in BOOLEAN : waiting'[k][a] \in Nat /\ orphan'[k][a] \in Nat
    BY <2>1 DEF TypeOK
  <2>3. QED
    BY <2>2, JobCounts
<1>1. ASSUME NEW m \in Msg, SendMessage(m) PROVE CoverInv'
  <2>1. UNCHANGED <<deleted, waiting, orphan, wk>> /\ unqueued' = unqueued \union {m}
    BY <1>1 DEF SendMessage, jobVars
  <2>2. \A k \in Msg : k # m => status'[k] = status[k]
    BY <1>1, <1>t DEF SendMessage
  <2>3. QED
    BY <2>1, <2>2 DEF CoverInv
<1>2. ASSUME NEW m \in Msg, Enqueue(m) PROVE CoverInv'
  <2>1. UNCHANGED <<status, deleted, orphan, wk>> /\ unqueued' = unqueued \ {m}
    BY <1>2 DEF Enqueue
  <2> DEFINE b == FALSE
  <2>2. waiting' = [waiting EXCEPT ![m][b] = waiting[m][b] + 1] /\ b \in BOOLEAN
    BY <1>2 DEF Enqueue
  <2> HIDE DEF b
  <2>3. b \in BOOLEAN /\ waiting'[m][b] > 0
    BY <1>t, <1>j, <2>2
  <2>4. \A k \in Msg : k # m => waiting'[k] = waiting[k]
    BY <1>t, <2>2
  <2>5. QED
    BY <2>1, <2>3, <2>4 DEF CoverInv
<1>3. ASSUME NEW m \in Msg, SenderFails(m) PROVE CoverInv'
  BY <1>3, <1>t, QuietKeepsCover DEF SenderFails, msgVars, jobVars, CoverQuiet, At, Reports
<1>4. ASSUME NEW m \in Msg, DeleteMessage(m) PROVE CoverInv'
  BY <1>4, <1>t, QuietKeepsCover DEF DeleteMessage, msgVars, jobVars, CoverQuiet, At, Reports
<1>5. ASSUME NEW m \in Msg, NEW s \in Reports, ApplyStatus(m, s) PROVE CoverInv'
  BY <1>5, <1>t, QuietKeepsCover DEF ApplyStatus, msgVars, jobVars, CoverQuiet, At, Reports
<1>6. ASSUME NEW m \in Msg, NEW s \in Reports \union {"pending"}, UpdateMessageStatus(m, s) PROVE CoverInv'
  BY <1>6, <1>t, QuietKeepsCover DEF UpdateMessageStatus, msgVars, jobVars, CoverQuiet, At, Reports
<1>7. ASSUME NEW w \in Worker, NEW m \in Msg, NEW b \in BOOLEAN, Take(w, m, b) PROVE CoverInv'
  <2>1. UNCHANGED <<status, deleted, unqueued, orphan>> /\ wk[w].m = NoMsg
    BY <1>7 DEF Take, At, msgVars, WorkersOK
  <2>2. \A k \in Msg : k # m => waiting'[k] = waiting[k]
    BY <1>7, <1>t DEF Take
  <2>3. /\ wk'[w].m = m /\ wk'[w].pc = "read"
        /\ \A v \in Worker : v # w => wk'[v] = wk[v]
    <3>1. wk \in [Worker -> WorkerState]
      BY <1>t
    <3>2. QED
      BY <1>7, <3>1, TakeEffect
  <2>4. ASSUME NEW k \in Msg, k # m, \E v \in Worker : wk[v].m = k /\ wk[v].pc # "release"
        PROVE  \E v \in Worker : wk'[v].m = k /\ wk'[v].pc # "release"
    BY <2>1, <2>3, <2>4, MsgFacts
  <2>5. QED
    BY <2>1, <2>2, <2>3, <2>4 DEF CoverInv
<1>8. ASSUME NEW m \in Msg, NEW b \in BOOLEAN, Stall(m, b) PROVE CoverInv'
  <2>1. UNCHANGED <<status, deleted, unqueued, wk>>
    BY <1>8 DEF Stall, msgVars
  <2>2. \A k \in Msg, a \in BOOLEAN : waiting[k][a] > 0 => waiting'[k][a] > 0
    BY <1>8, <1>t, <1>j, StallMore
  <2>3. CASE b
    <3>1. \A k \in Msg : orphan'[k][FALSE] = orphan[k][FALSE]
      BY <1>8, <1>t, <2>3, OrphanLess
    <3>2. QED
      BY <2>1, <2>2, <3>1, QuietKeepsCover DEF CoverQuiet
  <2>4. CASE ~b
    <3> DEFINE a == TRUE
    <3>1. waiting' = [waiting EXCEPT ![m][a] = waiting[m][a] + 1] /\ a \in BOOLEAN
      BY <1>8, <2>4 DEF Stall
    <3> HIDE DEF a
    <3>2. a \in BOOLEAN /\ waiting'[m][a] > 0
      BY <1>t, <1>j, <3>1
    <3>3. \A k \in Msg : k # m => orphan'[k][FALSE] = orphan[k][FALSE]
      BY <1>8, <1>t, OrphanLess
    <3>4. QED
      BY <2>1, <2>2, <3>2, <3>3 DEF CoverInv
  <2>5. QED
    BY <2>3, <2>4
<1>9. ASSUME NEW w \in Worker, ReadMessage(w) PROVE CoverInv'
  <2>1. UNCHANGED <<status, deleted, unqueued, waiting, orphan>>
    BY <1>9 DEF ReadMessage, msgVars, jobVars
  <2>2. PICK p \in PC : /\ Goto(w, p)
                        /\ p # "release" \/ status[wk[w].m] # "pending" \/ deleted[wk[w].m]
    BY <1>9 DEF ReadMessage, PC
  <2>3. QED
    BY <1>t, <2>1, <2>2, GotoKeepsCover
<1>10. ASSUME NEW w \in Worker, FirstCheck(w) PROVE CoverInv'
  <2>1. UNCHANGED <<status, deleted, unqueued, waiting, orphan>>
    BY <1>10 DEF FirstCheck, msgVars, jobVars
  <2>2. PICK p \in PC \ {"release"} : Goto(w, p)
    BY <1>10 DEF FirstCheck, PC
  <2>3. QED
    BY <1>t, <2>1, <2>2, GotoKeepsCover
<1>11. ASSUME NEW w \in Worker, Acquire(w) PROVE CoverInv'
  BY <1>11, <1>t, AcquireEffect, QuietKeepsCover DEF Acquire, msgVars, jobVars, CoverQuiet, At, Reports
<1>12. ASSUME NEW w \in Worker, GiveUp(w) PROVE CoverInv'
  <2>1. UNCHANGED <<status, deleted, unqueued, waiting, orphan>>
    BY <1>12 DEF GiveUp, msgVars, jobVars
  <2>2. PICK p \in PC : /\ Goto(w, p)
                        /\ p # "release" \/ status[wk[w].m] # "pending" \/ deleted[wk[w].m]
    BY <1>12 DEF GiveUp, PC
  <2>3. QED
    BY <1>t, <2>1, <2>2, GotoKeepsCover
<1>13. ASSUME NEW w \in Worker, SecondCheck(w) PROVE CoverInv'
  <2>1. UNCHANGED <<status, deleted, unqueued, waiting, orphan>>
    BY <1>13 DEF SecondCheck, msgVars, jobVars
  <2>2. PICK p \in PC \ {"release"} : Goto(w, p)
    BY <1>13 DEF SecondCheck, PC
  <2>3. QED
    BY <1>t, <2>1, <2>2, GotoKeepsCover
<1>14. ASSUME NEW w \in Worker, Reload(w) PROVE CoverInv'
  <2>1. UNCHANGED <<status, deleted, unqueued, waiting, orphan>>
    BY <1>14 DEF Reload, msgVars, jobVars
  <2>2. PICK p \in PC : /\ Goto(w, p)
                        /\ p # "release" \/ status[wk[w].m] # "pending" \/ deleted[wk[w].m]
    BY <1>14 DEF Reload, PC
  <2>3. QED
    BY <1>t, <2>1, <2>2, GotoKeepsCover
<1>15. ASSUME NEW w \in Worker, Send(w) PROVE CoverInv'
  <2>1. UNCHANGED <<status, deleted, unqueued, waiting, orphan>>
    BY <1>15 DEF Send, msgVars, jobVars
  <2>2. PICK p \in PC \ {"release"} : Goto(w, p)
    BY <1>15 DEF Send, PC
  <2>3. QED
    BY <1>t, <2>1, <2>2, GotoKeepsCover
<1>16. ASSUME NEW w \in Worker, Commit(w) PROVE CoverInv'
  <2>1. UNCHANGED <<deleted, unqueued, waiting, orphan>> /\ Goto(w, "release")
    BY <1>16 DEF Commit, jobVars
  <2>2. wk[w].m \in Msg
    BY <1>16, RunsJob DEF Commit, At
  <2>3. status'[wk[w].m] = "sent" /\ \A k \in Msg : k # wk[w].m => status'[k] = status[k]
    BY <1>16, <1>t, <2>2 DEF Commit
  <2>4. QED
    BY <1>t, <2>1, <2>3, GotoKeepsCover DEF PC
<1>17. ASSUME NEW w \in Worker, Requeue(w) PROVE CoverInv'
  <2>1. UNCHANGED <<status, deleted, unqueued, orphan>> /\ wk[w].m \in Msg
    BY <1>17, RunsJob DEF Requeue, At, msgVars
  <2>2. waiting'[wk[w].m][FALSE] > 0
    BY <1>17, <1>t, <2>1, RequeueMore
  <2>3. \A k \in Msg, a \in BOOLEAN : waiting[k][a] > 0 => waiting'[k][a] > 0
    <3>1. \A k \in Msg, a \in BOOLEAN : waiting'[k][a] >= waiting[k][a]
      BY <1>17, <1>t, <2>1, RequeueMore
    <3>2. QED
      BY <1>j, <3>1
  <2>4. \A v \in Worker : wk'[v].m = wk[v].m /\ (v # w => wk'[v].pc = wk[v].pc)
    BY <1>17, <1>t, GotoEffect DEF Requeue, PC
  <2>5. QED
    BY <2>1, <2>2, <2>3, <2>4, QuietKeepsCover DEF CoverQuiet
<1>18. ASSUME NEW w \in Worker, Release(w) PROVE CoverInv'
  BY <1>18, <1>t, ReleaseEffect, QuietKeepsCover DEF Release, msgVars, jobVars, CoverQuiet, At, Reports
<1>19. ASSUME NEW w \in Worker, Unwind(w) PROVE CoverInv'
  BY <1>19, <1>t, UnwindEffect, QuietKeepsCover DEF Unwind, msgVars, jobVars, CoverQuiet, At, Reports
<1>20. ASSUME NEW w \in Worker, MarkFailed(w) PROVE CoverInv'
  BY <1>20, <1>t, ReleaseEffect, QuietKeepsCover DEF MarkFailed, msgVars, jobVars, CoverQuiet, At, Reports
<1>21. ASSUME NEW w \in Worker, Throw(w) PROVE CoverInv'
  <2>1. UNCHANGED <<status, deleted, unqueued, waiting, orphan>>
    BY <1>21 DEF Throw, msgVars, jobVars
  <2>2. PICK p \in PC \ {"release"} : Goto(w, p)
    BY <1>21 DEF Throw, PC
  <2>3. QED
    BY <1>t, <2>1, <2>2, GotoKeepsCover
<1>22. ASSUME NEW w \in Worker, Crash(w) PROVE CoverInv'
  BY <1>22, <1>t, ReleaseEffect, QuietKeepsCover DEF Crash, msgVars, jobVars, CoverQuiet, At, Reports
<1>23. ASSUME NEW w \in Worker, LoseJob(w) PROVE CoverInv'
  <2>1. UNCHANGED <<status, deleted, unqueued, waiting>>
    BY <1>23 DEF LoseJob, msgVars
  <2>2. \A k \in Msg : orphan[k][FALSE] > 0 => orphan'[k][FALSE] > 0
    <3>1. \A k \in Msg, a \in BOOLEAN : orphan'[k][a] >= orphan[k][a]
      BY <1>23, <1>t, DropEffect DEF LoseJob
    <3>2. \A k \in Msg, a \in BOOLEAN : orphan[k][a] > 0 => orphan'[k][a] > 0
      BY <1>j, <3>1
    <3>3. QED
      BY <3>2
  <2>3. QED
    BY <1>23, <1>t, <2>1, <2>2, LoseJobEffect, QuietKeepsCover DEF CoverQuiet
<1>24. ASSUME NEW w \in Worker, NEW n \in 0..NMsg, Boot(w, n) PROVE CoverInv'
  <2>1. UNCHANGED <<status, deleted, unqueued, orphan>> /\ wk[w].m = NoMsg
    BY <1>24 DEF Boot, At, msgVars, WorkersOK
  <2>2. \A k \in Msg, a \in BOOLEAN : waiting[k][a] > 0 => waiting'[k][a] > 0
    BY <1>24, <1>t, BootMore
  <2>3. \A v \in Worker : v # w => wk'[v] = wk[v]
    BY <1>24, <1>t, ReleaseEffect
  <2>4. QED
    BY <2>1, <2>2, <2>3, MsgFacts, QuietKeepsCover DEF CoverQuiet
<1>25. ASSUME NEW c \in Conv, Expire(c) PROVE CoverInv'
  BY <1>25, <1>t, QuietKeepsCover DEF Expire, msgVars, jobVars, CoverQuiet, At, Reports
<1>26. CASE Age
  BY <1>26, <1>t, QuietKeepsCover DEF Age, msgVars, jobVars, CoverQuiet, At, Reports
<1>27. CASE UNCHANGED vars
  BY <1>27, QuietKeepsCover DEF vars, msgVars, jobVars, CoverQuiet
<1>28. QED
  BY <1>1, <1>2, <1>3, <1>4, <1>5, <1>6, <1>7, <1>8, <1>9, <1>10, <1>11, <1>12, <1>13, <1>14, <1>15, <1>16, <1>17, <1>18, <1>19, <1>20, <1>21, <1>22, <1>23, <1>24, <1>25, <1>26, <1>27 DEF Next, Step

-----------------------------------------------------------------------------
LEMMA InitBase == Init => Base /\ InTurn /\ LockHeld /\ OrderInv /\ OnceInv /\ CoverInv
<1> SUFFICES ASSUME Init PROVE Base /\ InTurn /\ LockHeld /\ OrderInv /\ OnceInv /\ CoverInv
  OBVIOUS
<1>1. \A w \in Worker : /\ wk[w] \in WorkerState /\ wk[w].pc \in {"idle", "down"}
                        /\ wk[w].m = NoMsg /\ ~wk[w].held
  <2>1. SUFFICES ASSUME NEW w \in Worker
                 PROVE  /\ wk[w] \in WorkerState /\ wk[w].pc \in {"idle", "down"}
                        /\ wk[w].m = NoMsg /\ ~wk[w].held
    OBVIOUS
  <2>2. CASE wk[w] = Idle
    BY <2>2 DEF Idle, WorkerState, PC
  <2>3. CASE wk[w] = Down
    BY <2>3 DEF Idle, Down, WorkerState, PC
  <2>4. QED
    BY <2>2, <2>3 DEF Init
<1>2. wk \in [Worker -> WorkerState]
  BY <1>1 DEF Init
<1>3. TypeOK
  BY <1>2, OutboundAssumption DEF Init, TypeOK, Status
<1>4. WorkersOK
  BY <1>1 DEF WorkersOK
<1>5. RowsOK /\ InTurn
  BY <1>1, MsgFacts DEF Init, RowsOK, Unknown, Started, InTurn
<1>6. LockHeld
  BY <1>1 DEF LockHeld
<1>7. Foremost
  BY <1>1 DEF Foremost
<1>8. Overtaken
  BY DEF Init, Overtaken
<1>9. OnceInv /\ CoverInv
  BY <1>1 DEF Init, OnceInv, CoverInv
<1>10. QED
  BY <1>3, <1>4, <1>5, <1>6, <1>7, <1>8, <1>9 DEF Base, OrderInv

\* Rows, jobs and workers keep their types, and what is known of a message
\* agrees with its row, whatever fails.
THEOREM OutboundBase == Spec => []Base
<1>1. Init => Base
  BY InitBase
<1>2. Base /\ [Next]_vars => Base'
  BY TypeStep, WorkersStep, RowsStep DEF Base
<1>3. QED
  BY <1>1, <1>2, PTL DEF Spec

\* The type invariant is one.
THEOREM OutboundTypeCorrect == Spec => []TypeOK
<1>1. Base => TypeOK
  BY DEF Base
<1>2. QED
  BY <1>1, OutboundBase, PTL

\* The lock a worker thinks it has is its own, as long as none expires under
\* its holder: workers may stop at any step, jobs may be run twice.
THEOREM LockIsHeld ==
  ASSUME "lock_expiry" \notin Events
  PROVE  Spec => []LockHeld
<1>1. Init => LockHeld
  BY InitBase
<1>2. Base /\ LockHeld /\ [Next]_vars => LockHeld'
  BY LockStep DEF Base
<1>3. QED
  BY <1>1, <1>2, OutboundBase, PTL DEF Spec

\* Once a message of a conversation has gone out, no earlier one does: for any
\* number of workers that stop, lose their jobs or fail, and any statuses that
\* arrive, as long as no lock expires under its holder, no row comes late and no
\* message is put back to pending.
THEOREM GoesOutInOrder ==
  ASSUME Events \intersect {"lock_expiry", "late_row", "repend"} = {}
  PROVE  Spec => InOrder
<1> DEFINE Inv == InTurn /\ OrderInv
<1>1. Init => Inv
  BY InitBase
<1>2. Base /\ LockHeld /\ Inv /\ [Next]_vars => Inv'
  BY InTurnStep, OrderStep DEF Base
<1>3. Base /\ Inv /\ [Next]_vars =>
        [\A m, n \in Msg : (m < n /\ ConvOf[m] = ConvOf[n] /\ sends[n] > 0 /\ ~deleted[m])
                             => sends'[m] = sends[m]]_vars
  <2>1. SUFFICES ASSUME Base, OrderInv, Next, NEW m \in Msg, NEW n \in Msg,
                        m < n, ConvOf[m] = ConvOf[n], sends[n] > 0, ~deleted[m]
                 PROVE  sends'[m] = sends[m]
    OBVIOUS
  <2>2. \A w \in Worker : wk[w].pc = "send" => wk[w].m # m
    BY <2>1 DEF OrderInv, Overtaken
  <2>3. ASSUME NEW w \in Worker, Send(w) PROVE sends'[m] = sends[m]
    <3>1. wk[w].m \in Msg /\ wk[w].m # m
      BY <2>1, <2>2, <2>3, RunsJob DEF Base, Send, At
    <3>2. QED
      BY <2>1, <2>3, <3>1, SendsMore DEF Base, TypeOK
  <2>4. CASE UNCHANGED sends
    BY <2>4
  <2>5. UNCHANGED sends \/ \E w \in Worker : Send(w)
    BY <2>1, SendOnly
  <2>6. QED
    BY <2>3, <2>4, <2>5
<1>4. QED
  <2>1. "lock_expiry" \notin Events
    OBVIOUS
  <2>2. Spec => []LockHeld
    BY <2>1, LockIsHeld
  <2> HIDE DEF Inv
  <2>3. QED
    BY <1>1, <1>2, <1>3, <2>2, OutboundBase, PTL DEF Spec, InOrder

\* A message that has several jobs is sent once, for any number of workers that
\* lose their jobs, as long as none stops between the provider and the commit,
\* no answer is lost, no lock expires and none is put back to pending.
THEOREM SentAtMostOnce ==
  ASSUME Events \intersect {"error", "crash", "lock_expiry", "repend"} = {}
  PROVE  Spec => []SentOnce
<1>1. Init => OnceInv
  BY InitBase
<1>2. Base /\ LockHeld /\ OnceInv /\ [Next]_vars => OnceInv'
  BY OnceStep DEF Base
<1>3. OnceInv => SentOnce
  BY DEF OnceInv, SentOnce
<1>4. "lock_expiry" \notin Events
  OBVIOUS
<1>5. Spec => []LockHeld
  BY <1>4, LockIsHeld
<1>6. QED
  BY <1>1, <1>2, <1>3, <1>5, OutboundBase, PTL DEF Spec

\* A pending message has a sender, a job or a worker, for any number of
\* requeues, thrown and lost jobs, as long as no process stops and a failed job
\* marks its message.
THEOREM NoneForgotten ==
  ASSUME Events \intersect {"crash", "api_crash", "mark_error", "repend"} = {}
  PROVE  Spec => []PendingCovered
<1>1. Init => CoverInv
  BY InitBase
<1>2. Base /\ CoverInv /\ [Next]_vars => CoverInv'
  BY CoverStep DEF Base
<1>3. Base /\ CoverInv => PendingCovered
  <2>1. SUFFICES ASSUME Base, CoverInv, NEW m \in Msg, status[m] = "pending", ~deleted[m]
                 PROVE  Covered(m)
    BY DEF PendingCovered
  <2> DEFINE f == FALSE
             t == TRUE
  <2>2. /\ f \in BOOLEAN /\ t \in BOOLEAN /\ \A b \in BOOLEAN : b = f \/ b = t
        /\ waiting[m][f] + waiting[m][t] + orphan[m][f] > 0 => Covered(m)
        /\ \/ m \in unqueued \/ (\E w \in Worker : wk[w].m = m)
           \/ (\E b \in BOOLEAN : waiting[m][b] > 0) \/ orphan[m][f] > 0
        /\ m \in unqueued \/ (\E w \in Worker : wk[w].m = m) => Covered(m)
    BY <2>1 DEF CoverInv, Covered
  <2> HIDE DEF f, t
  <2>3. waiting[m][f] \in Nat /\ waiting[m][t] \in Nat /\ orphan[m][f] \in Nat
    BY <2>1, <2>2, JobCounts DEF Base
  <2>4. CASE waiting[m][f] > 0 \/ waiting[m][t] > 0 \/ orphan[m][f] > 0
    BY <2>2, <2>3, <2>4
  <2>5. QED
    BY <2>2, <2>4
<1>4. QED
  BY <1>1, <1>2, <1>3, OutboundBase, PTL DEF Spec

-----------------------------------------------------------------------------
(* A message is not sent over and over: an account of what may still send it. *)

Bit(b) == IF b THEN 1 ELSE 0

\* The two kinds of jobs: handed out again or not.
No  == FALSE
Yes == TRUE

\* Workers that may still send a message or defer it.
Ready == {"read", "first", "wait", "second", "reload", "send", "requeue"}
Busy(m) == {w \in Worker : wk[w].m = m /\ wk[w].pc \in Ready}

\* The jobs of a message that may still get to a worker.
Jobs(m) == waiting[m][No] + waiting[m][Yes] + orphan[m][No]

\* Each of them sends the message once or makes one other; a message has one from its
\* sender, one from its replay and one for every stop or lost job.
Due(m)     == sends[m] + Bit(m \in unqueued) + Jobs(m) + Cardinality(Busy(m))
Allowed(m) == Bit(status[m] # "none") + Bit(m \in replayed) + faults

BoundInv == \A m \in Msg : IsFiniteSet(Busy(m)) /\ Due(m) <= Allowed(m)

LEMMA Flags == No \in BOOLEAN /\ Yes \in BOOLEAN /\ No # Yes /\ \A b \in BOOLEAN : b = No \/ b = Yes
BY DEF No, Yes

LEMMA BitType == \A b : Bit(b) \in {0, 1}
BY DEF Bit

\* What is counted is a number.
LEMMA CountTypes ==
  ASSUME Base
  PROVE  /\ \A m \in Msg : /\ sends[m] \in Nat /\ waiting[m][No] \in Nat /\ waiting[m][Yes] \in Nat
                           /\ orphan[m][No] \in Nat /\ Jobs(m) \in Nat
         /\ faults \in Nat
BY Flags, OutboundAssumption DEF Base, TypeOK, Jobs

LEMMA CountTypesNext ==
  ASSUME Base'
  PROVE  /\ \A m \in Msg : sends'[m] \in Nat /\ Jobs(m)' \in Nat
         /\ faults' \in Nat
BY Flags, OutboundAssumption DEF Base, TypeOK, Jobs

LEMMA BoundInit == Init => BoundInv
<1> SUFFICES ASSUME Init, NEW m \in Msg PROVE IsFiniteSet(Busy(m)) /\ Due(m) <= Allowed(m)
  BY DEF BoundInv
<1>1. \A w \in Worker : wk[w].pc \in {"idle", "down"}
  BY DEF Init, Idle, Down
<1>2. Busy(m) = {}
  BY <1>1 DEF Busy, Ready
<1>3. Jobs(m) = 0 /\ sends[m] = 0 /\ m \notin unqueued /\ status[m] = "none" /\ m \notin replayed
      /\ faults = 0
  BY Flags DEF Init, Jobs
<1>4. QED
  BY <1>2, <1>3, FS_EmptySet DEF Due, Allowed, Bit

\* One worker steps: the others are as busy as they were.
LEMMA BusyCount ==
  ASSUME NEW m \in Msg, IsFiniteSet(Busy(m)), NEW w \in Worker,
         \A v \in Worker : v # w => wk'[v].m = wk[v].m /\ wk'[v].pc = wk[v].pc
  PROVE  /\ IsFiniteSet(Busy(m)') /\ IsFiniteSet(Busy(m))
         /\ Cardinality(Busy(m)) \in Nat /\ Cardinality(Busy(m)') \in Nat
         /\ Cardinality(Busy(m)') + Bit(w \in Busy(m)) = Cardinality(Busy(m)) + Bit(w \in Busy(m)')
<1> DEFINE R == Busy(m) \ {w}
<1>1. R = Busy(m)' \ {w}
  BY DEF Busy
<1>2. IsFiniteSet(R) /\ Cardinality(R) \in Nat
  BY FS_Subset, FS_CardinalityType
<1>3. ASSUME NEW S, R = S \ {w}
      PROVE  IsFiniteSet(S) /\ Cardinality(S) = Cardinality(R) + Bit(w \in S)
  <2>1. CASE w \in S
    <3>1. S = R \union {w} /\ w \notin R
      BY <1>3, <2>1
    <3>2. QED
      BY <1>2, <2>1, <3>1, FS_AddElement DEF Bit
  <2>2. CASE w \notin S
    <3>1. S = R
      BY <1>3, <2>2
    <3>2. QED
      BY <1>2, <2>2, <3>1 DEF Bit
  <2>3. QED
    BY <2>1, <2>2
<1> HIDE DEF R
<1>4. IsFiniteSet(Busy(m)') /\ Cardinality(Busy(m)') = Cardinality(R) + Bit(w \in Busy(m)')
  BY <1>1, <1>3
<1>5. Cardinality(Busy(m)) = Cardinality(R) + Bit(w \in Busy(m))
  BY <1>3 DEF R
<1>6. QED
  BY <1>2, <1>4, <1>5, BitType

\* A step of a worker balances if what it adds is allowed.
LEMMA WorkerBalance ==
  ASSUME BoundInv, Base, Base', NEW w \in Worker,
         \A v \in Worker : v # w => wk'[v].m = wk[v].m /\ wk'[v].pc = wk[v].pc,
         \A k \in Msg :
           sends'[k] + Bit(k \in unqueued') + Jobs(k)' + Bit(w \in Busy(k)')
             + Bit(status[k] # "none") + Bit(k \in replayed) + faults
           <= sends[k] + Bit(k \in unqueued) + Jobs(k) + Bit(w \in Busy(k))
             + Bit(status'[k] # "none") + Bit(k \in replayed') + faults'
  PROVE  BoundInv'
<1> SUFFICES ASSUME NEW k \in Msg
             PROVE  IsFiniteSet(Busy(k)') /\ Due(k)' <= Allowed(k)'
  BY DEF BoundInv
<1>1. /\ IsFiniteSet(Busy(k)')
      /\ Cardinality(Busy(k)) \in Nat /\ Cardinality(Busy(k)') \in Nat
      /\ Cardinality(Busy(k)') + Bit(w \in Busy(k)) = Cardinality(Busy(k)) + Bit(w \in Busy(k)')
  BY BusyCount DEF BoundInv
<1>2. /\ sends[k] \in Nat /\ Jobs(k) \in Nat /\ faults \in Nat
      /\ sends'[k] \in Nat /\ Jobs(k)' \in Nat /\ faults' \in Nat
  BY CountTypes, CountTypesNext
<1>3. Due(k) <= Allowed(k)
  BY DEF BoundInv
<1>4. sends'[k] + Bit(k \in unqueued') + Jobs(k)' + Cardinality(Busy(k)')
        <= Bit(status'[k] # "none") + Bit(k \in replayed') + faults'
  BY <1>1, <1>2, <1>3, BitType DEF Due, Allowed
<1>5. QED
  BY <1>1, <1>4 DEF Due, Allowed

\* So does a step of another.
LEMMA RowsBalance ==
  ASSUME BoundInv, Base, Base', wk' = wk,
         \A k \in Msg :
           sends'[k] + Bit(k \in unqueued') + Jobs(k)'
             + Bit(status[k] # "none") + Bit(k \in replayed) + faults
           <= sends[k] + Bit(k \in unqueued) + Jobs(k)
             + Bit(status'[k] # "none") + Bit(k \in replayed') + faults'
  PROVE  BoundInv'
<1> SUFFICES ASSUME NEW k \in Msg
             PROVE  IsFiniteSet(Busy(k)') /\ Due(k)' <= Allowed(k)'
  BY DEF BoundInv
<1>1. Busy(k)' = Busy(k) /\ IsFiniteSet(Busy(k)) /\ Cardinality(Busy(k)) \in Nat
  BY FS_CardinalityType DEF BoundInv, Busy
<1>2. /\ sends[k] \in Nat /\ Jobs(k) \in Nat /\ faults \in Nat
      /\ sends'[k] \in Nat /\ Jobs(k)' \in Nat /\ faults' \in Nat
  BY CountTypes, CountTypesNext
<1>3. Due(k) <= Allowed(k)
  BY DEF BoundInv
<1>4. sends'[k] + Bit(k \in unqueued') + Jobs(k)' + Cardinality(Busy(k))
        <= Bit(status'[k] # "none") + Bit(k \in replayed') + faults'
  BY <1>1, <1>2, <1>3, BitType DEF Due, Allowed
<1>5. QED
  BY <1>1, <1>4 DEF Due, Allowed

\* How the steps change the jobs of a message.
LEMMA JobMore ==
  ASSUME Base, NEW m \in Msg, NEW b \in BOOLEAN,
         waiting' = [waiting EXCEPT ![m][b] = @ + 1], orphan' = orphan
  PROVE  \A k \in Msg : Jobs(k)' = Jobs(k) + Bit(k = m)
<1>1. \A k \in Msg, a \in BOOLEAN :
        waiting'[k][a] = IF k = m /\ a = b THEN waiting[k][a] + 1 ELSE waiting[k][a]
  BY WaitingMore DEF Base, TypeOK
<1>2. QED
  BY <1>1, Flags, CountTypes DEF Jobs, Bit

LEMMA JobRequeued ==
  ASSUME Base, NEW w \in Worker, wk[w].m \in Msg, Requeue(w)
  PROVE  \A k \in Msg : Jobs(k)' <= Jobs(k) + Bit(k = wk[w].m)
<1> DEFINE m == wk[w].m
<1>1. \/ waiting' = [waiting EXCEPT ![m][No] = @ + 1]
      \/ waiting' = waiting
  BY DEF Requeue, No
<1>2. orphan' = orphan
  BY DEF Requeue
<1>3. CASE waiting' = waiting
  BY <1>2, <1>3, CountTypes, BitType DEF Jobs
<1>4. CASE waiting' = [waiting EXCEPT ![m][No] = @ + 1]
  <2> HIDE DEF m
  <2>1. m \in Msg
    BY DEF m
  <2>2. PICK n \in Msg : n = m
    BY <2>1
  <2>3. \A k \in Msg : Jobs(k)' = Jobs(k) + Bit(k = n)
    BY <1>2, <1>4, <2>2, JobMore, Flags
  <2>4. QED
    BY <2>2, <2>3, CountTypes, BitType DEF m
<1>5. QED
  BY <1>1, <1>3, <1>4

LEMMA JobTaken ==
  ASSUME Base, NEW w \in Worker, NEW m \in Msg, NEW b \in BOOLEAN, Take(w, m, b)
  PROVE  \A k \in Msg : Jobs(k)' + Bit(k = m) = Jobs(k)
<1>1. \A k \in Msg, a \in BOOLEAN :
        waiting'[k][a] = IF k = m /\ a = b THEN waiting[k][a] - 1 ELSE waiting[k][a]
  BY WaitingLess DEF Base, TypeOK
<1>2. orphan' = orphan
  BY DEF Take
<1>3. QED
  BY <1>1, <1>2, Flags, CountTypes DEF Jobs, Bit

LEMMA JobDropped ==
  ASSUME Base, NEW w \in Worker, orphan' = Drop(w), waiting' = waiting
  PROVE  \A k \in Msg : Jobs(k)' <= Jobs(k) + 1
<1> DEFINE m == wk[w].m
           b == wk[w].again
<1>1. CASE orphan' = orphan
  BY <1>1, CountTypes DEF Jobs
<1>2. CASE wk[w].own /\ m \in Msg
  <2>1. b \in BOOLEAN
    BY DEF WorkerState, Base, TypeOK
  <2>2. orphan' = [orphan EXCEPT ![m][b] = @ + 1]
    BY <1>2 DEF Drop
  <2> HIDE DEF m, b
  <2>3. \A k \in Msg, a \in BOOLEAN :
          orphan'[k][a] = orphan[k][a] + 1 \/ orphan'[k][a] = orphan[k][a]
    BY <1>2, <2>1, <2>2 DEF Base, TypeOK
  <2>4. QED
    BY <2>3, Flags, CountTypes DEF Jobs
<1>3. QED
  <2>1. CASE wk[w].own /\ m \notin Msg
    <3>1. orphan' = orphan
      BY <2>1 DEF Drop, Base, TypeOK
    <3>2. QED
      BY <1>1, <3>1
  <2>2. CASE ~wk[w].own
    BY <1>1, <2>2 DEF Drop
  <2>3. QED
    BY <1>2, <2>1, <2>2

LEMMA JobStalled ==
  ASSUME Base, NEW m \in Msg, NEW b \in BOOLEAN, Stall(m, b)
  PROVE  \A k \in Msg : Jobs(k)' <= Jobs(k)
<1>1. \A k \in Msg, a \in BOOLEAN :
        orphan'[k][a] = IF k = m /\ a = b THEN orphan[k][a] - 1 ELSE orphan[k][a]
  BY OrphanLess DEF Base, TypeOK
<1>2. CASE b = No
  <2>1. waiting' = [waiting EXCEPT ![m][Yes] = @ + 1]
    BY <1>2 DEF Stall, No, Yes
  <2>2. \A k \in Msg, a \in BOOLEAN :
          waiting'[k][a] = IF k = m /\ a = Yes THEN waiting[k][a] + 1 ELSE waiting[k][a]
    BY <2>1, WaitingMore, Flags DEF Base, TypeOK
  <2>3. QED
    BY <1>1, <1>2, <2>2, Flags, CountTypes DEF Jobs
<1>3. CASE b = Yes
  <2>1. waiting' = waiting
    BY <1>3 DEF Stall, Yes
  <2>2. QED
    BY <1>1, <1>3, <2>1, Flags, CountTypes DEF Jobs
<1>4. QED
  BY <1>2, <1>3, Flags

LEMMA JobReplayed ==
  ASSUME Base, NEW w \in Worker, NEW n \in 0..NMsg, Boot(w, n)
  PROVE  \A k \in Msg : Jobs(k)' + Bit(k \in replayed) <= Jobs(k) + Bit(k \in replayed')
<1> DEFINE again == {m \in 1..n : status[m] = "pending" /\ ~deleted[m]} \ replayed
<1>1. /\ waiting' = [m \in Msg |-> IF m \in again THEN [waiting[m] EXCEPT ![No] = @ + 1]
                                   ELSE waiting[m]]
      /\ replayed' = replayed \union again /\ orphan' = orphan
  BY DEF Boot, No
<1>2. again \intersect replayed = {}
  OBVIOUS
<1> HIDE DEF again
<1> SUFFICES ASSUME NEW k \in Msg
             PROVE  Jobs(k)' + Bit(k \in replayed) <= Jobs(k) + Bit(k \in replayed')
  OBVIOUS
<1>3. CASE k \in again
  <2>1. waiting'[k] = [waiting[k] EXCEPT ![No] = @ + 1] /\ waiting[k] \in [BOOLEAN -> Nat]
    BY <1>1, <1>3 DEF Base, TypeOK
  <2>2. waiting'[k][No] = waiting[k][No] + 1 /\ waiting'[k][Yes] = waiting[k][Yes]
    BY <2>1, Flags
  <2>3. k \notin replayed /\ k \in replayed'
    BY <1>1, <1>2, <1>3
  <2>4. QED
    BY <1>1, <2>2, <2>3, CountTypes DEF Jobs, Bit
<1>4. CASE k \notin again
  <2>1. waiting'[k] = waiting[k] /\ (k \in replayed' <=> k \in replayed)
    BY <1>1, <1>4
  <2>2. QED
    BY <1>1, <2>1, CountTypes, BitType DEF Jobs, Bit
<1>5. QED
  BY <1>3, <1>4

\* A row that is created stays.
LEMMA RowsStay ==
  ASSUME TypeOK, WorkersOK, [Next]_vars, NEW m \in Msg, status[m] # "none"
  PROVE  status'[m] # "none"
<1> USE DEF TypeOK
<1>1. ASSUME NEW w \in Worker, Commit(w) \/ MarkFailed(w) PROVE status'[m] # "none"
  BY <1>1 DEF Commit, MarkFailed
<1>2. ASSUME NEW k \in Msg, SendMessage(k) PROVE status'[m] # "none"
  BY <1>2 DEF SendMessage
<1>3. ASSUME NEW k \in Msg, NEW s \in Reports, ApplyStatus(k, s) PROVE status'[m] # "none"
  BY <1>3 DEF ApplyStatus, Reports
<1>4. ASSUME NEW k \in Msg, NEW s \in Reports \union {"pending"}, UpdateMessageStatus(k, s)
      PROVE  status'[m] # "none"
  BY <1>4 DEF UpdateMessageStatus, Reports
<1>5. QED
  BY <1>1, <1>2, <1>3, <1>4, StatusOnly DEF vars, msgVars

\* A step of a worker that makes it no busier and changes nothing that is counted.
LEMMA QuietBalance ==
  ASSUME BoundInv, Base, Base', NEW w \in Worker, UNCHANGED <<unqueued, jobVars, sends, faults>>,
         \A v \in Worker : v # w => wk'[v].m = wk[v].m /\ wk'[v].pc = wk[v].pc,
         wk'[w].pc \in Ready => wk[w].pc \in Ready /\ wk'[w].m = wk[w].m,
         \A m \in Msg : status[m] # "none" => status'[m] # "none"
  PROVE  BoundInv'
<1>1. ASSUME NEW k \in Msg
      PROVE  sends'[k] + Bit(k \in unqueued') + Jobs(k)' + Bit(w \in Busy(k)')
               + Bit(status[k] # "none") + Bit(k \in replayed) + faults
             <= sends[k] + Bit(k \in unqueued) + Jobs(k) + Bit(w \in Busy(k))
               + Bit(status'[k] # "none") + Bit(k \in replayed') + faults'
  <2>1. w \in Busy(k)' => w \in Busy(k)
    BY DEF Busy
  <2>2. Bit(w \in Busy(k)') <= Bit(w \in Busy(k)) /\ Bit(status[k] # "none") <= Bit(status'[k] # "none")
    BY <2>1 DEF Bit
  <2>3. sends' = sends /\ unqueued' = unqueued /\ replayed' = replayed /\ faults' = faults
        /\ Jobs(k)' = Jobs(k)
    BY DEF jobVars, Jobs
  <2>4. QED
    BY <2>2, <2>3, CountTypes, BitType
<1>2. QED
  BY <1>1, WorkerBalance

\* Every step keeps the account.
LEMMA BoundStep ==
  ASSUME BoundInv, Base, Base', [Next]_vars
  PROVE  BoundInv'
<1> DEFINE Balanced(k, old, new) ==
      sends'[k] + Bit(k \in unqueued') + Jobs(k)' + new
        + Bit(status[k] # "none") + Bit(k \in replayed) + faults
      <= sends[k] + Bit(k \in unqueued) + Jobs(k) + old
        + Bit(status'[k] # "none") + Bit(k \in replayed') + faults'
<1>t. /\ wk \in [Worker -> WorkerState] /\ TypeOK /\ WorkersOK
      /\ \A m \in Msg : status[m] # "none" => status'[m] # "none"
  BY RowsStay DEF Base, TypeOK
<1>s. \A k \in Msg : Bit(status[k] # "none") <= Bit(status'[k] # "none")
  BY <1>t DEF Bit
<1>1. ASSUME NEW w \in Worker, ReadMessage(w) PROVE BoundInv'
  <2>1. /\ UNCHANGED <<unqueued, jobVars, sends, faults>>
        /\ \A v \in Worker : v # w => wk'[v].m = wk[v].m /\ wk'[v].pc = wk[v].pc
        /\ wk'[w].pc \in Ready => wk[w].pc \in Ready /\ wk'[w].m = wk[w].m
    BY <1>t, <1>1, GotoEffect DEF ReadMessage, At, PC, msgVars, jobVars, Ready
  <2>2. QED
    BY <1>t, <2>1, QuietBalance
<1>2. ASSUME NEW w \in Worker, FirstCheck(w) PROVE BoundInv'
  <2>1. /\ UNCHANGED <<unqueued, jobVars, sends, faults>>
        /\ \A v \in Worker : v # w => wk'[v].m = wk[v].m /\ wk'[v].pc = wk[v].pc
        /\ wk'[w].pc \in Ready => wk[w].pc \in Ready /\ wk'[w].m = wk[w].m
    BY <1>t, <1>2, GotoEffect DEF FirstCheck, At, PC, msgVars, jobVars, Ready
  <2>2. QED
    BY <1>t, <2>1, QuietBalance
<1>3. ASSUME NEW w \in Worker, Acquire(w) PROVE BoundInv'
  <2>1. /\ UNCHANGED <<unqueued, jobVars, sends, faults>>
        /\ \A v \in Worker : v # w => wk'[v].m = wk[v].m /\ wk'[v].pc = wk[v].pc
        /\ wk'[w].pc \in Ready => wk[w].pc \in Ready /\ wk'[w].m = wk[w].m
    BY <1>t, <1>3, AcquireEffect DEF Acquire, At, msgVars, jobVars, Ready
  <2>2. QED
    BY <1>t, <2>1, QuietBalance
<1>4. ASSUME NEW w \in Worker, GiveUp(w) PROVE BoundInv'
  <2>1. /\ UNCHANGED <<unqueued, jobVars, sends, faults>>
        /\ \A v \in Worker : v # w => wk'[v].m = wk[v].m /\ wk'[v].pc = wk[v].pc
        /\ wk'[w].pc \in Ready => wk[w].pc \in Ready /\ wk'[w].m = wk[w].m
    BY <1>t, <1>4, GotoEffect DEF GiveUp, At, PC, msgVars, jobVars, Ready
  <2>2. QED
    BY <1>t, <2>1, QuietBalance
<1>5. ASSUME NEW w \in Worker, SecondCheck(w) PROVE BoundInv'
  <2>1. /\ UNCHANGED <<unqueued, jobVars, sends, faults>>
        /\ \A v \in Worker : v # w => wk'[v].m = wk[v].m /\ wk'[v].pc = wk[v].pc
        /\ wk'[w].pc \in Ready => wk[w].pc \in Ready /\ wk'[w].m = wk[w].m
    BY <1>t, <1>5, GotoEffect DEF SecondCheck, At, PC, msgVars, jobVars, Ready
  <2>2. QED
    BY <1>t, <2>1, QuietBalance
<1>6. ASSUME NEW w \in Worker, Reload(w) PROVE BoundInv'
  <2>1. /\ UNCHANGED <<unqueued, jobVars, sends, faults>>
        /\ \A v \in Worker : v # w => wk'[v].m = wk[v].m /\ wk'[v].pc = wk[v].pc
        /\ wk'[w].pc \in Ready => wk[w].pc \in Ready /\ wk'[w].m = wk[w].m
    BY <1>t, <1>6, GotoEffect DEF Reload, At, PC, msgVars, jobVars, Ready
  <2>2. QED
    BY <1>t, <2>1, QuietBalance
<1>7. ASSUME NEW w \in Worker, Commit(w) PROVE BoundInv'
  <2>1. /\ UNCHANGED <<unqueued, jobVars, sends, faults>>
        /\ \A v \in Worker : v # w => wk'[v].m = wk[v].m /\ wk'[v].pc = wk[v].pc
        /\ wk'[w].pc \in Ready => wk[w].pc \in Ready /\ wk'[w].m = wk[w].m
    BY <1>t, <1>7, GotoEffect DEF Commit, At, PC, msgVars, jobVars, Ready
  <2>2. QED
    BY <1>t, <2>1, QuietBalance
<1>8. ASSUME NEW w \in Worker, Release(w) PROVE BoundInv'
  <2>1. /\ UNCHANGED <<unqueued, jobVars, sends, faults>>
        /\ \A v \in Worker : v # w => wk'[v].m = wk[v].m /\ wk'[v].pc = wk[v].pc
        /\ wk'[w].pc \in Ready => wk[w].pc \in Ready /\ wk'[w].m = wk[w].m
    BY <1>t, <1>8, ReleaseEffect DEF Release, At, msgVars, jobVars, Ready
  <2>2. QED
    BY <1>t, <2>1, QuietBalance
<1>9. ASSUME NEW w \in Worker, Throw(w) PROVE BoundInv'
  <2>1. /\ UNCHANGED <<unqueued, jobVars, sends, faults>>
        /\ \A v \in Worker : v # w => wk'[v].m = wk[v].m /\ wk'[v].pc = wk[v].pc
        /\ wk'[w].pc \in Ready => wk[w].pc \in Ready /\ wk'[w].m = wk[w].m
    BY <1>t, <1>9, GotoEffect DEF Throw, At, PC, msgVars, jobVars, Ready
  <2>2. QED
    BY <1>t, <2>1, QuietBalance
<1>10. ASSUME NEW w \in Worker, Unwind(w) PROVE BoundInv'
  <2>1. /\ UNCHANGED <<unqueued, jobVars, sends, faults>>
        /\ \A v \in Worker : v # w => wk'[v].m = wk[v].m /\ wk'[v].pc = wk[v].pc
        /\ wk'[w].pc \in Ready => wk[w].pc \in Ready /\ wk'[w].m = wk[w].m
    BY <1>t, <1>10, UnwindEffect DEF Unwind, At, msgVars, jobVars, Ready
  <2>2. QED
    BY <1>t, <2>1, QuietBalance
<1>11. ASSUME NEW w \in Worker, MarkFailed(w) PROVE BoundInv'
  <2>1. /\ UNCHANGED <<unqueued, jobVars, sends, faults>>
        /\ \A v \in Worker : v # w => wk'[v].m = wk[v].m /\ wk'[v].pc = wk[v].pc
        /\ wk'[w].pc \in Ready => wk[w].pc \in Ready /\ wk'[w].m = wk[w].m
    BY <1>t, <1>11, ReleaseEffect DEF MarkFailed, At, msgVars, jobVars, Ready
  <2>2. QED
    BY <1>t, <2>1, QuietBalance
<1>12. ASSUME NEW w \in Worker, Send(w) PROVE BoundInv'
  <2>1. wk[w].m \in Msg /\ wk[w].pc = "send" /\ sends \in [Msg -> Nat]
    BY <1>t, <1>12, RunsJob DEF Send, At, TypeOK
  <2>2. PICK m \in Msg : m = wk[w].m
    BY <2>1
  <2>3. /\ \A k \in Msg : sends'[k] = IF k = m THEN sends[k] + 1 ELSE sends[k]
        /\ UNCHANGED <<msgVars, jobVars, faults>>
    BY <1>12, <2>1, <2>2, SendsMore DEF Send
  <2>4. /\ \A v \in Worker : v # w => wk'[v].m = wk[v].m /\ wk'[v].pc = wk[v].pc
        /\ wk'[w].pc \notin Ready
    BY <1>t, <1>12, GotoEffect DEF Send, PC, Ready
  <2>5. ASSUME NEW k \in Msg PROVE Balanced(k, Bit(w \in Busy(k)), Bit(w \in Busy(k)'))
    <3>1. Bit(w \in Busy(k)') = 0 /\ Bit(w \in Busy(k)) = Bit(k = m)
      BY <2>1, <2>2, <2>4 DEF Busy, Ready, Bit
    <3>2. sends'[k] = sends[k] + Bit(k = m)
      BY <2>3, CountTypes DEF Bit
    <3>3. Jobs(k)' = Jobs(k) /\ unqueued' = unqueued
          /\ status' = status /\ replayed' = replayed /\ faults' = faults
      BY <2>3 DEF msgVars, jobVars, Jobs
    <3>4. QED
      BY <3>1, <3>2, <3>3, CountTypes, BitType
  <2>6. QED
    BY <2>4, <2>5, WorkerBalance
<1>13. ASSUME NEW w \in Worker, Requeue(w) PROVE BoundInv'
  <2>1. wk[w].m \in Msg /\ wk[w].pc = "requeue"
    BY <1>t, <1>13, RunsJob DEF Requeue, At
  <2>2. PICK m \in Msg : m = wk[w].m
    BY <2>1
  <2>3. \A k \in Msg : Jobs(k)' <= Jobs(k) + Bit(k = m)
    BY <1>13, <2>1, <2>2, JobRequeued
  <2>4. /\ \A v \in Worker : v # w => wk'[v].m = wk[v].m /\ wk'[v].pc = wk[v].pc
        /\ wk'[w].pc \notin Ready
    BY <1>t, <1>13, GotoEffect DEF Requeue, PC, Ready
  <2>5. ASSUME NEW k \in Msg PROVE Balanced(k, Bit(w \in Busy(k)), Bit(w \in Busy(k)'))
    <3>1. Bit(w \in Busy(k)') = 0 /\ Bit(w \in Busy(k)) = Bit(k = m)
      BY <2>1, <2>2, <2>4 DEF Busy, Ready, Bit
    <3>2. sends' = sends /\ unqueued' = unqueued
          /\ status' = status /\ replayed' = replayed /\ faults' = faults
      BY <1>13 DEF Requeue, msgVars
    <3>3. QED
      BY <2>3, <3>1, <3>2, CountTypes, CountTypesNext, BitType
  <2>6. QED
    BY <2>4, <2>5, WorkerBalance
<1>14. ASSUME NEW w \in Worker, NEW m \in Msg, NEW b \in BOOLEAN, Take(w, m, b) PROVE BoundInv'
  <2>1. \A k \in Msg : Jobs(k)' + Bit(k = m) = Jobs(k)
    BY <1>14, JobTaken
  <2>2. /\ \A v \in Worker : v # w => wk'[v].m = wk[v].m /\ wk'[v].pc = wk[v].pc
        /\ wk'[w].m = m /\ wk[w].pc = "idle"
    BY <1>t, <1>14, TakeEffect DEF Take, At
  <2>3. ASSUME NEW k \in Msg PROVE Balanced(k, Bit(w \in Busy(k)), Bit(w \in Busy(k)'))
    <3>1. Bit(w \in Busy(k)') <= Bit(k = m) /\ Bit(w \in Busy(k)) = 0
      BY <2>2 DEF Busy, Ready, Bit
    <3>2. sends' = sends /\ unqueued' = unqueued
          /\ status' = status /\ replayed' = replayed /\ faults' = faults
      BY <1>14 DEF Take, msgVars
    <3>3. QED
      BY <2>1, <3>1, <3>2, CountTypes, CountTypesNext, BitType
  <2>4. QED
    BY <2>2, <2>3, WorkerBalance
<1>15. ASSUME NEW w \in Worker, Crash(w) \/ LoseJob(w) PROVE BoundInv'
  <2>1. \A k \in Msg : Jobs(k)' <= Jobs(k) + 1
    BY <1>15, JobDropped DEF Crash, LoseJob
  <2>2. \A v \in Worker : v # w => wk'[v].m = wk[v].m /\ wk'[v].pc = wk[v].pc
    BY <1>t, <1>15, ReleaseEffect, LoseJobEffect
  <2>3. wk'[w].pc \in Ready => wk'[w].pc = wk[w].pc /\ wk'[w].m = wk[w].m
    BY <1>t, <1>15, ReleaseEffect, LoseJobEffect DEF Ready
  <2>4. ASSUME NEW k \in Msg PROVE Balanced(k, Bit(w \in Busy(k)), Bit(w \in Busy(k)'))
    <3>1. Bit(w \in Busy(k)') <= Bit(w \in Busy(k))
      BY <2>3 DEF Busy, Bit
    <3>2. sends' = sends /\ unqueued' = unqueued
          /\ status' = status /\ replayed' = replayed /\ faults' = faults + 1
      BY <1>15 DEF Crash, LoseJob, msgVars
    <3>3. QED
      BY <2>1, <3>1, <3>2, CountTypes, CountTypesNext, BitType
  <2>5. QED
    BY <2>2, <2>4, WorkerBalance
<1>16. ASSUME NEW w \in Worker, NEW n \in 0..NMsg, Boot(w, n) PROVE BoundInv'
  <2>1. \A k \in Msg : Jobs(k)' + Bit(k \in replayed) <= Jobs(k) + Bit(k \in replayed')
    BY <1>16, JobReplayed
  <2>2. /\ \A v \in Worker : v # w => wk'[v].m = wk[v].m /\ wk'[v].pc = wk[v].pc
        /\ wk'[w].pc \notin Ready
    BY <1>t, <1>16, ReleaseEffect DEF Ready
  <2>3. ASSUME NEW k \in Msg PROVE Balanced(k, Bit(w \in Busy(k)), Bit(w \in Busy(k)'))
    <3>1. Bit(w \in Busy(k)') = 0
      BY <2>2 DEF Busy, Bit
    <3>2. sends' = sends /\ unqueued' = unqueued /\ status' = status /\ faults' = faults
      BY <1>16 DEF Boot, msgVars
    <3>3. QED
      BY <2>1, <3>1, <3>2, CountTypes, CountTypesNext, BitType
  <2>4. QED
    BY <2>2, <2>3, WorkerBalance
<1>17. ASSUME wk' = wk, \A k \in Msg : Balanced(k, 0, 0) PROVE BoundInv'
  <2>1. ASSUME NEW k \in Msg
        PROVE  sends'[k] + Bit(k \in unqueued') + Jobs(k)'
                 + Bit(status[k] # "none") + Bit(k \in replayed) + faults
               <= sends[k] + Bit(k \in unqueued) + Jobs(k)
                 + Bit(status'[k] # "none") + Bit(k \in replayed') + faults'
    BY <1>17, CountTypes, CountTypesNext, BitType
  <2>2. QED
    BY <1>17, <2>1, RowsBalance
<1>18. ASSUME NEW m \in Msg, SendMessage(m) PROVE BoundInv'
  <2>1. ASSUME NEW k \in Msg PROVE Balanced(k, 0, 0)
    <3>1. Bit(k \in unqueued') + Bit(status[k] # "none") <= Bit(k \in unqueued) + Bit(status'[k] # "none")
      BY <1>18 DEF SendMessage, Bit, Base, TypeOK
    <3>2. sends' = sends /\ Jobs(k)' = Jobs(k) /\ replayed' = replayed /\ faults' = faults
      BY <1>18 DEF SendMessage, jobVars, Jobs
    <3>3. QED
      BY <3>1, <3>2, CountTypes, BitType
  <2>2. QED
    BY <1>17, <1>18, <2>1 DEF SendMessage
<1>19. ASSUME NEW m \in Msg, Enqueue(m) PROVE BoundInv'
  <2>1. \A k \in Msg : Jobs(k)' = Jobs(k) + Bit(k = m)
    <3>1. waiting' = [waiting EXCEPT ![m][No] = @ + 1] /\ orphan' = orphan
      BY <1>19 DEF Enqueue, No
    <3>2. QED
      BY <3>1, JobMore, Flags
  <2>2. ASSUME NEW k \in Msg PROVE Balanced(k, 0, 0)
    <3>1. Bit(k \in unqueued') + Bit(k = m) = Bit(k \in unqueued)
      BY <1>19 DEF Enqueue, Bit
    <3>2. sends' = sends /\ status' = status /\ replayed' = replayed /\ faults' = faults
      BY <1>19 DEF Enqueue
    <3>3. QED
      BY <2>1, <3>1, <3>2, CountTypes, BitType
  <2>3. QED
    BY <1>17, <1>19, <2>2 DEF Enqueue
<1>20. ASSUME NEW m \in Msg, NEW b \in BOOLEAN, Stall(m, b) PROVE BoundInv'
  <2>1. ASSUME NEW k \in Msg PROVE Balanced(k, 0, 0)
    <3>1. Jobs(k)' <= Jobs(k)
      BY <1>20, JobStalled
    <3>2. sends' = sends /\ unqueued' = unqueued /\ status' = status
          /\ replayed' = replayed /\ faults' = faults
      BY <1>20 DEF Stall, msgVars
    <3>3. QED
      BY <3>1, <3>2, CountTypes, CountTypesNext, BitType
  <2>2. QED
    BY <1>17, <1>20, <2>1 DEF Stall
\* The other steps send nothing, and add no job and no message to enqueue.
<1>21. ASSUME UNCHANGED <<jobVars, wk, sends, faults>>, unqueued' \subseteq unqueued PROVE BoundInv'
  <2>1. ASSUME NEW k \in Msg PROVE Balanced(k, 0, 0)
    <3>1. Bit(k \in unqueued') <= Bit(k \in unqueued)
      BY <1>21 DEF Bit
    <3>2. sends' = sends /\ Jobs(k)' = Jobs(k) /\ replayed' = replayed /\ faults' = faults
      BY <1>21 DEF jobVars, Jobs
    <3>3. QED
      BY <1>s, <3>1, <3>2, CountTypes, BitType
  <2>2. QED
    BY <1>17, <1>21, <2>1
<1>22. ASSUME NEW m \in Msg,
              \/ SenderFails(m) \/ DeleteMessage(m)
              \/ \E s \in Reports \union {"pending"} : ApplyStatus(m, s) \/ UpdateMessageStatus(m, s)
       PROVE  BoundInv'
  BY <1>21, <1>22 DEF SenderFails, DeleteMessage, ApplyStatus, UpdateMessageStatus
<1>23. ASSUME (\E c \in Conv : Expire(c)) \/ Age \/ UNCHANGED vars PROVE BoundInv'
  BY <1>21, <1>23 DEF Expire, Age, vars, msgVars
<1>24. ASSUME NEW w \in Worker, Step(w) PROVE BoundInv'
  BY <1>1, <1>2, <1>3, <1>4, <1>5, <1>6, <1>7, <1>8, <1>10, <1>11, <1>12, <1>13, <1>24 DEF Step
<1>25. QED
  BY <1>9, <1>14, <1>15, <1>16, <1>18, <1>19, <1>20, <1>22, <1>23, <1>24 DEF Next

\* Whatever stops or fails, whatever statuses arrive and however often a job is
\* deferred, handed out again or replayed, a message is sent at most once for its
\* first job, once for its replay and once for every stop or lost job.
THEOREM SendsAreBounded == Spec => []SendsBounded
<1>1. Init => BoundInv
  BY BoundInit
<1>2. Base /\ Base' /\ BoundInv /\ [Next]_vars => BoundInv'
  BY BoundStep
<1>3. Base /\ BoundInv => SendsBounded
  <2> SUFFICES ASSUME Base, BoundInv, NEW m \in Msg
               PROVE  sends[m] <= 1 + Cardinality({m} \intersect replayed) + faults
    BY DEF SendsBounded
  <2>1. Cardinality(Busy(m)) \in Nat /\ Due(m) <= Allowed(m)
    BY FS_CardinalityType DEF BoundInv
  <2>2. Cardinality({m} \intersect replayed) = Bit(m \in replayed)
    <3>1. CASE m \in replayed
      <4>1. {m} \intersect replayed = {m}
        BY <3>1
      <4>2. QED
        BY <3>1, <4>1, FS_Singleton DEF Bit
    <3>2. CASE m \notin replayed
      <4>1. {m} \intersect replayed = {}
        BY <3>2
      <4>2. QED
        BY <3>2, <4>1, FS_EmptySet DEF Bit
    <3>3. QED
      BY <3>1, <3>2
  <2>3. QED
    BY <2>1, <2>2, CountTypes, BitType DEF Due, Allowed
<1>4. QED
  BY <1>1, <1>2, <1>3, OutboundBase, PTL DEF Spec

=============================================================================
