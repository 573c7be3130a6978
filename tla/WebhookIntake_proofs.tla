------------------------ MODULE WebhookIntake_proofs ------------------------
(***************************************************************************)
(* Theorems about WebhookIntake, for any number of events, messages,       *)
(* handlers and runs of the retry, batches of any length, and any faults.  *)
(***************************************************************************)
EXTENDS WebhookIntake, TLAPS

HandlerState == [pc : Steps, job : JobId \union {NoJob}, at : Nat \ {0},
                 conv : Conv \union {None}, taken : Nat, errors : Nat, thrown : BOOLEAN]

\* A handler at work is at a message of its job's event.
InBatch(r) == r.job \in JobId /\ r.at <= Len(Batch[r.job[1]])
AtWork == \A h \in Handler : hd[h].pc # "idle" => InBatch(hd[h])

Base == TypeOK /\ AtWork

\* Who is about to create a row has the lock of its message, and there is no
\* row.
Locked ==
  \A g, h \in Handler : g # h /\ hd[g].pc = "insert" /\ hd[h].pc = "insert" => MsgAt(g) # MsgAt(h)
NoRow == \A h \in Handler : hd[h].pc = "insert" => live[MsgAt(h)] = 0
OnceInv == Base /\ Locked /\ NoRow /\ StoredOnce

\* A claimed failure is over: the event is not failed, or has failed again.
ClaimOver ==
  \A l \in Loop : claimed[l] # NoClaim =>
    \/ retries[claimed[l][1]] > claimed[l][2]
    \/ retries[claimed[l][1]] = claimed[l][2] /\ status[claimed[l][1]] # "failed"
ClaimInv == Base /\ ClaimOver /\ ClaimedOnce

-----------------------------------------------------------------------------
(* What the updates of the model do, field by field. *)

LEMMA JobEvent ==
  /\ \A j \in JobId : j[1] \in Event
  /\ \A e \in Event : First(e) \in JobId /\ Replayed(e) \in JobId
BY DEF JobId, First, Replayed, Retried

LEMMA AddTyped ==
  ASSUME job \in [JobId -> JobState], NEW j, Add(j)
  PROVE  job' \in [JobId -> JobState]
BY DEF Add, JobState

LEMMA EndedTyped ==
  ASSUME TypeOK, NEW j \in JobId, NEW threw \in BOOLEAN, Ended(j, threw)
  PROVE  job' \in [JobId -> JobState] /\ tries' \in [JobId -> Nat]
<1>1. tries' \in [JobId -> Nat]
  <2>1. CASE threw
    <3>1. tries' = [tries EXCEPT ![j] = tries[j] + 1]
      BY <2>1 DEF Ended
    <3>2. QED
      BY <3>1 DEF TypeOK
  <2>2. CASE ~threw
    BY <2>2 DEF TypeOK, Ended
  <2>3. QED
    BY <2>1, <2>2
<1>2. job' \in [JobId -> JobState]
  BY DEF TypeOK, Ended, JobState
<1>3. QED
  BY <1>1, <1>2

\* Which message a handler is at.
LEMMA MessageTyped ==
  ASSUME Base, NEW h \in Handler, hd[h].pc # "idle"
  PROVE  EventAt(h) \in Event /\ MsgAt(h) \in Msg /\ Sender(h) \in Contact
<1>1. EventAt(h) \in Event
  BY JobEvent DEF Base, AtWork, InBatch, EventAt
<1>2. Batch[EventAt(h)] \in Seq(Msg) /\ hd[h].at \in Nat \ {0} /\ hd[h].at <= Len(Batch[EventAt(h)])
  BY <1>1, IntakeAssumption DEF Base, TypeOK, AtWork, InBatch, EventAt
<1>3. MsgAt(h) \in Msg
  BY <1>2 DEF MsgAt
<1>4. QED
  BY <1>1, <1>3, IntakeAssumption DEF Sender

LEMMA IdleTyped == IdleHandler \in HandlerState /\ IdleHandler.pc = "idle"
BY DEF IdleHandler, HandlerState, Steps

LEMMA AfterEffect ==
  ASSUME Base, NEW h \in Handler, hd[h].pc # "idle", NEW ok \in BOOLEAN
  PROVE  /\ After(h, ok) \in HandlerState /\ InBatch(After(h, ok))
         /\ After(h, ok).pc \in {"settle", "contact"}
<1> DEFINE r == After(h, ok)
           last == hd[h].at = Len(Batch[EventAt(h)])
<1>1. hd[h] \in HandlerState /\ InBatch(hd[h])
  BY DEF Base, TypeOK, AtWork, HandlerState
<1>2. Len(Batch[EventAt(h)]) \in Nat
  BY MessageTyped, IntakeAssumption
<1>3. /\ r.pc \in {"settle", "contact"} /\ r.job = hd[h].job
      /\ r.at = IF last THEN hd[h].at ELSE hd[h].at + 1
  BY <1>1 DEF After, HandlerState
<1>4. r \in HandlerState
  <2> DEFINE p == IF last THEN "settle" ELSE "contact"
             a == IF last THEN hd[h].at ELSE hd[h].at + 1
             t == IF ok THEN hd[h].taken + 1 ELSE hd[h].taken
             n == IF ok THEN hd[h].errors ELSE hd[h].errors + 1
  <2>1. p \in Steps /\ a \in Nat \ {0} /\ t \in Nat /\ n \in Nat
    BY <1>1 DEF HandlerState, Steps
  <2>2. r = [hd[h] EXCEPT !.pc = p, !.at = a, !.conv = None, !.taken = t, !.errors = n]
    BY DEF After
  <2> HIDE DEF p, a, t, n, r
  <2>3. QED
    BY <1>1, <2>1, <2>2 DEF HandlerState
<1>5. r.at <= Len(Batch[EventAt(h)])
  BY <1>1, <1>2, <1>3 DEF HandlerState, InBatch, EventAt
<1>6. QED
  BY <1>1, <1>3, <1>4, <1>5 DEF InBatch, EventAt

\* One handler moves on.
LEMMA OneMoves ==
  ASSUME Base, NEW h \in Handler, NEW r \in HandlerState, r.pc # "idle" => InBatch(r),
         hd' = [hd EXCEPT ![h] = r]
  PROVE  hd' \in [Handler -> HandlerState] /\ AtWork'
<1>1. hd' \in [Handler -> HandlerState]
  BY DEF Base, TypeOK, HandlerState
<1>2. \A g \in Handler : hd'[g] = IF g = h THEN r ELSE hd[g]
  BY DEF Base, TypeOK
<1>3. QED
  BY <1>1, <1>2 DEF Base, AtWork, InBatch

\* A handler goes to another step of its message.
LEMMA Steps1 ==
  ASSUME Base, NEW h \in Handler, hd[h].pc # "idle", NEW p \in Steps, NEW t \in BOOLEAN,
         NEW k \in Conv \union {None}
  PROVE  /\ [hd[h] EXCEPT !.pc = p] \in HandlerState /\ InBatch([hd[h] EXCEPT !.pc = p])
         /\ [hd[h] EXCEPT !.pc = p, !.thrown = t] \in HandlerState
         /\ InBatch([hd[h] EXCEPT !.pc = p, !.thrown = t])
         /\ [hd[h] EXCEPT !.pc = p, !.conv = k] \in HandlerState
         /\ InBatch([hd[h] EXCEPT !.pc = p, !.conv = k])
BY DEF Base, TypeOK, AtWork, HandlerState, InBatch

LEMMA GoesToConv ==
  ASSUME Base, NEW h \in Handler, hd[h].pc # "idle", NEW k \in Conv,
         hd' = [hd EXCEPT ![h].pc = "lock", ![h].conv = k]
  PROVE  hd' \in [Handler -> HandlerState] /\ AtWork'
<1>1. hd' = [hd EXCEPT ![h] = [hd[h] EXCEPT !.pc = "lock", !.conv = k]]
  BY DEF Base, TypeOK
<1>2. QED
  BY <1>1, Steps1, OneMoves, "lock" \in Steps DEF Steps

-----------------------------------------------------------------------------
(* Types, with the handlers in their batches. *)

LEMMA TypeInit == Init => Base
<1>1. ASSUME Init PROVE TypeOK
  BY <1>1, IdleTyped, IntakeAssumption
     DEF Init, TypeOK, EventStatus, JobState, ConvState, HandlerState, NoClaim
<1>2. ASSUME Init PROVE AtWork
  BY <1>2 DEF Init, AtWork, IdleHandler
<1>3. QED
  BY <1>1, <1>2 DEF Base

LEMMA HandlersStep ==
  ASSUME Base, NEW h \in Handler, Handle(h) \/ HandlerFails(h)
  PROVE  hd' \in [Handler -> HandlerState] /\ AtWork'
<1> USE DEF Steps
<1>1. ASSUME NEW j \in JobId, Take(h, j)
      PROVE  hd' \in [Handler -> HandlerState] /\ AtWork'
  <2> DEFINE r == [IdleHandler EXCEPT !.pc = "lookup", !.job = j]
  <2>1. r \in HandlerState /\ r.job = j /\ r.at = 1
    BY IdleTyped DEF IdleHandler, HandlerState
  <2>2. 1 <= Len(Batch[j[1]])
    BY JobEvent, IntakeAssumption
  <2>3. InBatch(r)
    BY <2>1, <2>2 DEF InBatch
  <2>4. QED
    BY <1>1, <2>1, <2>3, OneMoves DEF Take
<1>2. CASE Lookup(h)
  <2> DEFINE p == IF EventAt(h) \in Known THEN "contact" ELSE "settle"
  <2>1. QED
    BY <1>2, Steps1, OneMoves, "contact" \in Steps, "settle" \in Steps DEF Lookup
<1>3. CASE LookupFails(h)
  <2>1. hd' = [hd EXCEPT ![h] = [hd[h] EXCEPT !.pc = "settle", !.thrown = TRUE]]
    BY <1>3 DEF LookupFails, Base, TypeOK
  <2>2. QED
    BY <1>3, <2>1, Steps1, OneMoves DEF LookupFails
<1>4. CASE MessageFails(h)
  BY <1>4, AfterEffect, OneMoves DEF MessageFails
<1>5. CASE FindContact(h)
  BY <1>5, Steps1, OneMoves DEF FindContact
<1>6. CASE CreateContact(h)
  BY <1>6, Steps1, AfterEffect, OneMoves DEF CreateContact
<1>7. CASE FindConversation(h)
  <2>1. CASE OpenOf(Sender(h)) = {}
    BY <1>7, <2>1, Steps1, OneMoves DEF FindConversation
  <2>2. CASE OpenOf(Sender(h)) # {}
    <3>1. PICK k \in Conv : hd' = [hd EXCEPT ![h].pc = "lock", ![h].conv = k]
      BY <1>7, <2>2 DEF FindConversation, OpenOf
    <3>2. QED
      BY <1>7, <3>1, GoesToConv DEF FindConversation
  <2>3. QED
    BY <2>1, <2>2
<1>8. CASE CreateConversation(h)
  BY <1>8, GoesToConv DEF CreateConversation
<1>9. CASE LockAndLook(h)
  BY <1>9, Steps1, AfterEffect, OneMoves DEF LockAndLook
<1>10. CASE Insert(h)
  BY <1>10, AfterEffect, OneMoves DEF Insert
<1>11. CASE Settle(h) \/ SettleFails(h)
  BY <1>11, IdleTyped, OneMoves DEF Settle, SettleFails
<1>12. QED
  BY <1>1, <1>2, <1>3, <1>4, <1>5, <1>6, <1>7, <1>8, <1>9, <1>10, <1>11
     DEF Handle, HandlerFails

LEMMA AddsTyped ==
  ASSUME job \in [JobId -> JobState],
         \/ \E e \in Event : Enqueue(e) \/ ReplayPending(e)
         \/ \E l \in Loop : RetryAdd(l)
  PROVE  job' \in [JobId -> JobState]
BY AddTyped DEF Enqueue, ReplayPending, RetryAdd

LEMMA HandlerTypes ==
  ASSUME Base, NEW h \in Handler, Handle(h) \/ HandlerFails(h)
  PROVE  TypeOK'
<1>1. hd' \in [Handler -> HandlerState]
  BY HandlersStep
<1>2. UNCHANGED <<unqueued, stalled, loopVars, up>> /\ (faults' = faults \/ \E f \in Faults : faults' = faults \union {f})
  BY DEF Handle, HandlerFails, Take, Lookup, LookupFails, MessageFails, FindContact, CreateContact,
         FindConversation, CreateConversation, LockAndLook, Insert, Settle, SettleFails,
         Fault, evVars, jobVars, dataVars, loopVars
<1>3. status' \in [Event -> EventStatus] /\ retries' \in [Event -> Nat]
  <2>1. CASE Settle(h)
    BY <2>1, MessageTyped DEF Base, TypeOK, Settle, EventStatus
  <2>2. CASE ~Settle(h)
    BY <2>2 DEF Base, TypeOK, Handle, HandlerFails, Take, Lookup, LookupFails, MessageFails,
         FindContact, CreateContact, FindConversation, CreateConversation, LockAndLook, Insert,
         SettleFails, evVars
  <2>3. QED
    BY <2>1, <2>2
<1>4. job' \in [JobId -> JobState] /\ tries' \in [JobId -> Nat]
  <2>1. CASE Settle(h) \/ SettleFails(h)
    <3>1. hd[h].job \in JobId /\ hd[h].thrown \in BOOLEAN
      BY <2>1 DEF Base, TypeOK, AtWork, InBatch, Settle, SettleFails
    <3>2. QED
      BY <2>1, <3>1, EndedTyped DEF Base, Settle, SettleFails
  <2>2. ASSUME NEW j \in JobId, Take(h, j) PROVE job' \in [JobId -> JobState] /\ tries' = tries
    BY <2>2 DEF Base, TypeOK, Take, JobState
  <2>3. CASE ~(Settle(h) \/ SettleFails(h)) /\ ~ \E j \in JobId : Take(h, j)
    BY <2>3 DEF Base, TypeOK, Handle, HandlerFails, Lookup, LookupFails, MessageFails,
         FindContact, CreateContact, FindConversation, CreateConversation, LockAndLook, Insert,
         jobVars
  <2>4. QED
    BY <2>1, <2>2, <2>3 DEF Base, TypeOK
<1>5. /\ known' \subseteq Contact /\ conv' \in [Conv -> [of : Contact \union {None}, st : ConvState]]
      /\ live' \in [Msg -> Nat] /\ stored' \in [Msg -> Nat]
  <2>1. CASE CreateContact(h)
    <3>1. known' = known \/ known' = known \union {Sender(h)}
      BY <2>1 DEF CreateContact
    <3>2. QED
      BY <2>1, <3>1, MessageTyped DEF Base, TypeOK, CreateContact
  <2>2. CASE CreateConversation(h)
    BY <2>2, MessageTyped DEF Base, TypeOK, CreateConversation, ConvState
  <2>3. CASE Insert(h)
    <3>1. live' \in [Msg -> Nat] /\ stored' \in [Msg -> Nat] /\ known' = known
      BY <2>3, MessageTyped DEF Base, TypeOK, Insert
    <3>2. conv' = [conv EXCEPT ![hd[h].conv].st = "open"]
      BY <2>3 DEF Insert
    <3>3. conv' \in [Conv -> [of : Contact \union {None}, st : ConvState]]
      BY <3>2 DEF Base, TypeOK, ConvState
    <3>4. QED
      BY <3>1, <3>3 DEF Base, TypeOK
  <2>4. CASE ~(CreateContact(h) \/ CreateConversation(h) \/ Insert(h))
    BY <2>4 DEF Base, TypeOK, Handle, HandlerFails, Take, Lookup, LookupFails, MessageFails,
         FindContact, FindConversation, LockAndLook, Settle, SettleFails, dataVars
  <2>5. QED
    BY <2>1, <2>2, <2>3, <2>4
<1>6. QED
  BY <1>1, <1>2, <1>3, <1>4, <1>5 DEF Base, TypeOK, HandlerState, loopVars

LEMMA OtherTypes ==
  ASSUME Base,
         \/ \E e \in Event : Receive(e) \/ Enqueue(e) \/ ApiFails(e) \/ ReplayPending(e)
         \/ \E j \in JobId : Recover(j) \/ Forget(j)
         \/ \E l \in Loop : RetryFailed(l)
         \/ \E k \in Conv : Resolve(k)
         \/ \E m \in Msg : Delete(m)
         \/ Crash \/ Boot
  PROVE  Base'
<1>1. ASSUME NEW e \in Event, Receive(e) \/ Enqueue(e) \/ ApiFails(e) \/ ReplayPending(e)
      PROVE  Base'
  <2>1. job' \in [JobId -> JobState]
    BY <1>1, AddsTyped DEF Base, TypeOK, Receive, ApiFails, jobVars
  <2>2. QED
    BY <1>1, <2>1 DEF Base, TypeOK, AtWork, EventStatus, Fault, Receive, Enqueue, ApiFails,
                     ReplayPending, evVars, jobVars, dataVars, loopVars
<1>2. ASSUME NEW j \in JobId, Recover(j) \/ Forget(j)
      PROVE  Base'
  <2>1. CASE Recover(j)
    <3>1. job' = [job EXCEPT ![j] = "kept"] \/ job' = [job EXCEPT ![j] = "waiting"]
      BY <2>1 DEF Recover
    <3>2. job' \in [JobId -> JobState]
      BY <3>1 DEF Base, TypeOK, JobState
    <3>3. QED
      BY <2>1, <3>2 DEF Base, TypeOK, AtWork, Recover, evVars, dataVars, loopVars
  <2>2. CASE Forget(j)
    BY <2>2 DEF Base, TypeOK, AtWork, JobState, Fault, Forget, evVars, dataVars, loopVars
  <2>3. QED
    BY <1>2, <2>1, <2>2
<1>3. ASSUME NEW l \in Loop, RetryFailed(l)
      PROVE  Base'
  <2>1. CASE RetryRead(l)
    BY <1>3, <2>1 DEF Base, TypeOK, AtWork, RetryRead, Retryable, evVars, jobVars, dataVars
  <2>2. ASSUME NEW e \in Event, NEW n \in 0..MaxRetries, RetryClaim(l, e, n)
        PROVE  Base'
    BY <2>2 DEF Base, TypeOK, AtWork, EventStatus, RetryClaim, jobVars, dataVars
  <2>3. CASE RetryAdd(l)
    BY <1>3, <2>3, AddsTyped DEF Base, TypeOK, AtWork, RetryAdd, evVars, dataVars
  <2>4. QED
    BY <1>3, <2>1, <2>2, <2>3 DEF RetryFailed
<1>4. ASSUME NEW k \in Conv, Resolve(k)
      PROVE  Base'
  BY <1>4 DEF Base, TypeOK, AtWork, ConvState, Fault, Resolve, evVars, jobVars, loopVars
<1>5. ASSUME NEW m \in Msg, Delete(m)
      PROVE  Base'
  BY <1>5 DEF Base, TypeOK, AtWork, Fault, Delete, evVars, jobVars, loopVars
<1>6. CASE Crash
  <2>1. hd' \in [Handler -> HandlerState] /\ AtWork'
    BY <1>6, IdleTyped DEF Crash, AtWork
  <2>2. QED
    BY <1>6, <2>1 DEF Base, TypeOK, HandlerState, JobState, NoClaim, Fault, Crash, evVars, dataVars
<1>7. CASE Boot
  BY <1>7 DEF Base, TypeOK, AtWork, Boot, evVars, jobVars, dataVars
<1>8. QED
  BY <1>1, <1>2, <1>3, <1>4, <1>5, <1>6, <1>7

LEMMA BaseStep ==
  ASSUME Base, [Next]_vars
  PROVE  Base'
<1>1. ASSUME NEW h \in Handler, Handle(h) \/ HandlerFails(h)
      PROVE  Base'
  BY <1>1, HandlerTypes, HandlersStep DEF Base
<1>2. CASE UNCHANGED vars
  BY <1>2 DEF Base, TypeOK, AtWork, vars, evVars, jobVars, dataVars, loopVars
<1>3. QED
  BY <1>1, <1>2, OtherTypes DEF Next

\* Rows, jobs, handlers and retries keep their types whatever fails, and a handler at
\* work is at a message of its job's event (all of webhook/service.ts modelled here).
THEOREM IntakeTypeCorrect == Spec => []TypeOK
<1>1. Base => TypeOK
  BY DEF Base
<1>2. QED
  BY TypeInit, BaseStep, <1>1, PTL DEF Spec

-----------------------------------------------------------------------------
(* A message is stored once. *)

\* Nobody gets to create a row, no row more: nothing can go wrong.
LEMMA OnceKept ==
  ASSUME OnceInv, Base',
         \A m \in Msg : live'[m] <= live[m],
         \A h \in Handler : hd'[h].pc = "insert" => hd'[h] = hd[h]
  PROVE  OnceInv'
<1>1. \A h \in Handler : hd'[h].pc = "insert" =>
        hd[h].pc = "insert" /\ MsgAt(h)' = MsgAt(h) /\ MsgAt(h) \in Msg
  BY MessageTyped DEF OnceInv, MsgAt, EventAt
<1>2. live \in [Msg -> Nat] /\ live' \in [Msg -> Nat]
  BY DEF OnceInv, Base, TypeOK
<1>3. Locked'
  BY <1>1 DEF OnceInv, Locked
<1>4. NoRow'
  BY <1>1, <1>2 DEF OnceInv, NoRow
<1>5. StoredOnce'
  BY <1>2 DEF OnceInv, StoredOnce
<1>6. QED
  BY <1>3, <1>4, <1>5 DEF OnceInv

LEMMA OnceLook ==
  ASSUME OnceInv, Base', NEW h \in Handler, LockAndLook(h)
  PROVE  OnceInv'
<1>1. live' = live /\ live \in [Msg -> Nat] /\ hd[h].pc # "idle"
  BY DEF LockAndLook, dataVars, OnceInv, Base, TypeOK
<1>2. MsgAt(h) \in Msg
  BY <1>1, MessageTyped DEF OnceInv
<1>3. CASE live[MsgAt(h)] > 0
  <2>1. hd' = [hd EXCEPT ![h] = After(h, TRUE)]
    BY <1>3 DEF LockAndLook
  <2>2. After(h, TRUE).pc # "insert"
    BY <1>1, AfterEffect DEF OnceInv
  <2>3. \A g \in Handler : hd'[g].pc = "insert" => hd'[g] = hd[g]
    BY <2>1, <2>2 DEF OnceInv, Base, TypeOK
  <2>4. \A m \in Msg : live'[m] <= live[m]
    BY <1>1
  <2>5. QED
    BY <2>3, <2>4, OnceKept
<1>4. CASE ~(live[MsgAt(h)] > 0)
  <2>1. hd' = [hd EXCEPT ![h] = [hd[h] EXCEPT !.pc = "insert"]]
    BY <1>4 DEF LockAndLook
  <2>2. /\ \A g \in Handler : g # h => hd'[g] = hd[g]
        /\ hd'[h].job = hd[h].job /\ hd'[h].at = hd[h].at
    BY <2>1 DEF OnceInv, Base, TypeOK
  <2>3. \A g \in Handler : MsgAt(g)' = MsgAt(g)
    BY <2>2 DEF MsgAt, EventAt
  <2>4. Locked'
    <3>1. \A g \in Handler : g # h /\ hd[g].pc = "insert" => MsgAt(g) # MsgAt(h)
      BY DEF LockAndLook, LockFree
    <3>2. \A g \in Handler : g # h /\ hd'[g].pc = "insert" => MsgAt(g)' # MsgAt(h)'
      BY <2>2, <2>3, <3>1
    <3>3. \A g, i \in Handler : g # h /\ i # h /\ g # i /\ hd'[g].pc = "insert" /\ hd'[i].pc = "insert"
                                => MsgAt(g)' # MsgAt(i)'
      BY <2>2, <2>3 DEF OnceInv, Locked
    <3>4. QED
      BY <3>2, <3>3 DEF Locked
  <2>5. NoRow'
    BY <1>1, <1>2, <1>4, <2>2, <2>3 DEF OnceInv, NoRow
  <2>6. QED
    BY <1>1, <2>4, <2>5 DEF OnceInv, StoredOnce
<1>5. QED
  BY <1>3, <1>4

LEMMA OnceInsert ==
  ASSUME OnceInv, Base', NEW h \in Handler, Insert(h)
  PROVE  OnceInv'
<1>1. /\ hd[h].pc = "insert" /\ hd' = [hd EXCEPT ![h] = After(h, TRUE)]
      /\ live' = [live EXCEPT ![MsgAt(h)] = @ + 1]
  BY DEF Insert
<1>2. After(h, TRUE).pc # "insert"
  BY <1>1, AfterEffect DEF OnceInv
<1>3. \A g \in Handler : hd'[g].pc = "insert" => g # h /\ hd'[g] = hd[g]
  BY <1>1, <1>2 DEF OnceInv, Base, TypeOK
<1>4. \A g \in Handler : hd'[g].pc = "insert" =>
        hd[g].pc = "insert" /\ MsgAt(g)' = MsgAt(g) /\ MsgAt(g) \in Msg /\ MsgAt(g) # MsgAt(h)
  BY <1>1, <1>3, MessageTyped DEF OnceInv, Locked, MsgAt, EventAt
<1>5. MsgAt(h) \in Msg /\ live[MsgAt(h)] = 0 /\ live \in [Msg -> Nat]
  BY <1>1, MessageTyped DEF OnceInv, NoRow, Base, TypeOK
<1>6. Locked'
  BY <1>4 DEF OnceInv, Locked
<1>7. NoRow'
  BY <1>1, <1>4, <1>5 DEF OnceInv, NoRow
<1>8. StoredOnce'
  BY <1>1, <1>5 DEF OnceInv, StoredOnce
<1>9. QED
  BY <1>6, <1>7, <1>8 DEF OnceInv

\* The other steps of a handler do not touch messages and do not lead to an insert.
LEMMA OnceHandler ==
  ASSUME OnceInv, Base', NEW h \in Handler, Handle(h) \/ HandlerFails(h)
  PROVE  OnceInv'
<1>1. CASE LockAndLook(h)
  BY <1>1, OnceLook
<1>2. CASE Insert(h)
  BY <1>2, OnceInsert
<1>3. CASE ~LockAndLook(h) /\ ~Insert(h)
  <2>1. \A g \in Handler : g # h => hd'[g] = hd[g]
    BY <1>3 DEF Handle, HandlerFails, Take, Lookup, LookupFails, MessageFails, FindContact,
         CreateContact, FindConversation, CreateConversation, Settle, SettleFails, OnceInv, Base, TypeOK
  <2>2. hd[h] \in HandlerState
    BY DEF OnceInv, Base, TypeOK, HandlerState
  <2>3. ASSUME NEW ok \in BOOLEAN, hd[h].pc # "idle" PROVE After(h, ok).pc # "insert"
    BY <2>3, AfterEffect DEF OnceInv
  <2>4. hd'[h].pc # "insert"
    <3>1. CASE MessageFails(h)
      BY <3>1, <2>3 DEF MessageFails, OnceInv, Base, TypeOK
    <3>2. CASE CreateContact(h)
      <4>1. hd' = [hd EXCEPT ![h] = After(h, FALSE)] \/ hd' = [hd EXCEPT ![h].pc = "conv"]
        BY <3>2 DEF CreateContact
      <4>2. hd[h].pc # "idle"
        BY <3>2 DEF CreateContact
      <4>3. QED
        BY <4>1, <4>2, <2>2, <2>3 DEF OnceInv, Base, TypeOK, HandlerState
    <3>3. CASE Settle(h) \/ SettleFails(h)
      BY <3>3, IdleTyped DEF Settle, SettleFails, OnceInv, Base, TypeOK
    <3>4. ASSUME NEW j \in JobId, Take(h, j) PROVE hd'[h].pc # "insert"
      BY <3>4, IdleTyped DEF Take, OnceInv, Base, TypeOK, HandlerState
    <3>5. CASE Lookup(h) \/ LookupFails(h) \/ FindContact(h)
      BY <3>5, <2>2 DEF Lookup, LookupFails, FindContact, OnceInv, Base, TypeOK, HandlerState
    <3>6. CASE FindConversation(h)
      BY <3>6, <2>2 DEF FindConversation, OnceInv, Base, TypeOK, HandlerState
    <3>7. CASE CreateConversation(h)
      BY <3>7, <2>2 DEF CreateConversation, OnceInv, Base, TypeOK, HandlerState
    <3>8. QED
      BY <1>3, <3>1, <3>2, <3>3, <3>4, <3>5, <3>6, <3>7 DEF Handle, HandlerFails
  <2>5. live' = live
    BY <1>3 DEF Handle, HandlerFails, Take, Lookup, LookupFails, MessageFails, FindContact,
         CreateContact, FindConversation, CreateConversation, Settle, SettleFails, dataVars
  <2>6. \A m \in Msg : live'[m] <= live[m]
    BY <2>5 DEF OnceInv, Base, TypeOK
  <2>7. QED
    BY <2>1, <2>4, <2>6, OnceKept
<1>4. QED
  BY <1>1, <1>2, <1>3

LEMMA OnceStep ==
  ASSUME OnceInv, [Next]_vars
  PROVE  OnceInv'
<1>1. Base'
  BY BaseStep DEF OnceInv
<1>2. ASSUME NEW h \in Handler, Handle(h) \/ HandlerFails(h)
      PROVE  OnceInv'
  BY <1>1, <1>2, OnceHandler
<1>3. CASE ~ \E h \in Handler : Handle(h) \/ HandlerFails(h)
  <2>1. \A m \in Msg : live'[m] <= live[m]
    <3>1. CASE live' = live
      BY <3>1 DEF OnceInv, Base, TypeOK
    <3>2. ASSUME NEW m \in Msg, Delete(m) PROVE \A n \in Msg : live'[n] <= live[n]
      BY <3>2 DEF Delete, OnceInv, Base, TypeOK
    <3>3. QED
      BY <1>3, <3>1, <3>2 DEF Next, Receive, Enqueue, ApiFails, ReplayPending, Recover, Forget,
           RetryFailed, RetryRead, RetryClaim, RetryAdd, Resolve, Crash, Boot, vars, dataVars
  <2>2. \A h \in Handler : hd'[h].pc = "insert" => hd'[h] = hd[h]
    <3>1. CASE Crash
      BY <3>1, IdleTyped DEF Crash
    <3>2. CASE hd' = hd
      BY <3>2
    <3>3. QED
      BY <1>3, <3>1, <3>2 DEF Next, Receive, Enqueue, ApiFails, ReplayPending, Recover, Forget,
           RetryFailed, RetryRead, RetryClaim, RetryAdd, Resolve, Delete, Boot, vars
  <2>3. QED
    BY <1>1, <2>1, <2>2, OnceKept
<1>4. QED
  BY <1>2, <1>3

\* A message is in the inbox once, however often and however concurrently it is delivered
\* (storeNormalizedWhatsAppInboundMessage): the lock of its external id keeps a second
\* handler from looking until the first has its row.
THEOREM MessageStoredOnce == Spec => []StoredOnce
<1>1. Init => OnceInv
  BY TypeInit DEF OnceInv, Init, Locked, NoRow, StoredOnce, IdleHandler
<1>2. OnceInv => StoredOnce
  BY DEF OnceInv
<1>3. QED
  BY <1>1, <1>2, OnceStep, PTL DEF Spec

-----------------------------------------------------------------------------
(* A failure is claimed once. *)

\* Nothing is claimed, and no event comes to have failed as often as when it was claimed.
LEMMA ClaimKept ==
  ASSUME ClaimInv, Base',
         \A l \in Loop : claimed'[l] = claimed[l] \/ claimed'[l] = NoClaim,
         \A e \in Event : \/ retries'[e] > retries[e]
                          \/ retries'[e] = retries[e] /\ (status'[e] = "failed" => status[e] = "failed")
  PROVE  ClaimInv'
<1>1. /\ retries \in [Event -> Nat] /\ retries' \in [Event -> Nat]
      /\ \A l \in Loop : claimed[l] # NoClaim => claimed[l][1] \in Event /\ claimed[l][2] \in Nat
  BY DEF ClaimInv, Base, TypeOK
<1>2. ClaimOver'
  BY <1>1 DEF ClaimInv, ClaimOver
<1>3. ClaimedOnce'
  BY DEF ClaimInv, ClaimedOnce
<1>4. QED
  BY <1>2, <1>3 DEF ClaimInv

LEMMA ClaimTaken ==
  ASSUME ClaimInv, Base', NEW l \in Loop, NEW e \in Event, NEW n \in 0..MaxRetries,
         RetryClaim(l, e, n)
  PROVE  ClaimInv'
<1>1. retries \in [Event -> Nat] /\ retries' = retries /\ n \in Nat
  BY IntakeAssumption DEF ClaimInv, Base, TypeOK, RetryClaim
<1>2. CASE status[e] = "failed" /\ retries[e] = n
  <2>1. /\ status' = [status EXCEPT ![e] = "pending"]
        /\ claimed' = [claimed EXCEPT ![l] = <<e, n>>] /\ claimed[l] = NoClaim
    BY <1>2 DEF RetryClaim
  <2>2. \A k \in Loop : claimed[k] # <<e, n>>
    BY <1>1, <1>2, <2>1, IntakeAssumption DEF ClaimInv, ClaimOver, NoClaim
  <2>3. \A k \in Loop : claimed'[k] = IF k = l THEN <<e, n>> ELSE claimed[k]
    BY <2>1 DEF ClaimInv, Base, TypeOK
  <2>4. ClaimedOnce'
    BY <2>2, <2>3 DEF ClaimInv, ClaimedOnce
  <2>5. ClaimOver'
    BY <1>1, <1>2, <2>1, <2>3 DEF ClaimInv, ClaimOver, Base, TypeOK
  <2>6. QED
    BY <2>4, <2>5 DEF ClaimInv
<1>3. CASE ~(status[e] = "failed" /\ retries[e] = n)
  BY <1>1, <1>3, ClaimKept DEF RetryClaim
<1>4. QED
  BY <1>2, <1>3

LEMMA ClaimStep ==
  ASSUME ClaimInv, [Next]_vars
  PROVE  ClaimInv'
<1>1. Base'
  BY BaseStep DEF ClaimInv
<1>2. ASSUME NEW l \in Loop, NEW e \in Event, NEW n \in 0..MaxRetries, RetryClaim(l, e, n)
      PROVE  ClaimInv'
  BY <1>1, <1>2, ClaimTaken
<1>3. CASE ~ \E l \in Loop, e \in Event, n \in 0..MaxRetries : RetryClaim(l, e, n)
  <2>1. \A l \in Loop : claimed'[l] = claimed[l] \/ claimed'[l] = NoClaim
    <3>1. CASE claimed' = claimed
      BY <3>1
    <3>2. ASSUME NEW l \in Loop, RetryAdd(l)
          PROVE  \A k \in Loop : claimed'[k] = claimed[k] \/ claimed'[k] = NoClaim
      BY <3>2 DEF RetryAdd, ClaimInv, Base, TypeOK
    <3>3. CASE Crash
      BY <3>3 DEF Crash
    <3>4. QED
      BY <1>3, <3>1, <3>2, <3>3 DEF Next, Handle, HandlerFails, Receive, Enqueue, ApiFails,
           ReplayPending, Recover, Forget, RetryFailed, RetryRead, Resolve, Delete, Boot, Take,
           Lookup, LookupFails, MessageFails, FindContact, CreateContact, FindConversation,
           CreateConversation, LockAndLook, Insert, Settle, SettleFails, vars, loopVars
  <2>2. \A e \in Event : \/ retries'[e] > retries[e]
                         \/ retries'[e] = retries[e] /\ (status'[e] = "failed" => status[e] = "failed")
    <3>1. CASE retries' = retries /\ status' = status
      BY <3>1
    <3>2. ASSUME NEW e \in Event, Receive(e)
          PROVE  retries' = retries /\ \A d \in Event : status'[d] = "failed" => status[d] = "failed"
      BY <3>2 DEF Receive, ClaimInv, Base, TypeOK
    <3>3. ASSUME NEW h \in Handler, Settle(h)
          PROVE  \A e \in Event :
                   \/ retries'[e] > retries[e]
                   \/ retries'[e] = retries[e] /\ (status'[e] = "failed" => status[e] = "failed")
      BY <3>3 DEF Settle, ClaimInv, Base, TypeOK
    <3>4. QED
      BY <1>3, <3>1, <3>2, <3>3 DEF Next, Handle, HandlerFails, Enqueue, ApiFails,
           ReplayPending, Recover, Forget, RetryFailed, RetryRead, RetryAdd, Resolve, Delete, Boot,
           Crash, Take, Lookup, LookupFails, MessageFails, FindContact, CreateContact,
           FindConversation, CreateConversation, LockAndLook, Insert, SettleFails, vars, evVars
  <2>3. QED
    BY <1>1, <2>1, <2>2, ClaimKept
<1>4. QED
  BY <1>2, <1>3

\* Two runs of the retry never both claim a failure of an event
\* (replayRetryableFailedWebhookEvents): the claim compares status and count.
THEOREM FailureClaimedOnce == Spec => []ClaimedOnce
<1>1. Init => ClaimInv
  BY TypeInit DEF ClaimInv, Init, ClaimOver, ClaimedOnce
<1>2. ClaimInv => ClaimedOnce
  BY DEF ClaimInv
<1>3. QED
  BY <1>1, <1>2, ClaimStep, PTL DEF Spec

-----------------------------------------------------------------------------
(* No message is forgotten.  A job throws at most twice, as the lookup and the    *)
(* settling fail once each, so that it is tried again; it is handed out again when *)
(* its worker has stopped, as that happens once.                                   *)

\* Notifications of one message each, and three attempts.
OneEach == \A e \in Event : Len(Batch[e]) = 1
Enough == Attempts >= 3 /\ ReplayTries >= 3

Bit(b) == IF b THEN 1 ELSE 0

\* What is in the inbox was stored.
WasStored == \A m \in Msg : live[m] <= stored[m]

\* A job whose worker is gone has not been handed out again.
FirstStall ==
  /\ stalled # {} => "crash" \in faults
  /\ \A j \in JobId : job[j] = "orphan" => j \notin stalled /\ "crash" \in faults

\* How far a handler is with the one message of its job: nothing has come of it yet, or
\* it was stored, or an error is counted.
Progress(r) ==
  /\ r.pc = "idle" => ~r.thrown
  /\ r.pc \notin {"idle", "settle"} => r.taken = 0 /\ r.errors = 0 /\ ~r.thrown
  /\ r.pc = "settle" /\ ~r.thrown /\ r.job[1] \in Known =>
       (r.errors > 0 /\ r.taken = 0) \/ stored[Batch[r.job[1]][1]] > 0

InProgress == \A h \in Handler : Progress(hd[h])

\* The attempts that threw, except those of a handler that is about to.
Thrown == \E h \in Handler : hd[h].thrown
Throws ==
  /\ \A h \in Handler : hd[h].thrown => "lookup" \in faults
  /\ \A g, h \in Handler : hd[g].thrown /\ hd[h].thrown => g = h
  /\ \A j \in JobId :
       tries[j] <= Bit("settle" \in faults) + Bit("lookup" \in faults /\ ~Thrown)

StoredOrAlive ==
  \A e \in Known : status[e] = "processed" =>
    stored[Batch[e][1]] > 0 \/ \E j \in JobId : j[1] = e /\ Alive(j)

KeptInv == WasStored /\ FirstStall /\ InProgress /\ Throws /\ StoredOrAlive

LEMMA KeptInit == Init => KeptInv
<1> SUFFICES ASSUME Init PROVE KeptInv
  OBVIOUS
<1>1. Progress(IdleHandler) /\ ~IdleHandler.thrown
  BY DEF Progress, IdleHandler
<1>2. \A j \in JobId : 0 <= Bit("settle" \in faults) + Bit("lookup" \in faults /\ ~Thrown)
  BY DEF Bit
<1>3. \A e \in Known : e \in Event
  BY IntakeAssumption
<1>4. QED
  BY <1>1, <1>2, <1>3 DEF Init, KeptInv, WasStored, FirstStall, InProgress, Throws, StoredOrAlive

\* The one message of an event.
LEMMA OnlyMessage ==
  ASSUME OneEach, NEW e \in Event
  PROVE  Batch[e][1] \in Msg
<1>1. Batch[e] \in Seq(Msg) /\ 1 \in 1..Len(Batch[e])
  BY IntakeAssumption DEF OneEach
<1>2. QED
  BY <1>1

\* An event that is not settled now stays safe, as long as nothing is lost.
LEMMA AliveKept ==
  ASSUME StoredOrAlive, Base, Base', OneEach,
         \A m \in Msg : stored[m] <= stored'[m],
         \A e \in Event : status'[e] = "processed" => status[e] = "processed",
         \A j \in JobId : Alive(j) => Alive(j)'
  PROVE  StoredOrAlive'
<1>1. ASSUME NEW e \in Known, status'[e] = "processed"
      PROVE  stored'[Batch[e][1]] > 0 \/ \E j \in JobId : j[1] = e /\ Alive(j)'
  <2>1. e \in Event /\ Batch[e][1] \in Msg
    BY OnlyMessage, IntakeAssumption
  <2>2. stored[Batch[e][1]] \in Nat /\ stored'[Batch[e][1]] \in Nat
    BY <2>1 DEF Base, TypeOK
  <2>3. QED
    BY <1>1, <2>1, <2>2 DEF StoredOrAlive
<1>2. QED
  BY <1>1 DEF StoredOrAlive

\* Nobody begins to throw.
LEMMA ThrowsKept ==
  ASSUME Throws, Base, Base', faults \subseteq faults',
         \A j \in JobId : tries'[j] <= tries[j],
         \A h \in Handler : hd'[h].thrown => hd[h].thrown
  PROVE  Throws'
<1>1. Thrown' => Thrown
  BY DEF Thrown
<1>2. Bit("settle" \in faults) + Bit("lookup" \in faults /\ ~Thrown)
        <= Bit("settle" \in faults') + Bit("lookup" \in faults' /\ ~Thrown')
  BY <1>1 DEF Bit
<1>3. ASSUME NEW j \in JobId
      PROVE  tries'[j] <= Bit("settle" \in faults') + Bit("lookup" \in faults' /\ ~Thrown')
  <2>1. tries'[j] \in Nat /\ tries[j] \in Nat
    BY DEF Base, TypeOK
  <2>2. tries'[j] <= tries[j] /\ tries[j] <= Bit("settle" \in faults) + Bit("lookup" \in faults /\ ~Thrown)
    BY DEF Throws
  <2>3. \A b : Bit(b) \in Nat
    BY DEF Bit
  <2>4. QED
    BY <1>2, <2>1, <2>2, <2>3
<1>4. QED
  BY <1>3 DEF Throws

\* Who has stored more finds the handlers as far as they were.
LEMMA ProgressKept ==
  ASSUME Base, Base', OneEach, NEW r \in HandlerState, r.pc # "idle" => InBatch(r), Progress(r),
         \A m \in Msg : stored[m] <= stored'[m]
  PROVE  Progress(r)'
<1>1. CASE r.pc = "settle"
  <2>1. Batch[r.job[1]][1] \in Msg
    BY <1>1, JobEvent, OnlyMessage DEF InBatch
  <2>2. stored[Batch[r.job[1]][1]] \in Nat /\ stored'[Batch[r.job[1]][1]] \in Nat
    BY <2>1 DEF Base, TypeOK
  <2>3. QED
    BY <1>1, <2>1, <2>2 DEF Progress
<1>2. CASE r.pc # "settle"
  BY <1>2 DEF Progress
<1>3. QED
  BY <1>1, <1>2

\* A handler's message came to its end, with a row of it or with an error.
LEMMA AfterProgress ==
  ASSUME Base, KeptInv, OneEach, NEW h \in Handler, NEW ok \in BOOLEAN,
         hd[h].pc \notin {"idle", "settle"},
         ok => stored'[MsgAt(h)] > 0,
         NEW r, r = After(h, ok)
  PROVE  Progress(r)' /\ ~r.thrown
<1>1. hd[h] \in HandlerState /\ InBatch(hd[h]) /\ EventAt(h) \in Event
  BY MessageTyped DEF Base, TypeOK, AtWork, HandlerState
<1>2. hd[h].at = 1 /\ Len(Batch[EventAt(h)]) = 1
  <2>1. Len(Batch[EventAt(h)]) = 1
    BY <1>1 DEF OneEach
  <2>2. hd[h].at \in Nat \ {0} /\ hd[h].at <= 1
    BY <1>1, <2>1 DEF HandlerState, InBatch, EventAt
  <2>3. QED
    BY <2>1, <2>2
<1>3. hd[h].taken = 0 /\ hd[h].errors = 0 /\ ~hd[h].thrown
  BY DEF KeptInv, InProgress, Progress
<1>4. /\ r.pc = "settle" /\ r.job = hd[h].job /\ r.thrown = hd[h].thrown
      /\ ~ok => r.taken = 0 /\ r.errors = 1
  BY <1>1, <1>2, <1>3 DEF After, HandlerState
<1>5. ok => stored'[Batch[r.job[1]][1]] > 0
  BY <1>2, <1>4 DEF MsgAt, EventAt
<1>6. QED
  BY <1>3, <1>4, <1>5 DEF Progress

\* A handler that goes on with its message, or begins, and neither throws nor settles.
LEMMA GoesOn ==
  ASSUME Base, KeptInv, OneEach, NEW h \in Handler,
         Handle(h) \/ HandlerFails(h), ~(LookupFails(h) \/ Settle(h) \/ SettleFails(h))
  PROVE  /\ \A g \in Handler : g # h => hd'[g] = hd[g]
         /\ ~hd'[h].thrown /\ Progress(hd[h])'
         /\ UNCHANGED <<status, tries, stalled>>
         /\ \A m \in Msg : stored[m] <= stored'[m] /\ live'[m] <= stored'[m]
         /\ \A j \in JobId : /\ Alive(j) => Alive(j)'
                             /\ job'[j] = "orphan" => job[j] = "orphan"
<1>1. hd \in [Handler -> HandlerState] /\ \A m \in Msg : stored[m] \in Nat /\ live[m] \in Nat
  BY DEF Base, TypeOK, HandlerState
<1>2. /\ \A g \in Handler : g # h => hd'[g] = hd[g]
      /\ UNCHANGED <<status, tries, stalled>>
  BY DEF Handle, HandlerFails, Take, Lookup, MessageFails, FindContact, CreateContact,
         FindConversation, CreateConversation, LockAndLook, Insert, Base, TypeOK, evVars, jobVars
<1>3. \A m \in Msg : stored[m] <= stored'[m] /\ live'[m] <= stored'[m]
  <2>1. CASE Insert(h)
    <3>1. MsgAt(h) \in Msg
      BY <2>1, MessageTyped DEF Insert
    <3>2. QED
      BY <2>1, <3>1 DEF Insert, Base, TypeOK, KeptInv, WasStored
  <2>2. CASE ~Insert(h)
    <3>1. UNCHANGED <<live, stored>>
      BY <2>2 DEF Handle, HandlerFails, Take, Lookup, MessageFails, FindContact, CreateContact,
         FindConversation, CreateConversation, LockAndLook, dataVars
    <3>2. QED
      BY <1>1, <3>1 DEF KeptInv, WasStored
  <2>3. QED
    BY <2>1, <2>2
<1>4. \A j \in JobId : /\ Alive(j) => Alive(j)'
                       /\ job'[j] = "orphan" => job[j] = "orphan"
  <2>1. ASSUME NEW i \in JobId, Take(h, i) PROVE <1>4!:
    BY <2>1 DEF Take, Alive, Base, TypeOK
  <2>2. CASE job' = job
    BY <2>2 DEF Alive
  <2>3. QED
    BY <2>1, <2>2 DEF Handle, HandlerFails, Lookup, MessageFails, FindContact, CreateContact,
         FindConversation, CreateConversation, LockAndLook, Insert, jobVars
<1>5. ASSUME hd[h].pc \notin {"idle", "settle"}
      PROVE  hd[h].taken = 0 /\ hd[h].errors = 0 /\ ~hd[h].thrown
  BY <1>5 DEF KeptInv, InProgress, Progress
<1> DEFINE Well == ~hd'[h].thrown /\ Progress(hd[h])'
           Ends(ok) == hd' = [hd EXCEPT ![h] = After(h, ok)] /\ hd[h].pc \notin {"idle", "settle"}
<1>6. ASSUME Ends(FALSE) PROVE Well
  <2>1. PICK r : r = After(h, FALSE)
    OBVIOUS
  <2>2. hd'[h] = r
    BY <1>1, <1>6, <2>1
  <2>3. Progress(r)' /\ ~r.thrown
    BY <1>6, <2>1, AfterProgress
  <2>4. QED
    BY <2>2, <2>3
<1>7. ASSUME Ends(TRUE), stored'[MsgAt(h)] > 0 PROVE Well
  <2>1. PICK r : r = After(h, TRUE)
    OBVIOUS
  <2>2. hd'[h] = r
    BY <1>1, <1>7, <2>1
  <2>3. Progress(r)' /\ ~r.thrown
    BY <1>7, <2>1, AfterProgress
  <2>4. QED
    BY <2>2, <2>3
<1>8. ASSUME NEW p \in Steps \ {"idle", "settle"}, hd[h].pc \notin {"idle", "settle"},
             \/ hd' = [hd EXCEPT ![h].pc = p]
             \/ \E k \in Conv : hd' = [hd EXCEPT ![h].pc = p, ![h].conv = k]
      PROVE  Well
  <2>1. /\ hd'[h].pc = p /\ hd'[h].taken = hd[h].taken /\ hd'[h].errors = hd[h].errors
        /\ hd'[h].thrown = hd[h].thrown
    BY <1>1, <1>8 DEF HandlerState
  <2>2. QED
    BY <1>5, <1>8, <2>1 DEF Progress
<1>9. ASSUME NEW j \in JobId, Take(h, j) PROVE Well
  <2>1. hd'[h] = [IdleHandler EXCEPT !.pc = "lookup", !.job = j]
    BY <1>1, <1>9 DEF Take
  <2>2. hd'[h].pc = "lookup" /\ hd'[h].taken = 0 /\ hd'[h].errors = 0 /\ ~hd'[h].thrown
    BY <2>1 DEF IdleHandler
  <2>3. QED
    BY <2>2 DEF Progress
<1>10. ASSUME Lookup(h) PROVE Well
  <2>1. CASE EventAt(h) \in Known
    <3>1. hd' = [hd EXCEPT ![h].pc = "contact"]
      BY <1>10, <2>1 DEF Lookup
    <3>2. QED
      BY <1>8, <1>10, <3>1 DEF Lookup, Steps
  <2>2. CASE EventAt(h) \notin Known
    <3>1. hd' = [hd EXCEPT ![h].pc = "settle"]
      BY <1>10, <2>2 DEF Lookup
    <3>2. /\ hd'[h].pc = "settle" /\ hd'[h].job = hd[h].job /\ hd'[h].thrown = hd[h].thrown
      BY <1>1, <3>1 DEF HandlerState
    <3>3. ~hd[h].thrown
      BY <1>5, <1>10 DEF Lookup
    <3>4. QED
      BY <2>2, <3>2, <3>3 DEF Progress, EventAt
  <2>3. QED
    BY <2>1, <2>2
<1> HIDE DEF Well
<1>11. ASSUME MessageFails(h) PROVE Well
  BY <1>6, <1>11 DEF MessageFails
<1>12. ASSUME FindContact(h) PROVE Well
  <2>1. hd' = [hd EXCEPT ![h].pc = "conv"] \/ hd' = [hd EXCEPT ![h].pc = "newcontact"]
    BY <1>12 DEF FindContact
  <2>2. QED
    BY <1>8, <1>12, <2>1 DEF FindContact, Steps
<1>13. ASSUME CreateContact(h) PROVE Well
  <2>1. CASE hd' = [hd EXCEPT ![h] = After(h, FALSE)]
    BY <1>6, <1>13, <2>1 DEF CreateContact
  <2>2. CASE hd' = [hd EXCEPT ![h].pc = "conv"]
    BY <1>8, <1>13, <2>2 DEF CreateContact, Steps
  <2>3. QED
    BY <1>13, <2>1, <2>2 DEF CreateContact
<1>14. ASSUME FindConversation(h) PROVE Well
  <2>1. hd' = [hd EXCEPT ![h].pc = "newconv"]
        \/ \E k \in Conv : hd' = [hd EXCEPT ![h].pc = "lock", ![h].conv = k]
    BY <1>14 DEF FindConversation, OpenOf
  <2>2. QED
    BY <1>8, <1>14, <2>1 DEF FindConversation, Steps
<1>15. ASSUME CreateConversation(h) PROVE Well
  <2>1. \E k \in Conv : hd' = [hd EXCEPT ![h].pc = "lock", ![h].conv = k]
    BY <1>15 DEF CreateConversation
  <2>2. QED
    BY <1>8, <1>15, <2>1 DEF CreateConversation, Steps
<1>16. ASSUME LockAndLook(h) PROVE Well
  <2>1. CASE live[MsgAt(h)] > 0
    <3>1. MsgAt(h) \in Msg /\ stored' = stored
      BY <1>16, MessageTyped DEF LockAndLook, dataVars
    <3>2. stored'[MsgAt(h)] > 0
      BY <1>1, <2>1, <3>1 DEF KeptInv, WasStored
    <3>3. QED
      BY <1>7, <1>16, <2>1, <3>2 DEF LockAndLook
  <2>2. CASE ~(live[MsgAt(h)] > 0)
    <3>1. hd' = [hd EXCEPT ![h] = [hd[h] EXCEPT !.pc = "insert"]]
      BY <1>16, <2>2 DEF LockAndLook
    <3>2. hd' = [hd EXCEPT ![h].pc = "insert"]
      BY <1>1, <3>1
    <3>3. QED
      BY <1>8, <1>16, <3>2 DEF LockAndLook, Steps
  <2>3. QED
    BY <2>1, <2>2
<1>17. ASSUME Insert(h) PROVE Well
  <2>1. MsgAt(h) \in Msg
    BY <1>17, MessageTyped DEF Insert
  <2>2. stored'[MsgAt(h)] > 0
    BY <1>1, <1>17, <2>1 DEF Insert, Base, TypeOK
  <2>3. QED
    BY <1>7, <1>17, <2>2 DEF Insert
<1>18. Well
  BY <1>9, <1>10, <1>11, <1>12, <1>13, <1>14, <1>15, <1>16, <1>17 DEF Handle, HandlerFails
<1>19. QED
  BY <1>2, <1>3, <1>4, <1>18 DEF Well

\* The lookup throws: the handler is the first to.
LEMMA LookupThrows ==
  ASSUME Base, Base', KeptInv, OneEach, NEW h \in Handler, LookupFails(h)
  PROVE  KeptInv'
<1>1. /\ UNCHANGED <<status, job, tries, stalled, live, stored>>
      /\ "lookup" \notin faults /\ faults' = faults \union {"lookup"}
      /\ hd[h].pc = "lookup" /\ hd' = [hd EXCEPT ![h].pc = "settle", ![h].thrown = TRUE]
  BY DEF LookupFails, Fault, evVars, jobVars, dataVars
<1>2. /\ hd'[h].pc = "settle" /\ hd'[h].thrown /\ \A g \in Handler : g # h => hd'[g] = hd[g]
  BY <1>1 DEF Base, TypeOK
<1>3. \A g \in Handler : ~hd[g].thrown
  BY <1>1 DEF KeptInv, Throws
<1>4. WasStored' /\ StoredOrAlive' /\ FirstStall'
  BY <1>1 DEF KeptInv, WasStored, StoredOrAlive, Alive, FirstStall
<1>5. InProgress'
  BY <1>1, <1>2 DEF KeptInv, InProgress, Progress
<1>6. Throws'
  <2>1. \A g \in Handler : hd'[g].thrown => g = h
    BY <1>2, <1>3
  <2>2. Thrown' /\ ~("lookup" \in faults /\ ~Thrown)
    BY <1>1, <1>2 DEF Thrown
  <2>3. "settle" \in faults' <=> "settle" \in faults
    BY <1>1
  <2>4. QED
    BY <1>1, <2>1, <2>2, <2>3 DEF KeptInv, Throws, Bit
<1>7. QED
  BY <1>4, <1>5, <1>6 DEF KeptInv

\* A job's end.  One that threw waits for its next attempt.
LEMMA SettleKept ==
  ASSUME Base, Base', KeptInv, OneEach, Enough, NEW h \in Handler, Settle(h) \/ SettleFails(h)
  PROVE  KeptInv'
<1> DEFINE j == hd[h].job
           threw == hd[h].thrown \/ SettleFails(h)
<1>1. /\ hd[h].pc = "settle" /\ hd[h] \in HandlerState /\ j \in JobId /\ EventAt(h) \in Event
      /\ InBatch(hd[h])
  BY MessageTyped DEF Settle, SettleFails, Base, TypeOK, AtWork, HandlerState, InBatch
<1>2. /\ UNCHANGED <<live, stored, stalled>>
      /\ hd' = [hd EXCEPT ![h] = IdleHandler]
      /\ faults' = faults \/ (SettleFails(h) /\ "settle" \notin faults /\ faults' = faults \union {"settle"})
  BY DEF Settle, SettleFails, Fault, dataVars
<1>3. /\ hd'[h] = IdleHandler /\ ~IdleHandler.thrown /\ IdleHandler.pc = "idle"
      /\ \A g \in Handler : g # h => hd'[g] = hd[g]
  BY <1>2 DEF Base, TypeOK, IdleHandler
<1>4. \A b : Bit(b) \in {0, 1}
  BY DEF Bit
<1>5. \A i \in JobId : tries[i] \in Nat /\ tries'[i] \in Nat
                       /\ tries[i] <= Bit("settle" \in faults) + Bit("lookup" \in faults /\ ~Thrown)
  BY DEF Base, TypeOK, KeptInv, Throws
<1>6. ASSUME hd[h].thrown \/ SettleFails(h)
      PROVE  /\ tries' = [tries EXCEPT ![j] = tries[j] + 1]
             /\ job' = [job EXCEPT ![j] = "waiting"]
  <2>1. tries[j] <= 1
    <3>1. CASE hd[h].thrown
      <4>1. Thrown
        BY <3>1 DEF Thrown
      <4>2. Bit("lookup" \in faults /\ ~Thrown) = 0
        BY <4>1 DEF Bit
      <4>3. QED
        BY <1>1, <1>4, <1>5, <4>2
    <3>2. CASE SettleFails(h)
      <4>1. Bit("settle" \in faults) = 0
        BY <3>2 DEF SettleFails, Fault, Bit
      <4>2. QED
        BY <1>1, <1>4, <1>5, <4>1
    <3>3. QED
      BY <1>6, <3>1, <3>2
  <2>2. tries[j] + 1 < AttemptsOf(j)
    BY <1>1, <1>5, <2>1, IntakeAssumption DEF Enough, AttemptsOf
  <2>3. hd[h].thrown = TRUE \/ SettleFails(h)
    BY <1>1, <1>6 DEF HandlerState
  <2>4. Ended(hd[h].job, TRUE)
    BY <2>3 DEF Settle, SettleFails
  <2>5. QED
    BY <2>2, <2>4 DEF Ended
<1>7. ASSUME ~(hd[h].thrown \/ SettleFails(h))
      PROVE  /\ tries' = tries /\ Settle(h)
             /\ \A i \in JobId : i # j => job'[i] = job[i]
             /\ job'[j] = "kept"
  BY <1>1, <1>7 DEF Settle, Ended, Base, TypeOK, HandlerState
<1>8. \A i \in JobId : /\ i # j => job'[i] = job[i]
                       /\ job'[j] \in {"waiting", "kept"}
  BY <1>1, <1>6, <1>7 DEF Base, TypeOK
<1>9. WasStored'
  BY <1>2 DEF KeptInv, WasStored
<1>10. FirstStall'
  BY <1>2, <1>8 DEF KeptInv, FirstStall
<1>11. InProgress'
  <2>1. Progress(IdleHandler)'
    BY DEF Progress, IdleHandler
  <2>2. QED
    BY <1>2, <1>3, <2>1 DEF KeptInv, InProgress, Progress
<1>12. Throws'
  <2>1. CASE ~(hd[h].thrown \/ SettleFails(h))
    <3>1. \A g \in Handler : hd'[g].thrown => hd[g].thrown
      BY <1>3
    <3>2. \A i \in JobId : tries'[i] <= tries[i]
      BY <1>5, <1>7, <2>1
    <3>3. faults \subseteq faults'
      BY <1>2
    <3>4. QED
      BY <3>1, <3>2, <3>3, ThrowsKept DEF KeptInv
  <2>2. CASE hd[h].thrown \/ SettleFails(h)
    <3>1. \A i \in JobId : tries'[i] <= tries[i] + 1
      BY <1>1, <1>5, <1>6, <2>2 DEF Base, TypeOK
    <3>2. /\ \A g \in Handler : hd'[g].thrown => hd[g].thrown /\ g # h
          /\ hd[h].thrown => "lookup" \in faults /\ Thrown /\ ~Thrown'
      BY <1>3 DEF KeptInv, Throws, Thrown
    <3>3. Bit("settle" \in faults') + Bit("lookup" \in faults' /\ ~Thrown')
            >= Bit("settle" \in faults) + Bit("lookup" \in faults /\ ~Thrown) + 1
      <4>1. CASE SettleFails(h)
        <5>1. "settle" \notin faults /\ faults' = faults \union {"settle"}
          BY <4>1 DEF SettleFails, Fault
        <5>2. Thrown' => Thrown
          BY <3>2 DEF Thrown
        <5>3. QED
          BY <5>1, <5>2 DEF Bit
      <4>2. CASE hd[h].thrown /\ ~SettleFails(h)
        BY <1>2, <3>2, <4>2 DEF Bit
      <4>3. QED
        BY <2>2, <4>1, <4>2
    <3>4. \A i \in JobId :
            tries'[i] <= Bit("settle" \in faults') + Bit("lookup" \in faults' /\ ~Thrown')
      BY <1>4, <1>5, <3>1, <3>3
    <3>5. faults \subseteq faults'
      BY <1>2
    <3>6. QED
      BY <3>2, <3>4, <3>5 DEF KeptInv, Throws
  <2>3. QED
    BY <2>1, <2>2
<1>13. StoredOrAlive'
  <2>1. ASSUME NEW e \in Known, status'[e] = "processed",
               ~(stored'[Batch[e][1]] > 0)
        PROVE  \E i \in JobId : i[1] = e /\ Alive(i)'
    <3>1. CASE e = EventAt(h)
      <4>1. CASE hd[h].thrown \/ SettleFails(h)
        <5>1. job'[j] = "waiting"
          BY <1>1, <1>6, <4>1 DEF Base, TypeOK
        <5>2. QED
          BY <1>1, <3>1, <5>1 DEF Alive, EventAt
      <4>2. CASE ~(hd[h].thrown \/ SettleFails(h))
        <5>1. ~(hd[h].errors > 0 /\ hd[h].taken = 0)
          BY <1>1, <1>7, <2>1, <3>1, <4>2 DEF Settle, Base, TypeOK
        <5>2. Progress(hd[h]) /\ hd[h].job[1] = e
          BY <3>1 DEF KeptInv, InProgress, EventAt
        <5>3. stored[Batch[e][1]] > 0
          BY <1>1, <2>1, <4>2, <5>1, <5>2 DEF Progress
        <5>4. QED
          BY <1>2, <2>1, <5>3
      <4>3. QED
        BY <4>1, <4>2
    <3>2. CASE e # EventAt(h)
      <4>1. status[e] = "processed"
        BY <2>1, <3>2, IntakeAssumption DEF Settle, SettleFails, evVars, Base, TypeOK
      <4>2. PICK i \in JobId : i[1] = e /\ Alive(i)
        BY <1>2, <2>1, <4>1 DEF KeptInv, StoredOrAlive
      <4>3. job'[i] = job[i]
        BY <1>8, <3>2, <4>2 DEF EventAt
      <4>4. QED
        BY <4>2, <4>3 DEF Alive
    <3>3. QED
      BY <3>1, <3>2
  <2>2. QED
    BY <2>1 DEF StoredOrAlive
<1>14. QED
  BY <1>9, <1>10, <1>11, <1>12, <1>13 DEF KeptInv

\* A step of a handler.
LEMMA HandlerKept ==
  ASSUME Base, Base', KeptInv, OneEach, Enough, NEW h \in Handler, Handle(h) \/ HandlerFails(h)
  PROVE  KeptInv'
<1>1. CASE LookupFails(h)
  BY <1>1, LookupThrows
<1>2. CASE Settle(h) \/ SettleFails(h)
  BY <1>2, SettleKept
<1>3. CASE ~(LookupFails(h) \/ Settle(h) \/ SettleFails(h))
  <2>1. /\ \A g \in Handler : g # h => hd'[g] = hd[g]
        /\ ~hd'[h].thrown /\ Progress(hd[h])'
        /\ UNCHANGED <<status, tries, stalled>>
        /\ \A m \in Msg : stored[m] <= stored'[m] /\ live'[m] <= stored'[m]
        /\ \A i \in JobId : /\ Alive(i) => Alive(i)'
                            /\ job'[i] = "orphan" => job[i] = "orphan"
    BY <1>3, GoesOn
  <2>2. faults \subseteq faults'
    BY <1>3 DEF Handle, HandlerFails, Take, Lookup, MessageFails, FindContact, CreateContact,
         FindConversation, CreateConversation, LockAndLook, Insert, Fault
  <2>3. WasStored'
    BY <2>1 DEF WasStored
  <2>4. FirstStall'
    BY <2>1, <2>2 DEF KeptInv, FirstStall
  <2>5. InProgress'
    <3>1. ASSUME NEW g \in Handler, g # h PROVE Progress(hd[g])'
      <4>1. PICK r \in HandlerState : r = hd[g] /\ (r.pc # "idle" => InBatch(r)) /\ Progress(r)
        BY DEF Base, TypeOK, AtWork, HandlerState, KeptInv, InProgress
      <4>2. Progress(r)'
        BY <2>1, <4>1, ProgressKept
      <4>3. QED
        BY <2>1, <3>1, <4>1, <4>2
    <3>2. QED
      BY <2>1, <3>1 DEF InProgress
  <2>6. Throws'
    <3>1. \A i \in JobId : tries'[i] <= tries[i]
      BY <2>1 DEF Base, TypeOK
    <3>2. \A g \in Handler : hd'[g].thrown => hd[g].thrown
      BY <2>1
    <3>3. QED
      BY <2>2, <3>1, <3>2, ThrowsKept DEF KeptInv
  <2>7. StoredOrAlive'
    BY <2>1, AliveKept DEF KeptInv
  <2>8. QED
    BY <2>3, <2>4, <2>5, <2>6, <2>7 DEF KeptInv
<1>4. QED
  BY <1>1, <1>2, <1>3

\* Others: no job that is alive ends, and no handler moves but by a stop of its process.
LEMMA ElseKept ==
  ASSUME Base, Base', KeptInv, OneEach, [Next]_vars,
         ~ \E h \in Handler : Handle(h) \/ HandlerFails(h)
  PROVE  KeptInv'
<1> DEFINE Safe ==
      /\ stored' = stored /\ faults \subseteq faults'
      /\ \A m \in Msg : live'[m] <= live[m]
      /\ \A e \in Event : status'[e] = "processed" => status[e] = "processed"
      /\ \A j \in JobId : tries'[j] <= tries[j] /\ (Alive(j) => Alive(j)')
      /\ \A h \in Handler : hd'[h] = hd[h] \/ hd'[h] = IdleHandler
      /\ FirstStall'
<1>1. /\ \A m \in Msg : live[m] \in Nat /\ stored[m] \in Nat /\ live'[m] \in Nat
      /\ \A j \in JobId : tries[j] \in Nat
      /\ WasStored /\ FirstStall /\ InProgress /\ Throws /\ StoredOrAlive
  BY DEF Base, TypeOK, KeptInv
<1>2. ASSUME NEW j, Add(j), UNCHANGED <<stalled, faults>>
      PROVE  (\A i \in JobId : Alive(i) => Alive(i)') /\ FirstStall'
  <2>1. \A i \in JobId : job'[i] = job[i] \/ (job[i] = "none" /\ job'[i] = "waiting")
    BY <1>2 DEF Add, Base, TypeOK
  <2>2. QED
    BY <1>1, <1>2, <2>1 DEF Alive, FirstStall
<1>3. ASSUME NEW e \in Event, Receive(e) \/ Enqueue(e) \/ ApiFails(e) \/ ReplayPending(e)
      PROVE  Safe
  <2>1. CASE Receive(e) \/ ApiFails(e)
    BY <1>1, <2>1 DEF Receive, ApiFails, Fault, FirstStall, Alive, Base, TypeOK,
                      evVars, jobVars, dataVars
  <2>2. CASE Enqueue(e)
    BY <1>1, <1>2, <2>2 DEF Enqueue, dataVars
  <2>3. CASE ReplayPending(e)
    BY <1>1, <1>2, <2>3 DEF ReplayPending, evVars, dataVars
  <2>4. QED
    BY <1>3, <2>1, <2>2, <2>3
<1>4. ASSUME NEW j \in JobId, Recover(j) \/ Forget(j)
      PROVE  Safe
  <2>1. CASE Recover(j)
    <3>1. j \notin stalled /\ "crash" \in faults
      BY <1>1, <2>1 DEF Recover, FirstStall
    <3>2. /\ \A i \in JobId : i # j => job'[i] = job[i]
          /\ job'[j] = "waiting" /\ stalled' = stalled \union {j}
      BY <2>1, <3>1 DEF Recover, Base, TypeOK
    <3>3. (\A i \in JobId : Alive(i) => Alive(i)') /\ FirstStall'
      BY <1>1, <2>1, <3>1, <3>2 DEF Recover, Alive, FirstStall
    <3>4. QED
      BY <1>1, <2>1, <3>3 DEF Recover, evVars, dataVars
  <2>2. CASE Forget(j)
    <3>1. /\ \A i \in JobId : i # j => job'[i] = job[i] /\ tries'[i] = tries[i]
          /\ job[j] = "kept" /\ job'[j] = "none" /\ tries'[j] = 0
      BY <2>2 DEF Forget, Base, TypeOK
    <3>2. faults \subseteq faults' /\ stalled' \subseteq stalled
      BY <2>2 DEF Forget, Fault
    <3>3. (\A i \in JobId : Alive(i) => Alive(i)') /\ FirstStall'
      BY <1>1, <3>1, <3>2 DEF Alive, FirstStall
    <3>4. QED
      BY <1>1, <2>2, <3>1, <3>2, <3>3 DEF Forget, evVars, dataVars
  <2>3. QED
    BY <1>4, <2>1, <2>2
<1>5. ASSUME NEW l \in Loop, RetryFailed(l)
      PROVE  Safe
  <2>1. CASE RetryRead(l)
    BY <1>1, <2>1 DEF RetryRead, Alive, FirstStall, evVars, jobVars, dataVars
  <2>2. ASSUME NEW e \in Event, NEW n \in 0..MaxRetries, RetryClaim(l, e, n)
        PROVE  Safe
    <3>1. \A f \in Event : status'[f] = "processed" => status[f] = "processed"
      BY <2>2 DEF RetryClaim, Base, TypeOK
    <3>2. QED
      BY <1>1, <2>2, <3>1 DEF RetryClaim, Alive, FirstStall, jobVars, dataVars
  <2>3. CASE RetryAdd(l)
    BY <1>1, <1>2, <2>3 DEF RetryAdd, evVars, dataVars
  <2>4. QED
    BY <1>5, <2>1, <2>2, <2>3 DEF RetryFailed
<1>6. ASSUME NEW k \in Conv, Resolve(k) PROVE Safe
  BY <1>1, <1>6 DEF Resolve, Fault, Alive, FirstStall, evVars, jobVars
<1>7. ASSUME NEW m \in Msg, Delete(m) PROVE Safe
  <2>1. \A n \in Msg : live'[n] <= live[n]
    BY <1>1, <1>7 DEF Delete, Base, TypeOK
  <2>2. QED
    BY <1>1, <1>7, <2>1 DEF Delete, Fault, Alive, FirstStall, evVars, jobVars
<1>8. ASSUME Crash PROVE Safe
  <2>1. /\ "crash" \notin faults /\ faults' = faults \union {"crash"}
        /\ \A j \in JobId : job'[j] = IF job[j] = "active" THEN "orphan" ELSE job[j]
        /\ \A h \in Handler : hd'[h] = IdleHandler
        /\ UNCHANGED <<evVars, tries, stalled, dataVars>>
    BY <1>8 DEF Crash, Fault
  <2>2. stalled = {}
    BY <1>1, <2>1 DEF FirstStall
  <2>3. FirstStall' /\ \A j \in JobId : Alive(j) => Alive(j)'
    BY <2>1, <2>2 DEF FirstStall, Alive
  <2>4. QED
    BY <1>1, <2>1, <2>3 DEF evVars, dataVars
<1>9. ASSUME Boot \/ UNCHANGED vars PROVE Safe
  BY <1>1, <1>9 DEF Boot, vars, Alive, FirstStall, evVars, jobVars, dataVars
<1>10. Safe
  BY <1>3, <1>4, <1>5, <1>6, <1>7, <1>8, <1>9 DEF Next
<1>11. WasStored'
  BY <1>1, <1>10 DEF WasStored
<1>12. InProgress'
  <2>1. Progress(IdleHandler)'
    BY DEF Progress, IdleHandler
  <2>2. \A h \in Handler : hd'[h] = hd[h] \/ hd'[h] = IdleHandler
    BY <1>10
  <2>3. QED
    BY <1>1, <1>10, <2>1, <2>2 DEF InProgress, Progress
<1>13. Throws'
  <2>1. ~IdleHandler.thrown
    BY DEF IdleHandler
  <2>2. QED
    BY <1>1, <1>10, <2>1, ThrowsKept
<1>14. StoredOrAlive'
  <2>1. \A m \in Msg : stored[m] <= stored'[m]
    BY <1>1, <1>10
  <2>2. QED
    BY <1>1, <1>10, <2>1, AliveKept
<1>15. QED
  BY <1>10, <1>11, <1>12, <1>13, <1>14 DEF KeptInv

\* No message of a known channel is forgotten, for any number of events, repeats, handlers
\* and retries: an event marked processed has its message stored, or a job that is to run
\* again.  It holds of notifications of one message with three attempts to a job: of
\* several messages one may fail and the event pass as processed (finally block of
\* handleWhatsAppInbound).
THEOREM MessageNotForgotten ==
  ASSUME OneEach, Enough
  PROVE  Spec => []NotForgotten
<1>1. Base /\ KeptInv /\ [Next]_vars => KeptInv'
  <2>1. SUFFICES ASSUME Base, KeptInv, [Next]_vars PROVE KeptInv'
    OBVIOUS
  <2>2. Base'
    BY <2>1, BaseStep
  <2>3. CASE \E h \in Handler : Handle(h) \/ HandlerFails(h)
    BY <2>1, <2>2, <2>3, HandlerKept
  <2>4. CASE ~ \E h \in Handler : Handle(h) \/ HandlerFails(h)
    BY <2>1, <2>2, <2>4, ElseKept
  <2>5. QED
    BY <2>3, <2>4
<1>2. Base /\ [Next]_vars => Base'
  BY BaseStep
<1>3. Base /\ KeptInv => NotForgotten
  <2>1. SUFFICES ASSUME StoredOrAlive, NEW e \in Known, status[e] = "processed"
                 PROVE  \/ \A i \in 1..Len(Batch[e]) : stored[Batch[e][i]] > 0
                        \/ \E j \in JobId : j[1] = e /\ Alive(j)
    BY DEF KeptInv, NotForgotten
  <2>2. Len(Batch[e]) = 1
    BY IntakeAssumption DEF OneEach
  <2>3. QED
    BY <2>1, <2>2 DEF StoredOrAlive
<1>4. QED
  BY TypeInit, KeptInit, <1>1, <1>2, <1>3, PTL DEF Spec

============================================================================
