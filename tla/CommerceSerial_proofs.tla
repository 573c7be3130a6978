----------------------- MODULE CommerceSerial_proofs -----------------------
(***************************************************************************)
(* What Commerce promises when requests come one after the other: the      *)
(* stock's columns agree with the reservations, no more is promised than   *)
(* there is, and the variant implements StockLedger.  For every number of  *)
(* orders, reservations and events, and a request that may stop anywhere.  *)
(***************************************************************************)
EXTENDS Commerce_proofs, FunctionTheorems

\* No two requests at a time.
Serial == \A r, s \in Req : r = s

-----------------------------------------------------------------------------
(* Sums: the units of a set of reservations are counted one by one. *)

Units(rs, f) == {u \in rs \X (1..MaxQty) : u[2] <= f[u[1]]}
Count(rs, f) == Cardinality(Units(rs, f))

Quantity == [Rid -> 0..MaxQty]

LEMMA TotalCounts == \A rs : Total(rs) = Count(rs, resQty)
BY DEF Total, Count, Units

LEMMA UnitsFinite ==
  ASSUME NEW rs \in SUBSET Rid, NEW f
  PROVE  IsFiniteSet(Units(rs, f)) /\ Count(rs, f) \in Nat
<1>1. IsFiniteSet(rs \X (1..MaxQty))
  <2>1. IsFiniteSet(rs)
    BY CommerceAssumption, FS_Subset
  <2>2. IsFiniteSet(1..MaxQty)
    BY CommerceAssumption, FS_Interval
  <2>3. QED
    BY <2>1, <2>2, FS_Product
<1>2. IsFiniteSet(Units(rs, f))
  BY <1>1, FS_Subset DEF Units
<1>3. QED
  BY <1>2, FS_CardinalityType DEF Count

\* The units of disjoint sets add up.
LEMMA CountUnion ==
  ASSUME NEW A \in SUBSET Rid, NEW B \in SUBSET Rid, A \intersect B = {}, NEW f
  PROVE  Count(A \union B, f) = Count(A, f) + Count(B, f)
<1>1. Units(A \union B, f) = Units(A, f) \union Units(B, f)
  BY DEF Units
<1>2. Units(A, f) \intersect Units(B, f) = {}
  BY DEF Units
<1>3. /\ IsFiniteSet(Units(A, f)) /\ IsFiniteSet(Units(B, f))
      /\ Cardinality(Units(A, f)) \in Nat /\ Cardinality(Units(B, f)) \in Nat
  BY UnitsFinite DEF Count
<1>4. Cardinality(Units(A, f) \union Units(B, f))
        = Cardinality(Units(A, f)) + Cardinality(Units(B, f)) - Cardinality({})
  BY <1>2, <1>3, FS_Union
<1>5. Cardinality({}) = 0
  BY FS_EmptySet
<1>6. Count(A \union B, f) = Cardinality(Units(A, f) \union Units(B, f))
  BY <1>1, Zenon DEF Count
<1>7. Count(A \union B, f) = Count(A, f) + Count(B, f) - 0
  BY <1>4, <1>5, <1>6, Zenon DEF Count
<1>8. QED
  BY <1>3, <1>7 DEF Count

LEMMA CountRemove ==
  ASSUME NEW A \in SUBSET Rid, NEW B \in SUBSET A, NEW f
  PROVE  /\ Count(A \ B, f) = Count(A, f) - Count(B, f)
         /\ Count(B, f) <= Count(A, f)
<1>1. A = (A \ B) \union B /\ (A \ B) \intersect B = {} /\ A \ B \in SUBSET Rid /\ B \in SUBSET Rid
  OBVIOUS
<1>2. Count(A, f) = Count(A \ B, f) + Count(B, f)
  BY <1>1, CountUnion
<1>3. QED
  BY <1>1, <1>2, UnitsFinite

\* A reservation counts its quantity.
LEMMA CountOne ==
  ASSUME NEW i \in Rid, NEW f, f[i] \in 0..MaxQty
  PROVE  Count({i}, f) = f[i]
<1> DEFINE g == [n \in 1..f[i] |-> <<i, n>>]
<1>1. MaxQty \in Nat
  BY CommerceAssumption
<1>2. g \in [1..f[i] -> Units({i}, f)]
  BY <1>1 DEF Units
<1>3. \A a, b \in 1..f[i] : g[a] = g[b] => a = b
  OBVIOUS
<1>4. \A u \in Units({i}, f) : \E n \in 1..f[i] : g[n] = u
  <2> SUFFICES ASSUME NEW u \in Units({i}, f)
               PROVE  \E n \in 1..f[i] : g[n] = u
    OBVIOUS
  <2>1. u = <<i, u[2]>> /\ u[2] \in 1..f[i]
    BY <1>1 DEF Units
  <2>2. g[u[2]] = u
    BY <2>1
  <2>3. QED
    BY <2>1, <2>2
<1>5. g \in Bijection(1..f[i], Units({i}, f))
  BY <1>2, <1>3, <1>4, Fun_IsBij
<1>6. Cardinality(Units({i}, f)) = Cardinality(1..f[i])
  BY <1>1, <1>5, FS_Interval, FS_Bijection DEF ExistsBijection
<1>7. QED
  BY <1>1, <1>6, FS_Interval DEF Count

LEMMA CountSame ==
  ASSUME NEW rs, NEW f, NEW g, \A i \in rs : f[i] = g[i]
  PROVE  Count(rs, f) = Count(rs, g)
<1>1. Units(rs, f) = Units(rs, g)
  BY DEF Units
<1>2. QED
  BY <1>1 DEF Count

LEMMA CountNone == \A f : Count({}, f) = 0
<1>1. \A f : Units({}, f) = {}
  BY DEF Units
<1>2. QED
  BY <1>1, FS_EmptySet DEF Count

\* Counted order by order, with at most m units for each, the units are the same.
OwnOf(rs, of, o) == {i \in rs : of[i] = o}
HeldUnits(h, m)  == {u \in Order \X (1..m) : u[2] <= h[u[1]]}
Pairing(rs, f, of, h, o) == Bijection(1..h[o], Units(OwnOf(rs, of, o), f))

LEMMA Pairings ==
  ASSUME NEW rs \in SUBSET Rid, NEW f, NEW of, NEW h,
         \A o \in Order : h[o] = Count(OwnOf(rs, of, o), f)
  PROVE  \E b : \A o \in Order : b[o] \in Pairing(rs, f, of, h, o)
<1>1. \A o \in Order : \E g : g \in Pairing(rs, f, of, h, o)
  <2> SUFFICES ASSUME NEW o \in Order
               PROVE  \E g : g \in Pairing(rs, f, of, h, o)
    OBVIOUS
  <2>1. OwnOf(rs, of, o) \in SUBSET Rid
    BY DEF OwnOf
  <2>2. IsFiniteSet(Units(OwnOf(rs, of, o), f)) /\ h[o] = Cardinality(Units(OwnOf(rs, of, o), f))
    BY <2>1, UnitsFinite DEF Count
  <2>3. ExistsBijection(1..h[o], Units(OwnOf(rs, of, o), f))
    BY <2>2, FS_CardinalityType
  <2>4. QED
    BY <2>3 DEF ExistsBijection, Pairing
<1> DEFINE b == [o \in Order |-> CHOOSE g : g \in Pairing(rs, f, of, h, o)]
<1>2. \A o \in Order : b[o] \in Pairing(rs, f, of, h, o)
  BY <1>1
<1>3. QED
  BY <1>2

LEMMA PairingIs ==
  ASSUME NEW rs, NEW f, NEW of, NEW h, NEW o, NEW g \in Pairing(rs, f, of, h, o)
  PROVE  /\ g \in [1..h[o] -> Units(OwnOf(rs, of, o), f)]
         /\ \A x, y \in 1..h[o] : g[x] = g[y] => x = y
         /\ \A t \in Units(OwnOf(rs, of, o), f) : \E s \in 1..h[o] : g[s] = t
<1> DEFINE D == 1..h[o]
           E == Units(OwnOf(rs, of, o), f)
<1>1. g \in Bijection(D, E)
  BY DEF Pairing
<1> HIDE DEF D, E
<1>2. /\ g \in [D -> E]
      /\ \A x, y \in D : g[x] = g[y] => x = y
      /\ \A t \in E : \E s \in D : g[s] = t
  BY <1>1, Fun_BijectionProperties
<1>3. QED
  BY <1>2 DEF D, E

LEMMA CountByOrder ==
  ASSUME NEW rs \in SUBSET Rid, NEW f, NEW of, \A i \in rs : of[i] \in Order,
         NEW m \in Nat, NEW h,
         \A o \in Order : h[o] = Count(OwnOf(rs, of, o), f) /\ h[o] <= m
  PROVE  Cardinality(HeldUnits(h, m)) = Count(rs, f)
<1>1. \A o \in Order : h[o] \in 0..m
  <2>1. \A o \in Order : OwnOf(rs, of, o) \in SUBSET Rid
    BY DEF OwnOf
  <2>2. QED
    BY <2>1, UnitsFinite
<1>2. PICK b : \A o \in Order : b[o] \in Pairing(rs, f, of, h, o)
  BY Pairings
<1>3. \A o \in Order :
        /\ b[o] \in [1..h[o] -> Units(OwnOf(rs, of, o), f)]
        /\ \A x, y \in 1..h[o] : b[o][x] = b[o][y] => x = y
        /\ \A t \in Units(OwnOf(rs, of, o), f) : \E s \in 1..h[o] : b[o][s] = t
  BY <1>2, PairingIs
<1> DEFINE Held == HeldUnits(h, m)
           F    == [u \in Held |-> b[u[1]][u[2]]]
<1>4. \A u \in Held : u[1] \in Order /\ u[2] \in 1..h[u[1]] /\ u = <<u[1], u[2]>>
  BY <1>1 DEF HeldUnits
<1> HIDE DEF Held
<1>5. \A u \in Held : F[u] = b[u[1]][u[2]] /\ F[u] \in Units(OwnOf(rs, of, u[1]), f)
  <2> SUFFICES ASSUME NEW u \in Held
               PROVE  F[u] = b[u[1]][u[2]] /\ F[u] \in Units(OwnOf(rs, of, u[1]), f)
    OBVIOUS
  <2>1. F[u] = b[u[1]][u[2]]
    OBVIOUS
  <2>2. u[1] \in Order /\ u[2] \in 1..h[u[1]]
    BY <1>4
  <2>3. b[u[1]] \in [1..h[u[1]] -> Units(OwnOf(rs, of, u[1]), f)]
    BY <1>3, <2>2
  <2> HIDE DEF F
  <2>4. QED
    BY <2>1, <2>2, <2>3
<1>6. \A o \in Order : Units(OwnOf(rs, of, o), f) \subseteq Units(rs, f)
  BY DEF Units, OwnOf
<1>7. F \in [Held -> Units(rs, f)]
  BY <1>4, <1>5, <1>6
<1>8. \A u, v \in Held : F[u] = F[v] => u = v
  <2> SUFFICES ASSUME NEW u \in Held, NEW v \in Held, F[u] = F[v]
               PROVE  u = v
    OBVIOUS
  <2>1. \A o : \A t \in Units(OwnOf(rs, of, o), f) : of[t[1]] = o
    BY DEF Units, OwnOf
  <2>2. of[F[u][1]] = u[1] /\ of[F[v][1]] = v[1]
    BY <1>5, <2>1
  <2>3. u[1] = v[1]
    BY <2>2
  <2>4. b[u[1]][u[2]] = b[u[1]][v[2]]
    BY <1>5, <2>3
  <2>5. u[2] = v[2]
    BY <1>3, <1>4, <2>3, <2>4
  <2>6. QED
    BY <1>4, <2>3, <2>5
<1>9. \A t \in Units(rs, f) : \E u \in Held : F[u] = t
  <2> SUFFICES ASSUME NEW t \in Units(rs, f)
               PROVE  \E u \in Held : F[u] = t
    OBVIOUS
  <2>1. PICK o \in Order : o = of[t[1]] /\ t[1] \in rs
    BY DEF Units
  <2>2. t \in Units(OwnOf(rs, of, o), f)
    BY <2>1 DEF Units, OwnOf
  <2>3. PICK n \in 1..h[o] : b[o][n] = t
    BY <1>3, <2>2
  <2>4. n \in 1..m /\ n <= h[o]
    BY <1>1, <2>3
  <2>5. <<o, n>> \in Held
    BY <2>4 DEF Held, HeldUnits
  <2>6. F[<<o, n>>] = t
    BY <2>3, <2>5
  <2>7. QED
    BY <2>5, <2>6
<1> HIDE DEF F
<1>10. F \in Bijection(Held, Units(rs, f))
  BY <1>7, <1>8, <1>9, Fun_IsBij
<1>11. IsFiniteSet(Held)
  BY <1>10, UnitsFinite, FS_Injection, Fun_BijectionProperties
<1>12. Cardinality(Held) = Count(rs, f)
  BY <1>10, <1>11, FS_Bijection DEF ExistsBijection, Count
<1>13. QED
  BY <1>12 DEF Held

-----------------------------------------------------------------------------
(* The invariant of requests that do not overlap. *)

\* The steps between a read of an order's active reservations and the commit.
Reading == {"co_var", "co_commit", "ca_var", "ca_commit"} \union PaidTx \union ClosingTx

\* What a request has read is what the rows still say, and its order's item
\* has a quantity.
LocalsFresh(x) ==
  /\ x.pc \in OrderPC => cart[x.o] > 0
  /\ x.pc \in {"co_resv", "co_var", "co_commit"} => x.q > 0
  /\ x.pc \in Reading => x.rs = ActiveOf(x.o)
  /\ x.pc \in {"co_commit", "adj_commit"} => x.v = CurrentStock
  /\ x.pc \in {"ca_commit", "pd_commit", "wx_commit"} => x.rs = {} \/ x.v = CurrentStock
  /\ x.pc = "nt_create" => notified[x.o][x.k] = 0

\* An order of the journey has an item.
CartFilled == \A o \in Order : phase[o] # "none" \/ nInv[o] > 0 => cart[o] > 0

\* An active reservation belongs to an order.
ActiveOwned == \A i \in AllActive : resOrder[i] \in Order

StockInv == ReservedMatchesActive /\ NoOversell /\ ActiveOwned

SerialInv ==
  /\ Serial
  /\ TypeInv
  /\ StockInv
  /\ NotifiedOnce
  /\ CartFilled
  /\ \A r \in Req : LocalsFresh(req[r])

LEMMA SerialInit == Serial /\ Init => SerialInv
<1> SUFFICES ASSUME Serial, Init PROVE SerialInv
  OBVIOUS
<1>1. AllActive = {}
  BY DEF Init, AllActive
<1>2. Total({}) = 0
  BY TotalCounts, CountNone
<1>3. StockInv
  BY <1>1, <1>2, CommerceAssumption DEF Init, StockInv, ReservedMatchesActive, NoOversell, ActiveOwned
<1>4. \A r \in Req : LocalsFresh(req[r])
  BY DEF Init, Idle, LocalsFresh, OrderPC, Reading, PaidTx, ClosingTx
<1>5. NotifiedOnce /\ CartFilled
  BY DEF Init, NotifiedOnce, CartFilled
<1>6. QED
  BY <1>3, <1>4, <1>5, TypeInit DEF SerialInv

\* A step of the only request, or of the provider, is known by what it leaves.
LEMMA SerialStepOf ==
  ASSUME SerialInv, [Next]_vars, NEW r \in Req, StockInv', NotifiedOnce', CartFilled',
         LocalsFresh(req[r])'
  PROVE  SerialInv'
<1>1. TypeInv'
  BY TypeStep DEF SerialInv
<1>2. \A s \in Req : s = r
  BY DEF SerialInv, Serial
<1>3. \A s \in Req : LocalsFresh(req[s])'
  BY <1>2
<1>4. QED
  BY <1>1, <1>3 DEF SerialInv, Serial

\* A step that leaves the stock and the reservations alone.
LEMMA StockLeft ==
  ASSUME StockInv, UNCHANGED stkVars
  PROVE  /\ StockInv'
         /\ CurrentStock' = CurrentStock
         /\ \A o : ActiveOf(o)' = ActiveOf(o)
<1>1. AllActive' = AllActive /\ CurrentStock' = CurrentStock /\ \A o : ActiveOf(o)' = ActiveOf(o)
  BY DEF stkVars, AllActive, CurrentStock, ActiveOf
<1>2. Total(AllActive)' = Total(AllActive)
  BY <1>1 DEF Total, stkVars
<1>3. QED
  BY <1>1, <1>2 DEF StockInv, ReservedMatchesActive, NoOversell, ActiveOwned, stkVars

\* A step that only moves the request on.
LEMMA RequestMoves ==
  ASSUME SerialInv, [Next]_vars, NEW r \in Req, UNCHANGED <<stkVars, notified, cart>>, CartFilled',
         LocalsFresh(req'[r])
  PROVE  SerialInv'
<1>1. /\ StockInv'
      /\ CurrentStock' = CurrentStock
      /\ \A o : ActiveOf(o)' = ActiveOf(o)
  BY StockLeft DEF SerialInv
<1>2. NotifiedOnce'
  BY DEF SerialInv, NotifiedOnce
<1>3. LocalsFresh(req[r])'
  BY <1>1 DEF LocalsFresh
<1>4. QED
  BY <1>1, <1>2, <1>3, SerialStepOf

-----------------------------------------------------------------------------
(* The steps of a request that touch neither the stock nor a message. *)

LEMMA StartSerial ==
  ASSUME SerialInv, [Next]_vars, NEW r \in Req, Start(r)
  PROVE  SerialInv'
<1>1. TypeOK
  BY DEF SerialInv, TypeInv
<1>2. CASE \E o \in Order : CreateOrder(r, o)
  <2>1. /\ UNCHANGED <<stkVars, notified, req, nInv>>
        /\ CartFilled'
        /\ \A o \in Order : cart[o] > 0 => cart'[o] > 0
    BY <1>1, <1>2 DEF CreateOrder, SerialInv, CartFilled, TypeOK
  <2>2. /\ StockInv'
        /\ CurrentStock' = CurrentStock
        /\ \A o : ActiveOf(o)' = ActiveOf(o)
    BY <2>1, StockLeft DEF SerialInv
  <2>3. LocalsFresh(req[r]) /\ LocalsOK(req[r], nInv)
    BY DEF SerialInv, TypeInv
  <2>4. LocalsFresh(req[r])'
    BY <2>1, <2>2, <2>3 DEF LocalsFresh, LocalsOK
  <2>5. NotifiedOnce'
    BY <2>1 DEF SerialInv, NotifiedOnce
  <2>6. QED
    BY <2>1, <2>2, <2>4, <2>5, SerialStepOf
<1>3. CASE ~\E o \in Order : CreateOrder(r, o)
  <2>1. UNCHANGED <<dbVars, stkVars, notified>>
    BY <1>3 DEF Start, AddToCart, Checkout, SendPaymentLink, CancelOrder, AdjustStock,
                Webhook, WebhookIdempotent
  <2>2. CartFilled'
    BY <2>1 DEF SerialInv, CartFilled, dbVars
  <2>3. LocalsFresh(req'[r])
    <3>1. ASSUME NEW o \in Order, AddToCart(r, o) \/ Checkout(r, o) \/ SendPaymentLink(r, o) \/ CancelOrder(r, o)
          PROVE  LocalsFresh(req'[r])
      <4>1. cart[o] > 0
        BY <3>1 DEF AddToCart, Checkout, SendPaymentLink, CancelOrder, Open, SerialInv, CartFilled
      <4>2. /\ req'[r].pc \in {"ac_commit", "co_resv", "sp_inv", "ca_inv"} /\ req'[r].o = o
            /\ req'[r].pc = "co_resv" => req'[r].q = cart[o]
        <5>1. CASE AddToCart(r, o)
          BY <1>1, <5>1 DEF AddToCart, Idle, TypeOK
        <5>2. CASE Checkout(r, o)
          BY <1>1, <5>2 DEF Checkout, Idle, TypeOK
        <5>3. CASE SendPaymentLink(r, o)
          BY <1>1, <5>3 DEF SendPaymentLink, Idle, TypeOK
        <5>4. CASE CancelOrder(r, o)
          BY <1>1, <5>4 DEF CancelOrder, Idle, TypeOK
        <5>5. QED
          BY <3>1, <5>1, <5>2, <5>3, <5>4
      <4>3. QED
        BY <4>1, <4>2 DEF LocalsFresh, Reading, PaidTx, ClosingTx
    <3>2. CASE AdjustStock(r)
      BY <1>1, <3>2 DEF AdjustStock, Idle, TypeOK, LocalsFresh, OrderPC, Reading, PaidTx, ClosingTx
    <3>3. ASSUME NEW e \in Event, Webhook(r, e)
          PROVE  LocalsFresh(req'[r])
      BY <1>1, <3>3 DEF Webhook, Idle, TypeOK, LocalsFresh, OrderPC, Reading, PaidTx, ClosingTx
    <3>4. ASSUME NEW e \in Event, WebhookIdempotent(r, e), req' # req
          PROVE  LocalsFresh(req'[r])
      <4>1. PICK k \in 1..nInv[EventOf[e]] :
              /\ EventOf[e] \in Order
              /\ req' = [req EXCEPT ![r] = [Idle EXCEPT !.pc = "nt_check", !.o = EventOf[e],
                                                        !.e = e, !.k = k]]
        BY <3>4 DEF WebhookIdempotent
      <4>2. cart[EventOf[e]] > 0
        BY <1>1, <4>1 DEF SerialInv, CartFilled, TypeOK
      <4>3. QED
        BY <1>1, <4>1, <4>2 DEF Idle, TypeOK, LocalsFresh, OrderPC, Reading, PaidTx, ClosingTx
    <3>5. CASE req' = req
      BY <3>5 DEF SerialInv
    <3>6. QED
      BY <1>3, <3>1, <3>2, <3>3, <3>4, <3>5 DEF Start
  <2>4. QED
    BY <2>1, <2>2, <2>3, RequestMoves DEF dbVars
<1>4. QED
  BY <1>2, <1>3

\* What is left of a request when it ends.
LEMMA IdleFresh == LocalsFresh(Idle)
BY DEF Idle, LocalsFresh, OrderPC, Reading, PaidTx, ClosingTx

\* A step of the request that changes no cart, phase, stock or message and
\* takes no order up for the first time.
LEMMA ReadSerial ==
  ASSUME SerialInv, [Next]_vars, NEW r \in Req,
         \/ CheckoutReservations(r) \/ CheckoutVariant(r) \/ CheckoutRejected(r)
         \/ LinkInvoices(r) \/ CreateTransaction(r)
         \/ CancelInvoices(r) \/ CancelTransaction(r) \/ CancelReservations(r) \/ CancelVariant(r)
         \/ WebhookUpsert(r) \/ WebhookNotFound(r) \/ WebhookVerify(r)
         \/ PaidRead(r) \/ PaidLock(r) \/ PaidVariant(r) \/ ClosingLock(r) \/ ClosingVariant(r)
         \/ NotifyLook(r) \/ NotifyFailed(r) \/ WebhookDone(r) \/ Fail(r)
  PROVE  SerialInv'
<1>1. req \in [Req -> Request] /\ LocalsFresh(req[r]) /\ req[r] \in Request /\ LocalsOK(req[r], nInv)
  BY DEF SerialInv, TypeInv, TypeOK
<1>2. UNCHANGED <<phase, cart, nInv, stkVars, notified>>
  BY DEF CheckoutReservations, CheckoutVariant, CheckoutRejected, LinkInvoices, CreateTransaction,
         CancelInvoices, CancelTransaction, CancelReservations, CancelVariant, WebhookUpsert,
         WebhookNotFound, WebhookVerify, PaidRead, PaidLock, PaidVariant, ClosingLock,
         ClosingVariant, NotifyLook, NotifyFailed, WebhookDone, Fail, dbVars
<1>3. CartFilled'
  BY <1>2 DEF SerialInv, CartFilled
<1>4. LocalsFresh(req'[r])
  <2>1. CASE CheckoutRejected(r) \/ WebhookNotFound(r) \/ WebhookDone(r) \/ Fail(r)
    BY <1>1, <2>1, IdleFresh DEF CheckoutRejected, WebhookNotFound, WebhookDone, Fail, Finish
  <2>2. CASE CheckoutReservations(r) \/ CheckoutVariant(r)
    BY <1>1, <2>2 DEF CheckoutReservations, CheckoutVariant, At, LocalsFresh, OrderPC, PC, Reading,
                      PaidTx, ClosingTx, Request
  <2>3. CASE LinkInvoices(r)
    BY <1>1, <2>3, IdleFresh DEF LinkInvoices, Finish, At, LocalsFresh, OrderPC, PC, Reading,
                                 PaidTx, ClosingTx, Request
  <2>4. CASE CreateTransaction(r) \/ CancelInvoices(r) \/ CancelTransaction(r)
    BY <1>1, <2>4 DEF CreateTransaction, CancelInvoices, CancelTransaction, At, LocalsFresh,
                      OrderPC, PC, Reading, PaidTx, ClosingTx, Request
  <2>5. CASE CancelReservations(r) \/ CancelVariant(r)
    BY <1>1, <2>5 DEF CancelReservations, CancelVariant, StockReadFor, At, LocalsFresh, OrderPC, PC,
                      Reading, PaidTx, ClosingTx, Request
  <2>6. CASE WebhookUpsert(r)
    BY <1>1, <2>6, IdleFresh DEF WebhookUpsert, Finish, At, LocalsFresh, OrderPC, PC, Reading,
                                 PaidTx, ClosingTx, Request
  <2>7. CASE WebhookVerify(r) \/ PaidRead(r)
    BY <1>1, <2>7 DEF WebhookVerify, PaidRead, At, LocalsFresh, OrderPC, PC, Reading,
                      PaidTx, ClosingTx, Request
  <2>8. CASE PaidLock(r) \/ PaidVariant(r)
    BY <1>1, <2>8 DEF PaidLock, PaidVariant, StockReadFor, At, LocalsFresh, OrderPC, PC, Reading,
                      PaidTx, ClosingTx, Request
  <2>9. CASE ClosingLock(r) \/ ClosingVariant(r)
    BY <1>1, <2>9 DEF ClosingLock, ClosingVariant, StockReadFor, At, LocalsFresh, OrderPC, PC,
                      Reading, PaidTx, ClosingTx, Request
  <2>10. CASE NotifyLook(r) \/ NotifyFailed(r)
    <3>1. req[r].o \in Order /\ req[r].k \in InvNo
      BY <1>1, <2>10, CommerceAssumption DEF NotifyLook, NotifyFailed, LocalsOK, OrderPC, InvoicePC, PC, SerialInv,
                         TypeInv, TypeOK, InvNo, At
    <3>2. notified[req[r].o][req[r].k] \in Nat
      BY <3>1 DEF SerialInv, TypeInv, TypeOK
    <3>3. QED
      BY <1>1, <2>10, <3>2 DEF NotifyLook, NotifyFailed, At, LocalsFresh, OrderPC, PC, Reading,
                               PaidTx, ClosingTx, Request
  <2>11. QED
    BY <2>1, <2>2, <2>3, <2>4, <2>5, <2>6, <2>7, <2>8, <2>9, <2>10
<1>5. QED
  BY <1>2, <1>3, <1>4, RequestMoves

\* A notification is given the order and the invoice it is about.
LEMMA WebhookFindSerial ==
  ASSUME SerialInv, [Next]_vars, NEW r \in Req, WebhookFind(r)
  PROVE  SerialInv'
<1>1. TypeOK /\ req[r] \in Request
  BY DEF SerialInv, TypeInv, TypeOK
<1>2. PICK k \in 1..nInv[req[r].o] :
        req' = [req EXCEPT ![r].k = k,
                           ![r].pc = IF Linked(req[r].o) = {} THEN "fb_verify" ELSE "wh_verify"]
  BY DEF WebhookFind
<1>3. req[r].o \in Order /\ UNCHANGED <<phase, cart, nInv, stkVars, notified>>
  BY DEF WebhookFind
<1>4. cart[req[r].o] > 0
  BY <1>1, <1>2, <1>3 DEF SerialInv, CartFilled, TypeOK
<1>5. LocalsFresh(req'[r])
  BY <1>1, <1>2, <1>4 DEF TypeOK, Request, LocalsFresh, OrderPC, Reading, PaidTx, ClosingTx
<1>6. CartFilled'
  BY <1>3 DEF SerialInv, CartFilled
<1>7. QED
  BY <1>3, <1>5, <1>6, RequestMoves

-----------------------------------------------------------------------------
(* What the commits do to the sums. *)

\* An order's reservations are among those that reserved counts.
LEMMA OrderShare ==
  ASSUME TypeOK, NEW o
  PROVE  /\ ActiveOf(o) \in SUBSET AllActive /\ AllActive \in SUBSET Rid
         /\ Total(ActiveOf(o)) \in Nat /\ Total(AllActive) \in Nat
         /\ Total(ActiveOf(o)) <= Total(AllActive)
         /\ ActiveOf(o) = {} => Total(ActiveOf(o)) = 0
<1>1. ActiveOf(o) \in SUBSET AllActive /\ AllActive \in SUBSET Rid
  BY DEF ActiveOf, AllActive
<1>2. Count(ActiveOf(o), resQty) <= Count(AllActive, resQty)
  BY <1>1, CountRemove
<1>3. Total(ActiveOf(o)) \in Nat /\ Total(AllActive) \in Nat
  BY <1>1, TotalType
<1>4. Total({}) = 0
  BY TotalCounts, CountNone
<1>5. QED
  BY <1>1, <1>2, <1>3, <1>4, TotalCounts

\* An order's reservations are released or finalized.
LEMMA Dropped ==
  ASSUME TypeOK, NEW o, NEW s \in {"released", "finalized"},
         resStatus' = [i \in Rid |-> IF i \in ActiveOf(o) THEN s ELSE resStatus[i]],
         UNCHANGED <<resOrder, resQty>>
  PROVE  /\ AllActive' = AllActive \ ActiveOf(o)
         /\ Total(AllActive)' = Total(AllActive) - Total(ActiveOf(o))
         /\ Total(ActiveOf(o))' = 0
         /\ \A p \in Order : p # o => Total(ActiveOf(p))' = Total(ActiveOf(p))
<1>1. AllActive' = AllActive \ ActiveOf(o)
  BY DEF AllActive, ActiveOf
<1>2. ActiveOf(o)' = {} /\ \A p \in Order : p # o => ActiveOf(p)' = ActiveOf(p)
  BY DEF ActiveOf
<1>3. ActiveOf(o) \in SUBSET AllActive /\ AllActive \in SUBSET Rid
  BY OrderShare
<1>5. Count(AllActive \ ActiveOf(o), resQty) = Count(AllActive, resQty) - Count(ActiveOf(o), resQty)
  BY <1>3, CountRemove
<1>6. Total(AllActive)' = Count(AllActive \ ActiveOf(o), resQty)
  BY <1>1 DEF Total, Count, Units
<1>7. Total(ActiveOf(o))' = Count({}, resQty)
  BY <1>2 DEF Total, Count, Units
<1>8. \A p \in Order : p # o => Total(ActiveOf(p))' = Total(ActiveOf(p))
  BY <1>2 DEF Total
<1>9. QED
  BY <1>1, <1>5, <1>6, <1>7, <1>8, TotalCounts, CountNone

\* An order's reservations are replaced by one of q units.
LEMMA Replaced ==
  ASSUME TypeOK, NEW o \in Order, NEW i \in Rid, resStatus[i] = "none", NEW q \in 0..MaxQty,
         resStatus' = [j \in Rid |-> IF j = i THEN "active"
                                     ELSE IF j \in ActiveOf(o) THEN "released" ELSE resStatus[j]],
         resOrder' = [resOrder EXCEPT ![i] = o],
         resQty' = [resQty EXCEPT ![i] = q]
  PROVE  /\ AllActive' = (AllActive \ ActiveOf(o)) \union {i}
         /\ Total(AllActive)' = Total(AllActive) - Total(ActiveOf(o)) + q
         /\ Total(ActiveOf(o))' = q
         /\ \A p \in Order : p # o => Total(ActiveOf(p))' = Total(ActiveOf(p))
<1> DEFINE rest == AllActive \ ActiveOf(o)
<1>1. AllActive' = rest \union {i}
  BY DEF AllActive, ActiveOf
<1>2. ActiveOf(o)' = {i} /\ \A p \in Order : p # o => ActiveOf(p)' = ActiveOf(p)
  BY DEF ActiveOf, TypeOK
<1>3. i \notin AllActive /\ \A p : i \notin ActiveOf(p)
  BY DEF AllActive, ActiveOf
<1>4. ActiveOf(o) \in SUBSET AllActive /\ AllActive \in SUBSET Rid
  BY OrderShare
<1>5. Total(AllActive)' = Count(rest \union {i}, resQty')
  BY <1>1 DEF Total, Count, Units
<1>6. rest \in SUBSET Rid /\ {i} \in SUBSET Rid /\ rest \intersect {i} = {}
  BY <1>3, <1>4
<1> HIDE DEF rest
<1>7. Count(rest \union {i}, resQty') = Count(rest, resQty') + Count({i}, resQty')
  BY <1>6, CountUnion
<1>8. resQty'[i] = q /\ \A j \in Rid : j # i => resQty'[j] = resQty[j]
  BY DEF TypeOK
<1>9. Count({i}, resQty') = q
  BY <1>8, CountOne
<1>10. \A j \in rest : resQty'[j] = resQty[j]
  BY <1>3, <1>4, <1>8 DEF rest
<1>11. Count(rest, resQty') = Count(rest, resQty)
  BY <1>10, CountSame
<1>12. Count(rest, resQty) = Count(AllActive, resQty) - Count(ActiveOf(o), resQty)
  BY <1>4, CountRemove DEF rest
<1>13. Total(AllActive)' = Total(AllActive) - Total(ActiveOf(o)) + q
  BY <1>5, <1>7, <1>9, <1>11, <1>12, TotalCounts
<1>14. Total(ActiveOf(o))' = q
  <2>1. Total(ActiveOf(o))' = Count({i}, resQty')
    BY <1>2 DEF Total, Count, Units
  <2>2. QED
    BY <2>1, <1>9
<1>15. ASSUME NEW p \in Order, p # o
       PROVE  Total(ActiveOf(p))' = Total(ActiveOf(p))
  <2>1. Total(ActiveOf(p))' = Count(ActiveOf(p), resQty')
    BY <1>2, <1>15 DEF Total, Count, Units
  <2>2. \A j \in ActiveOf(p) : resQty'[j] = resQty[j]
    BY <1>3, <1>8 DEF ActiveOf
  <2>3. Count(ActiveOf(p), resQty') = Count(ActiveOf(p), resQty)
    BY <2>2, CountSame
  <2>4. QED
    BY <2>1, <2>3, TotalCounts
<1>16. QED
  BY <1>1, <1>13, <1>14, <1>15 DEF rest

-----------------------------------------------------------------------------
(* The commits that change the stock or a reservation. *)

HoldsUnchanged(o) == \A p \in Order : p # o => Total(ActiveOf(p))' = Total(ActiveOf(p))

\* What the request read is what reserved and onHand still are, less its own.
LEMMA LessOwn ==
  ASSUME SerialInv, NEW o
  PROVE  /\ Monus(reserved, Total(ActiveOf(o))) = reserved - Total(ActiveOf(o))
         /\ Monus(onHand, Total(ActiveOf(o))) = onHand - Total(ActiveOf(o))
         /\ reserved = Total(AllActive) /\ Total(AllActive) <= onHand
         /\ onHand \in Nat /\ reserved \in Nat
         /\ Total(ActiveOf(o)) \in Nat /\ Total(ActiveOf(o)) <= reserved
         /\ ActiveOf(o) = {} => Total(ActiveOf(o)) = 0
<1>1. TypeOK
  BY DEF SerialInv, TypeInv
<1>2. reserved = Total(AllActive) /\ Total(AllActive) <= onHand /\ onHand \in Nat /\ reserved \in Nat
  BY <1>1 DEF SerialInv, StockInv, ReservedMatchesActive, NoOversell, TypeOK
<1>3. QED
  BY <1>1, <1>2, OrderShare DEF Monus

LEMMA CheckoutCommitHolds ==
  ASSUME SerialInv, NEW r \in Req, NEW i \in Rid, CheckoutCommit(r, i),
         NEW o, o = req[r].o, NEW q, q = req[r].q
  PROVE  /\ o \in Order
         /\ q \in 1..(onHand - Total(AllActive) + Total(ActiveOf(o)))
         /\ Total(ActiveOf(o))' = q
         /\ HoldsUnchanged(o)
         /\ onHand' = onHand
         /\ StockInv'
<1>1. TypeOK /\ req[r] \in Request /\ LocalsFresh(req[r]) /\ LocalsOK(req[r], nInv)
  BY DEF SerialInv, TypeInv, TypeOK
<1>2. o \in Order /\ req[r].rs = ActiveOf(o) /\ req[r].v = CurrentStock /\ q > 0 /\ q \in 0..MaxQty
  BY <1>1 DEF CheckoutCommit, At, LocalsFresh, LocalsOK, OrderPC, PC, Reading, Request
<1>3. /\ Monus(reserved, Total(ActiveOf(o))) = reserved - Total(ActiveOf(o))
      /\ reserved = Total(AllActive) /\ Total(AllActive) <= onHand
      /\ onHand \in Nat /\ reserved \in Nat
      /\ Total(ActiveOf(o)) \in Nat /\ Total(ActiveOf(o)) <= reserved
      /\ ActiveOf(o) = {} => Total(ActiveOf(o)) = 0
  BY LessOwn
<1>4. ReserveBase(r).onHand = onHand /\ ReserveBase(r).reserved = reserved - Total(ActiveOf(o))
  BY <1>2, <1>3 DEF ReserveBase, CurrentStock
<1>5. /\ resStatus[i] = "none"
      /\ resStatus' = [j \in Rid |-> IF j = i THEN "active"
                                     ELSE IF j \in ActiveOf(o) THEN "released" ELSE resStatus[j]]
      /\ resOrder' = [resOrder EXCEPT ![i] = o]
      /\ resQty' = [resQty EXCEPT ![i] = q]
      /\ onHand' = onHand
      /\ reserved' = reserved - Total(ActiveOf(o)) + q
      /\ onHand - (reserved - Total(ActiveOf(o))) >= q
  BY <1>2, <1>4 DEF CheckoutCommit, InStock
<1>6. /\ AllActive' = (AllActive \ ActiveOf(o)) \union {i}
      /\ Total(AllActive)' = Total(AllActive) - Total(ActiveOf(o)) + q
      /\ Total(ActiveOf(o))' = q
      /\ HoldsUnchanged(o)
  BY <1>1, <1>2, <1>5, Replaced DEF HoldsUnchanged
<1>7. ReservedMatchesActive'
  BY <1>3, <1>5, <1>6 DEF ReservedMatchesActive
<1>8. NoOversell'
  BY <1>2, <1>3, <1>5, <1>6 DEF NoOversell
<1>9. ActiveOwned'
  <2>1. \A j \in AllActive : j # i /\ j \in Rid /\ resOrder[j] \in Order
    BY <1>5 DEF AllActive, SerialInv, StockInv, ActiveOwned
  <2>2. resOrder'[i] = o /\ \A j \in Rid : j # i => resOrder'[j] = resOrder[j]
    BY <1>1, <1>5 DEF TypeOK
  <2>3. QED
    BY <1>2, <1>6, <2>1, <2>2 DEF ActiveOwned
<1>10. q \in 1..(onHand - Total(AllActive) + Total(ActiveOf(o)))
  BY <1>2, <1>3, <1>5
<1>11. QED
  BY <1>2, <1>5, <1>6, <1>7, <1>8, <1>9, <1>10 DEF StockInv

LEMMA ReleaseFrees ==
  ASSUME SerialInv, NEW r \in Req, NEW o \in Order, req[r].rs = ActiveOf(o),
         req[r].rs = {} \/ req[r].v = CurrentStock, Release(r)
  PROVE  /\ Total(ActiveOf(o))' = 0
         /\ HoldsUnchanged(o)
         /\ onHand' = onHand
         /\ StockInv'
<1>1. TypeOK
  BY DEF SerialInv, TypeInv
<1>2. /\ Monus(reserved, Total(ActiveOf(o))) = reserved - Total(ActiveOf(o))
      /\ reserved = Total(AllActive) /\ Total(AllActive) <= onHand
      /\ onHand \in Nat /\ reserved \in Nat
      /\ Total(ActiveOf(o)) \in Nat /\ Total(ActiveOf(o)) <= reserved
      /\ ActiveOf(o) = {} => Total(ActiveOf(o)) = 0
  BY LessOwn
<1>3. reserved' = reserved - Total(ActiveOf(o))
  BY <1>2 DEF Release, CurrentStock
<1>4. /\ resStatus' = [i \in Rid |-> IF i \in ActiveOf(o) THEN "released" ELSE resStatus[i]]
      /\ UNCHANGED <<onHand, resOrder, resQty>>
  BY DEF Release
<1>5. /\ AllActive' = AllActive \ ActiveOf(o)
      /\ Total(AllActive)' = Total(AllActive) - Total(ActiveOf(o))
      /\ Total(ActiveOf(o))' = 0
      /\ HoldsUnchanged(o)
  BY <1>1, <1>4, Dropped DEF HoldsUnchanged
<1>6. ReservedMatchesActive' /\ NoOversell'
  BY <1>2, <1>3, <1>4, <1>5 DEF ReservedMatchesActive, NoOversell
<1>7. ActiveOwned'
  BY <1>4, <1>5 DEF SerialInv, StockInv, ActiveOwned
<1>8. QED
  BY <1>4, <1>5, <1>6, <1>7 DEF StockInv

LEMMA FinalizeShips ==
  ASSUME SerialInv, NEW r \in Req, NEW o \in Order, req[r].rs = ActiveOf(o),
         req[r].rs = {} \/ req[r].v = CurrentStock, Finalize(r)
  PROVE  /\ Total(ActiveOf(o))' = 0
         /\ HoldsUnchanged(o)
         /\ onHand' = onHand - Total(ActiveOf(o))
         /\ StockInv'
<1>1. TypeOK
  BY DEF SerialInv, TypeInv
<1>2. /\ Monus(reserved, Total(ActiveOf(o))) = reserved - Total(ActiveOf(o))
      /\ Monus(onHand, Total(ActiveOf(o))) = onHand - Total(ActiveOf(o))
      /\ reserved = Total(AllActive) /\ Total(AllActive) <= onHand
      /\ onHand \in Nat /\ reserved \in Nat
      /\ Total(ActiveOf(o)) \in Nat /\ Total(ActiveOf(o)) <= reserved
      /\ ActiveOf(o) = {} => Total(ActiveOf(o)) = 0
  BY LessOwn
<1>3. reserved' = reserved - Total(ActiveOf(o)) /\ onHand' = onHand - Total(ActiveOf(o))
  BY <1>2 DEF Finalize, CurrentStock
<1>4. /\ resStatus' = [i \in Rid |-> IF i \in ActiveOf(o) THEN "finalized" ELSE resStatus[i]]
      /\ UNCHANGED <<resOrder, resQty>>
  BY DEF Finalize
<1>5. /\ AllActive' = AllActive \ ActiveOf(o)
      /\ Total(AllActive)' = Total(AllActive) - Total(ActiveOf(o))
      /\ Total(ActiveOf(o))' = 0
      /\ HoldsUnchanged(o)
  BY <1>1, <1>4, Dropped DEF HoldsUnchanged
<1>6. ReservedMatchesActive' /\ NoOversell'
  BY <1>2, <1>3, <1>5 DEF ReservedMatchesActive, NoOversell
<1>7. ActiveOwned'
  BY <1>4, <1>5 DEF SerialInv, StockInv, ActiveOwned
<1>8. QED
  BY <1>3, <1>5, <1>6, <1>7 DEF StockInv

LEMMA AdjustCommitAdjusts ==
  ASSUME SerialInv, NEW r \in Req, NEW d \in Deltas, AdjustCommit(r, d)
  PROVE  /\ onHand' \in Nat /\ onHand' >= Total(AllActive)
         /\ \A o : Total(ActiveOf(o))' = Total(ActiveOf(o))
         /\ StockInv'
<1>1. LocalsFresh(req[r]) /\ TypeOK
  BY DEF SerialInv, TypeInv
<1>2. req[r].v = CurrentStock
  BY <1>1 DEF LocalsFresh, AdjustCommit, At
<1>3. /\ onHand' >= reserved /\ onHand' = onHand + d
      /\ UNCHANGED <<reserved, resStatus, resOrder, resQty>>
  BY <1>2 DEF AdjustCommit, CurrentStock
<1>4. reserved = Total(AllActive) /\ onHand \in Nat /\ reserved \in Nat /\ d \in Int
  BY LessOwn, CommerceAssumption
<1>5. onHand' \in Nat
  BY <1>3, <1>4
<1>6. AllActive' = AllActive /\ \A o : ActiveOf(o)' = ActiveOf(o)
  BY <1>3 DEF AllActive, ActiveOf
<1>7. Total(AllActive)' = Total(AllActive) /\ \A o : Total(ActiveOf(o))' = Total(ActiveOf(o))
  BY <1>3, <1>6 DEF Total
<1>8. StockInv'
  BY <1>3, <1>4, <1>6, <1>7 DEF SerialInv, StockInv, ReservedMatchesActive, NoOversell, ActiveOwned
<1>9. QED
  BY <1>3, <1>4, <1>5, <1>7, <1>8

-----------------------------------------------------------------------------
(* The commits keep the invariant. *)

LEMMA CommitSerial ==
  ASSUME SerialInv, [Next]_vars, NEW r \in Req, StockInv', CartFilled', UNCHANGED <<notified, cart>>,
         \/ req'[r] = Idle
         \/ req'[r].pc \in {"nt_check", "wh_done"} /\ cart[req'[r].o] > 0
  PROVE  SerialInv'
<1>1. LocalsFresh(req[r])'
  <2>1. CASE req'[r] = Idle
    BY <2>1 DEF Idle, LocalsFresh, OrderPC, Reading, PaidTx, ClosingTx
  <2>2. CASE req'[r].pc \in {"nt_check", "wh_done"} /\ cart[req'[r].o] > 0
    BY <2>2 DEF LocalsFresh, Reading, PaidTx, ClosingTx
  <2>3. QED
    BY <2>1, <2>2
<1>2. NotifiedOnce'
  BY DEF SerialInv, NotifiedOnce
<1>3. QED
  BY <1>1, <1>2, SerialStepOf

\* A commit that moves an order with an item to another phase.
LEMMA PhaseMoves ==
  ASSUME SerialInv, NEW o \in Order, cart[o] > 0, UNCHANGED cart,
         \A p \in Order : p # o => phase'[p] = phase[p] /\ nInv'[p] = nInv[p]
  PROVE  CartFilled'
BY DEF SerialInv, CartFilled

LEMMA OrderCommitsSerial ==
  ASSUME SerialInv, [Next]_vars, NEW r \in Req,
         AddToCartCommit(r) \/ SendPaymentLinkCommit(r)
  PROVE  SerialInv'
<1>1. TypeOK /\ req[r] \in Request /\ LocalsFresh(req[r]) /\ LocalsOK(req[r], nInv)
  BY DEF SerialInv, TypeInv, TypeOK
<1>2. /\ req[r].o \in Order /\ cart[req[r].o] > 0
      /\ UNCHANGED <<stkVars, notified, nInv>> /\ req'[r] = Idle
      /\ \A p \in Order : p # req[r].o => phase'[p] = phase[p]
  BY <1>1 DEF AddToCartCommit, SendPaymentLinkCommit, Finish, At, LocalsFresh, LocalsOK, OrderPC,
              PC, TypeOK
<1>3. CASE AddToCartCommit(r)
  <2>1. req[r].q \in Nat /\ cart' = [cart EXCEPT ![req[r].o] = req[r].q + 1]
    BY <1>1, <1>3, CommerceAssumption DEF AddToCartCommit, Request
  <2>2. CartFilled'
    BY <1>1, <1>2, <2>1 DEF SerialInv, CartFilled, TypeOK
  <2>3. LocalsFresh(req[r])'
    BY <1>2 DEF Idle, LocalsFresh, OrderPC, Reading, PaidTx, ClosingTx
  <2>4. StockInv' /\ NotifiedOnce'
    BY <1>2, StockLeft DEF SerialInv, NotifiedOnce
  <2>5. QED
    BY <2>2, <2>3, <2>4, SerialStepOf
<1>4. CASE SendPaymentLinkCommit(r)
  <2>1. cart' = cart
    BY <1>4 DEF SendPaymentLinkCommit
  <2>2. CartFilled'
    BY <1>2, <2>1, PhaseMoves
  <2>3. StockInv'
    BY <1>2, StockLeft DEF SerialInv
  <2>4. QED
    BY <1>2, <2>1, <2>2, <2>3, CommitSerial
<1>5. QED
  BY <1>3, <1>4

LEMMA CheckoutCommitSerial ==
  ASSUME SerialInv, [Next]_vars, NEW r \in Req, NEW i \in Rid, CheckoutCommit(r, i)
  PROVE  SerialInv'
<1>1. TypeOK /\ req[r] \in Request /\ LocalsFresh(req[r])
  BY DEF SerialInv, TypeInv, TypeOK
<1>2. PICK o : o = req[r].o
  OBVIOUS
<1>3. PICK q : q = req[r].q
  OBVIOUS
<1>4. o \in Order /\ StockInv'
  BY <1>2, <1>3, CheckoutCommitHolds
<1>5. cart[o] > 0 /\ UNCHANGED <<cart, notified>> /\ req'[r] = Idle
  BY <1>1, <1>2 DEF LocalsFresh, CheckoutCommit, At, Finish, OrderPC, PC, TypeOK
<1>6. phase' = [phase EXCEPT ![o] = "checkout"] /\ (nInv' = nInv \/ nInv' = [nInv EXCEPT ![o] = @ + 1])
  BY <1>2 DEF CheckoutCommit, CheckoutInvoice
<1>7. \A p \in Order : p # o => phase'[p] = phase[p] /\ nInv'[p] = nInv[p]
  BY <1>1, <1>6 DEF TypeOK
<1>8. CartFilled'
  BY <1>4, <1>5, <1>7, PhaseMoves
<1>9. QED
  BY <1>4, <1>5, <1>8, CommitSerial

\* Where a commit that ends an order's reservations stands.
LEMMA ClosingStands ==
  ASSUME SerialInv, NEW r \in Req, CancelCommit(r) \/ ClosingCommit(r) \/ PaidCommit(r)
  PROVE  /\ req[r].o \in Order /\ req[r].rs = ActiveOf(req[r].o)
         /\ req[r].rs = {} \/ req[r].v = CurrentStock
         /\ cart[req[r].o] > 0
<1>1. LocalsFresh(req[r]) /\ LocalsOK(req[r], nInv)
  BY DEF SerialInv, TypeInv
<1>2. req[r].pc \in {"ca_commit", "wx_commit", "pd_commit"}
  BY DEF CancelCommit, ClosingCommit, PaidCommit, At
<1>3. QED
  BY <1>1, <1>2 DEF LocalsFresh, LocalsOK, OrderPC, PC, Reading, PaidTx, ClosingTx

LEMMA ClosingCommitsSerial ==
  ASSUME SerialInv, [Next]_vars, NEW r \in Req, CancelCommit(r) \/ ClosingCommit(r) \/ PaidCommit(r)
  PROVE  SerialInv'
<1>1. TypeOK /\ req[r] \in Request
  BY DEF SerialInv, TypeInv, TypeOK
<1>2. PICK o \in Order : /\ o = req[r].o /\ req[r].rs = ActiveOf(o)
                         /\ req[r].rs = {} \/ req[r].v = CurrentStock
                         /\ cart[o] > 0
  BY ClosingStands
<1>3. Release(r) \/ Finalize(r)
  BY DEF CancelCommit, ClosingCommit, PaidCommit
<1>4. StockInv'
  BY <1>2, <1>3, ReleaseFrees, FinalizeShips
<1>5. /\ UNCHANGED <<cart, nInv, notified>>
      /\ \A p \in Order : p # o => phase'[p] = phase[p]
  BY <1>1, <1>2 DEF CancelCommit, ClosingCommit, PaidCommit, TypeOK
<1>6. CartFilled'
  BY <1>2, <1>5, PhaseMoves
<1>7. \/ req'[r] = Idle
      \/ req'[r].pc \in {"nt_check", "wh_done"} /\ req'[r].o = o
  BY <1>1, <1>2 DEF CancelCommit, ClosingCommit, PaidCommit, Finish, TypeOK, Request
<1>8. QED
  BY <1>2, <1>4, <1>5, <1>6, <1>7, CommitSerial

LEMMA AdjustCommitSerial ==
  ASSUME SerialInv, [Next]_vars, NEW r \in Req, NEW d \in Deltas, AdjustCommit(r, d)
  PROVE  SerialInv'
<1>1. StockInv'
  BY AdjustCommitAdjusts
<1>2. UNCHANGED <<phase, cart, nInv, notified>> /\ req'[r] = Idle
  BY DEF AdjustCommit, Finish, dbVars, SerialInv, TypeInv, TypeOK
<1>3. CartFilled'
  BY <1>2 DEF SerialInv, CartFilled
<1>4. QED
  BY <1>1, <1>2, <1>3, CommitSerial

LEMMA NotifyCreateSerial ==
  ASSUME SerialInv, [Next]_vars, NEW r \in Req, NotifyCreate(r)
  PROVE  SerialInv'
<1>1. TypeOK /\ req[r] \in Request /\ LocalsFresh(req[r]) /\ LocalsOK(req[r], nInv)
  BY DEF SerialInv, TypeInv, TypeOK
<1>2. PICK o \in Order, k \in InvNo : /\ o = req[r].o /\ k = req[r].k /\ cart[o] > 0
                                      /\ notified[o][k] = 0
  BY <1>1, CommerceAssumption DEF NotifyCreate, At, LocalsFresh, LocalsOK, OrderPC, InvoicePC, PC,
                                  TypeOK, InvNo
<1>3. notified' = [notified EXCEPT ![o][k] = @ + 1]
  BY <1>2 DEF NotifyCreate
<1>4. NotifiedOnce'
  BY <1>1, <1>2, <1>3 DEF SerialInv, NotifiedOnce, TypeOK
<1>5. UNCHANGED <<phase, cart, nInv, stkVars>> /\ req'[r].pc = "wh_done" /\ req'[r].o = o
  BY <1>1, <1>2 DEF NotifyCreate, dbVars, TypeOK, Request
<1>6. LocalsFresh(req[r])'
  BY <1>2, <1>5 DEF LocalsFresh, Reading, PaidTx, ClosingTx
<1>7. StockInv' /\ CartFilled'
  BY <1>5, StockLeft DEF SerialInv, CartFilled
<1>8. QED
  BY <1>4, <1>6, <1>7, SerialStepOf

LEMMA SerialStep == SerialInv /\ [Next]_vars => SerialInv'
<1> SUFFICES ASSUME SerialInv, [Next]_vars PROVE SerialInv'
  OBVIOUS
<1>1. ASSUME NEW r \in Req, Start(r) PROVE SerialInv'
  BY <1>1, StartSerial
<1>2. ASSUME NEW r \in Req, Step(r) \/ Fail(r) PROVE SerialInv'
  BY <1>2, ReadSerial, WebhookFindSerial, OrderCommitsSerial, CheckoutCommitSerial,
     ClosingCommitsSerial, AdjustCommitSerial, NotifyCreateSerial DEF Step
<1>3. CASE \/ \E o \in Order : ProviderSettles(o) \/ ProviderNotifies(o)
           \/ \E e \in Event : StrayNotifies(e)
           \/ UNCHANGED vars
  <2>1. UNCHANGED <<phase, cart, nInv, stkVars, notified, req>>
    BY <1>3 DEF ProviderSettles, ProviderNotifies, StrayNotifies, dbVars, vars
  <2>2. /\ StockInv'
        /\ CurrentStock' = CurrentStock
        /\ \A o : ActiveOf(o)' = ActiveOf(o)
    BY <2>1, StockLeft DEF SerialInv
  <2>3. \A r \in Req : LocalsFresh(req[r])'
    BY <2>1, <2>2 DEF SerialInv, LocalsFresh
  <2>4. NotifiedOnce' /\ CartFilled' /\ Serial'
    BY <2>1 DEF SerialInv, NotifiedOnce, CartFilled, Serial
  <2>5. QED
    BY <2>2, <2>3, <2>4, TypeStep DEF SerialInv
<1>4. QED
  BY <1>1, <1>2, <1>3 DEF Next

LEMMA SerialHolds == Serial => (Spec => []SerialInv)
<1>1. Serial /\ Init => SerialInv
  BY SerialInit
<1>2. SerialInv /\ [Next]_vars => SerialInv'
  BY SerialStep
<1>3. QED
  BY <1>1, <1>2, PTL DEF Spec

\* With requests one after the other, product_variants.stock_reserved is the
\* sum of the active reservations after any sequence of checkouts,
\* cancellations, payments, expiries, adjustments and failures.
THEOREM SerialReservedMatches == Serial => (Spec => []ReservedMatchesActive)
<1>1. SerialInv => ReservedMatchesActive
  BY DEF SerialInv, StockInv
<1>2. QED
  BY <1>1, SerialHolds, PTL

\* With requests one after the other, the active reservations never exceed the
\* stock on hand: 'Insufficient stock for variant' rejects in time.
THEOREM SerialNoOversell == Serial => (Spec => []NoOversell)
<1>1. SerialInv => NoOversell
  BY DEF SerialInv, StockInv
<1>2. QED
  BY <1>1, SerialHolds, PTL

\* With requests one after the other, repeated deliveries of the provider's
\* notifications create one payment_success message for each invoice.
THEOREM SerialNotifiedOnce == Serial => (Spec => []NotifiedOnce)
<1>1. SerialInv => NotifiedOnce
  BY DEF SerialInv
<1>2. QED
  BY <1>1, SerialHolds, PTL

-----------------------------------------------------------------------------
(* The refinement of StockLedger. *)

\* What each order holds.
Holds == [o \in Order |-> Total(ActiveOf(o))]

\* What the ledger counts order by order is the sum of the active reservations.
LEMMA HeldIsTotal ==
  ASSUME SerialInv
  PROVE  Ledger!Held = Total(AllActive)
<1>1. AllActive \in SUBSET Rid /\ \A i \in AllActive : resOrder[i] \in Order
  BY DEF AllActive, SerialInv, StockInv, ActiveOwned
<1>2. \A o \in Order : OwnOf(AllActive, resOrder, o) = ActiveOf(o)
  BY DEF OwnOf, AllActive, ActiveOf
<1>3. onHand \in Nat /\ \A o \in Order : Total(ActiveOf(o)) <= onHand
  BY LessOwn
<1>4. \A o \in Order : Holds[o] = Count(OwnOf(AllActive, resOrder, o), resQty) /\ Holds[o] <= onHand
  BY <1>2, <1>3, TotalCounts DEF Holds
<1>5. Cardinality(HeldUnits(Holds, onHand)) = Count(AllActive, resQty)
  BY <1>1, <1>3, <1>4, CountByOrder
<1>6. Ledger!Held = Cardinality(HeldUnits(Holds, onHand))
  BY DEF Ledger!Held, HeldUnits, Holds, Ledger!Cardinality, Cardinality
<1>7. QED
  BY <1>5, <1>6, TotalCounts

LEMMA LedgerInit == Init => Ledger!Init
<1> SUFFICES ASSUME Init PROVE Ledger!Init
  OBVIOUS
<1>1. \A o \in Order : ActiveOf(o) = {}
  BY DEF Init, ActiveOf
<1>2. Total({}) = 0
  BY TotalCounts, CountNone
<1>3. \A o \in Order : Total(ActiveOf(o)) = 0
  BY <1>1, <1>2
<1>4. QED
  BY <1>3, CommerceAssumption DEF Init, Ledger!Init

\* The steps that change the variant's row or a reservation.
StockChange(r) ==
  \/ \E i \in Rid : CheckoutCommit(r, i)
  \/ CancelCommit(r) \/ ClosingCommit(r) \/ PaidCommit(r)
  \/ \E d \in Deltas : AdjustCommit(r, d)

LEMMA OtherStepsLeaveStock ==
  ASSUME [Next]_vars
  PROVE  UNCHANGED stkVars \/ \E r \in Req : StockChange(r)
<1>1. CASE UNCHANGED vars
  BY <1>1 DEF vars
<1>2. ASSUME NEW r \in Req, Start(r) PROVE UNCHANGED stkVars
  BY <1>2 DEF Start, CreateOrder, AddToCart, Checkout, SendPaymentLink, CancelOrder, AdjustStock,
              Webhook, WebhookIdempotent
<1>3. ASSUME NEW r \in Req, Step(r) PROVE UNCHANGED stkVars \/ StockChange(r)
  BY <1>3 DEF Step, StockChange, AddToCartCommit, CheckoutReservations, CheckoutVariant,
              CheckoutRejected, LinkInvoices, CreateTransaction, SendPaymentLinkCommit,
              CancelInvoices, CancelTransaction, CancelReservations, CancelVariant, WebhookUpsert,
              WebhookFind, WebhookNotFound, WebhookVerify, PaidRead, PaidLock, PaidVariant,
              ClosingLock, ClosingVariant, NotifyLook, NotifyCreate, NotifyFailed, WebhookDone
<1>4. ASSUME NEW r \in Req, Fail(r) PROVE UNCHANGED stkVars
  BY <1>4 DEF Fail
<1>5. CASE \/ \E o \in Order : ProviderSettles(o) \/ ProviderNotifies(o)
           \/ \E e \in Event : StrayNotifies(e)
  BY <1>5 DEF ProviderSettles, ProviderNotifies, StrayNotifies
<1>6. QED
  BY <1>1, <1>2, <1>3, <1>4, <1>5 DEF Next

\* What changes when one order's reservations do.
LEMMA HoldsOf ==
  ASSUME NEW o \in Order, NEW n, Total(ActiveOf(o))' = n, HoldsUnchanged(o)
  PROVE  Holds' = [Holds EXCEPT ![o] = n]
BY DEF Holds, HoldsUnchanged

LEMMA StepLedger ==
  ASSUME SerialInv, [Next]_vars
  PROVE  [Ledger!Next]_<<onHand, Holds>>
<1>1. CASE UNCHANGED stkVars
  <2>1. \A o : Total(ActiveOf(o))' = Total(ActiveOf(o))
    BY <1>1 DEF stkVars, Total, ActiveOf
  <2>2. QED
    BY <1>1, <2>1 DEF Holds, stkVars
<1>2. ASSUME NEW r \in Req, NEW i \in Rid, CheckoutCommit(r, i) PROVE Ledger!Next
  <2>1. PICK o : o = req[r].o
    OBVIOUS
  <2>2. PICK q : q = req[r].q
    OBVIOUS
  <2>3. /\ o \in Order
        /\ q \in 1..(onHand - Total(AllActive) + Total(ActiveOf(o)))
        /\ Total(ActiveOf(o))' = q
        /\ HoldsUnchanged(o)
        /\ onHand' = onHand
    BY <1>2, <2>1, <2>2, CheckoutCommitHolds
  <2>4. Holds' = [Holds EXCEPT ![o] = q]
    BY <2>3, HoldsOf
  <2>5. q \in 1..(onHand - Ledger!Held + Holds[o])
    BY <2>3, HeldIsTotal DEF Holds
  <2>6. Ledger!Hold(o)
    BY <2>3, <2>4, <2>5 DEF Ledger!Hold, Holds
  <2>7. QED
    BY <2>3, <2>6 DEF Ledger!Next
<1>3. ASSUME NEW r \in Req, CancelCommit(r) \/ ClosingCommit(r) \/ PaidCommit(r) PROVE Ledger!Next
  <2>1. PICK o \in Order : /\ o = req[r].o /\ req[r].rs = ActiveOf(o)
                           /\ req[r].rs = {} \/ req[r].v = CurrentStock
    BY <1>3, ClosingStands
  <2>2. CASE Release(r)
    <3>1. Total(ActiveOf(o))' = 0 /\ HoldsUnchanged(o) /\ onHand' = onHand
      BY <2>1, <2>2, ReleaseFrees
    <3>2. Holds' = [Holds EXCEPT ![o] = 0]
      BY <3>1, HoldsOf
    <3>3. Ledger!Free(o)
      BY <3>1, <3>2 DEF Ledger!Free, Holds
    <3>4. QED
      BY <3>3 DEF Ledger!Next
  <2>3. CASE Finalize(r)
    <3>1. /\ Total(ActiveOf(o))' = 0 /\ HoldsUnchanged(o)
          /\ onHand' = onHand - Total(ActiveOf(o))
      BY <2>1, <2>3, FinalizeShips
    <3>2. Holds' = [Holds EXCEPT ![o] = 0] /\ Holds[o] = Total(ActiveOf(o))
      BY <3>1, HoldsOf DEF Holds
    <3>3. Ledger!Ship(o)
      BY <3>1, <3>2 DEF Ledger!Ship, Holds
    <3>4. QED
      BY <3>3 DEF Ledger!Next
  <2>4. QED
    BY <1>3, <2>2, <2>3 DEF CancelCommit, ClosingCommit, PaidCommit
<1>4. ASSUME NEW r \in Req, NEW d \in Deltas, AdjustCommit(r, d) PROVE Ledger!Next
  <2>1. /\ onHand' \in Nat /\ onHand' >= Ledger!Held
        /\ \A o : Total(ActiveOf(o))' = Total(ActiveOf(o))
    BY <1>4, AdjustCommitAdjusts, HeldIsTotal
  <2>2. Holds' = Holds
    BY <2>1 DEF Holds
  <2>3. QED
    BY <2>1, <2>2 DEF Ledger!Next, Ledger!Adjust, Holds
<1>5. QED
  BY <1>1, <1>2, <1>3, <1>4, OtherStepsLeaveStock DEF StockChange

\* With requests one after the other the variant's row and its reservations
\* implement the stock ledger: a checkout holds what others leave, a
\* cancellation or an expiry gives all of it back, a payment takes it.
THEOREM ImplementsLedger == Serial => (Spec => LedgerRefinement)
<1>1. Init => Ledger!Init
  BY LedgerInit
<1>2. SerialInv /\ [Next]_vars => [Ledger!Next]_<<onHand, [o \in Order |-> Total(ActiveOf(o))]>>
  BY StepLedger DEF Holds
<1>3. QED
  BY <1>1, <1>2, SerialHolds, PTL DEF Spec, LedgerRefinement, Ledger!Spec

=============================================================================
