--------------------------- MODULE Commerce_proofs ---------------------------
(***************************************************************************)
(* Commerce for every number of orders, requests, reservations and events, *)
(* however the requests interleave and wherever they stop: type            *)
(* correctness, the safety of paid orders, what a step may do to a         *)
(* reservation, and the refinement of OrderSettlement.                     *)
(***************************************************************************)
EXTENDS Commerce, FiniteSetTheorems, TLAPS

\* Where a request works on an order, on an invoice of it, on a notification.
OrderPC == PC \ {"idle", "adj_commit", "wh_upsert", "wh_find"}
InvoicePC == {"sp_create", "sp_commit", "wh_verify", "fb_verify", "wh_done",
              "pd_read", "pd_lock", "pd_var", "pd_commit", "wx_lock", "wx_var", "wx_commit",
              "nt_check", "nt_recheck", "nt_create"}
EventPC == (InvoicePC \ {"sp_create", "sp_commit"}) \union {"wh_upsert", "wh_find"}

\* What a request's locals are known to be at each of its steps, when an order
\* o has n[o] invoices.
LocalsOK(x, n) ==
  /\ x.pc \in OrderPC => x.o \in Order
  /\ x.pc \in InvoicePC => x.k \in 1..n[x.o]
  /\ x.pc \in EventPC => x.e \in Event
  /\ x.pc = "ac_commit" => x.q < MaxQty
  /\ x.pc \in {"wx_lock", "wx_var", "wx_commit"} => x.st \in {"CANCELLED", "EXPIRED"}

TypeInv == TypeOK /\ \A r \in Req : LocalsOK(req[r], nInv)

\* The sum over a set of reservations is a natural number.
LEMMA TotalType ==
  ASSUME NEW rs \in SUBSET Rid
  PROVE  Total(rs) \in Nat
<1>1. IsFiniteSet(Rid) BY CommerceAssumption
<1>2. IsFiniteSet(rs) BY <1>1, FS_Subset
<1>3. IsFiniteSet(1..MaxQty) BY FS_Interval, CommerceAssumption
<1>4. IsFiniteSet(rs \X (1..MaxQty)) BY <1>2, <1>3, FS_Product
<1>5. IsFiniteSet({u \in rs \X (1..MaxQty) : u[2] <= resQty[u[1]]}) BY <1>4, FS_Subset
<1> QED BY <1>5, FS_CardinalityType DEF Total

\* Math.max(0, a - b) is a natural number.
LEMMA MonusType ==
  ASSUME NEW a \in Nat, NEW b \in Nat
  PROVE  Monus(a, b) \in Nat
BY DEF Monus

\* The rows' part of TypeOK.
RowsOK ==
  /\ phase \in [Order -> Phase]
  /\ cart \in [Order -> 0..MaxQty]
  /\ nInv \in [Order -> 0..MaxInv]
  /\ inv \in [Order -> [InvNo -> InvStatus]]
  /\ linked \in [Order -> [InvNo -> BOOLEAN]]
  /\ onHand \in Nat /\ reserved \in Nat
  /\ resStatus \in [Rid -> ResStatus]
  /\ resOrder \in [Rid -> Order \union {NoOrder}]
  /\ resQty \in [Rid -> 0..MaxQty]
  /\ deducts \in [Rid -> Nat]
  /\ notified \in [Order -> [InvNo -> Nat]]
  /\ row \in [Event -> RowStatus]
  /\ prov \in [Order -> ProvStatus]
  /\ delivery \in [Event -> {"none", "due", "acked"}]

\* The locals of a request that has not begun.
LEMMA IdleType == Idle \in Request
BY CommerceAssumption DEF Idle, Request, PC, Stock, RowStatus, InvStatus

\* A stock row that is read has natural numbers.
LEMMA StockType == TypeOK => CurrentStock \in Stock
BY DEF TypeOK, CurrentStock, Stock

\* Writing a status into an invoice keeps the type of the invoices.
LEMMA InvUpdate ==
  ASSUME NEW f \in [Order -> [InvNo -> InvStatus]], NEW o \in Order, NEW k, NEW s \in InvStatus
  PROVE  [f EXCEPT ![o][k] = s] \in [Order -> [InvNo -> InvStatus]]
OBVIOUS

\* A step that changes the locals of one request, and takes no invoice away,
\* keeps the invariant if the rows keep their types and the new locals are right.
LEMMA LocalsStep ==
  ASSUME NEW r \in Req, TypeInv, RowsOK',
         req' = [req EXCEPT ![r] = req'[r]],
         req'[r] \in Request, LocalsOK(req'[r], nInv'),
         \A o \in Order : nInv[o] <= nInv'[o]
  PROVE  TypeInv'
<1>1. TypeOK'
  <2>1. req' \in [Req -> Request] BY DEF TypeInv, TypeOK
  <2> QED BY <2>1 DEF TypeOK, RowsOK
<1>2. ASSUME NEW s \in Req PROVE LocalsOK(req'[s], nInv')
  <2>1. CASE s = r
    BY <2>1
  <2>2. CASE s # r
    <3>1. req'[s] = req[s] /\ LocalsOK(req[s], nInv) /\ req[s] \in Request
      BY <2>2 DEF TypeInv, TypeOK
    <3>2. nInv \in [Order -> 0..MaxInv] /\ nInv' \in [Order -> 0..MaxInv]
      BY DEF RowsOK, TypeInv, TypeOK
    <3>3. req[s].pc \in InvoicePC => req[s].o \in Order
      BY <3>1 DEF LocalsOK, InvoicePC, OrderPC, PC
    <3>4. req[s].pc \in InvoicePC => req[s].k \in 1..nInv'[req[s].o]
      <4> HAVE req[s].pc \in InvoicePC
      <4>1. req[s].k \in 1..nInv[req[s].o] /\ req[s].o \in Order
        BY <3>1, <3>3 DEF LocalsOK
      <4> QED BY <4>1, <3>2, CommerceAssumption
    <3> QED BY <3>1, <3>4 DEF LocalsOK
  <2> QED BY <2>1, <2>2
<1> QED BY <1>1, <1>2 DEF TypeInv

LEMMA AddToCartType ==
  ASSUME TypeInv, NEW r \in Req, NEW o \in Order, AddToCart(r, o)
  PROVE  TypeInv'
<1>1. req[r] \in Request /\ LocalsOK(req[r], nInv) BY DEF TypeInv, TypeOK
<1>3. RowsOK' /\ nInv' = nInv
  BY <1>1, CommerceAssumption DEF TypeInv, TypeOK, RowsOK, Request, AddToCart, Begin, dbVars, stkVars, extVars, InvNo, Phase, Open, InvStatus, ResStatus, RowStatus, ProvStatus
<1>4. req' = [req EXCEPT ![r] = req'[r]]
  BY DEF TypeInv, TypeOK, AddToCart, Begin, Idle
<1>5. req'[r] \in Request
  BY <1>1, IdleType, CommerceAssumption DEF TypeInv, TypeOK, AddToCart, Begin, Request, PC, RowStatus, InvStatus, ProvStatus
<1>6. /\ req'[r].pc = "ac_commit"
     /\ req'[r].o = o
     /\ req'[r].q = cart[o]
     /\ cart[o] < MaxQty
  BY <1>1 DEF TypeInv, TypeOK, AddToCart, Begin, At, Idle, Request
<1>7. LocalsOK(req'[r], nInv')
  BY <1>1, <1>3, <1>6 DEF LocalsOK, OrderPC, InvoicePC, EventPC, PC, Request
<1>8. \A p \in Order : nInv[p] <= nInv'[p]
  BY <1>3 DEF TypeInv, TypeOK
<1> QED BY <1>3, <1>4, <1>5, <1>7, <1>8, LocalsStep

LEMMA CheckoutType ==
  ASSUME TypeInv, NEW r \in Req, NEW o \in Order, Checkout(r, o)
  PROVE  TypeInv'
<1>1. req[r] \in Request /\ LocalsOK(req[r], nInv) BY DEF TypeInv, TypeOK
<1>3. RowsOK' /\ nInv' = nInv
  BY <1>1, CommerceAssumption DEF TypeInv, TypeOK, RowsOK, Request, Checkout, Begin, dbVars, stkVars, extVars, InvNo, Phase, Open, InvStatus, ResStatus, RowStatus, ProvStatus
<1>4. req' = [req EXCEPT ![r] = req'[r]]
  BY DEF TypeInv, TypeOK, Checkout, Begin, Idle
<1>5. req'[r] \in Request
  BY <1>1, IdleType, CommerceAssumption DEF TypeInv, TypeOK, Checkout, Begin, Request, PC, RowStatus, InvStatus, ProvStatus
<1>6. /\ req'[r].pc = "co_resv"
     /\ req'[r].o = o
  BY <1>1 DEF TypeInv, TypeOK, Checkout, Begin, At, Idle, Request
<1>7. LocalsOK(req'[r], nInv')
  BY <1>1, <1>3, <1>6 DEF LocalsOK, OrderPC, InvoicePC, EventPC, PC, Request
<1>8. \A p \in Order : nInv[p] <= nInv'[p]
  BY <1>3 DEF TypeInv, TypeOK
<1> QED BY <1>3, <1>4, <1>5, <1>7, <1>8, LocalsStep

LEMMA SendPaymentLinkType ==
  ASSUME TypeInv, NEW r \in Req, NEW o \in Order, SendPaymentLink(r, o)
  PROVE  TypeInv'
<1>1. req[r] \in Request /\ LocalsOK(req[r], nInv) BY DEF TypeInv, TypeOK
<1>3. RowsOK' /\ nInv' = nInv
  BY <1>1, CommerceAssumption DEF TypeInv, TypeOK, RowsOK, Request, SendPaymentLink, Begin, dbVars, stkVars, extVars, InvNo, Phase, Open, InvStatus, ResStatus, RowStatus, ProvStatus
<1>4. req' = [req EXCEPT ![r] = req'[r]]
  BY DEF TypeInv, TypeOK, SendPaymentLink, Begin, Idle
<1>5. req'[r] \in Request
  BY <1>1, IdleType, CommerceAssumption DEF TypeInv, TypeOK, SendPaymentLink, Begin, Request, PC, RowStatus, InvStatus, ProvStatus
<1>6. /\ req'[r].pc = "sp_inv"
     /\ req'[r].o = o
  BY <1>1 DEF TypeInv, TypeOK, SendPaymentLink, Begin, At, Idle, Request
<1>7. LocalsOK(req'[r], nInv')
  BY <1>1, <1>3, <1>6 DEF LocalsOK, OrderPC, InvoicePC, EventPC, PC, Request
<1>8. \A p \in Order : nInv[p] <= nInv'[p]
  BY <1>3 DEF TypeInv, TypeOK
<1> QED BY <1>3, <1>4, <1>5, <1>7, <1>8, LocalsStep

LEMMA CancelOrderType ==
  ASSUME TypeInv, NEW r \in Req, NEW o \in Order, CancelOrder(r, o)
  PROVE  TypeInv'
<1>1. req[r] \in Request /\ LocalsOK(req[r], nInv) BY DEF TypeInv, TypeOK
<1>3. RowsOK' /\ nInv' = nInv
  BY <1>1, CommerceAssumption DEF TypeInv, TypeOK, RowsOK, Request, CancelOrder, Begin, dbVars, stkVars, extVars, InvNo, Phase, Open, InvStatus, ResStatus, RowStatus, ProvStatus
<1>4. req' = [req EXCEPT ![r] = req'[r]]
  BY DEF TypeInv, TypeOK, CancelOrder, Begin, Idle
<1>5. req'[r] \in Request
  BY <1>1, IdleType, CommerceAssumption DEF TypeInv, TypeOK, CancelOrder, Begin, Request, PC, RowStatus, InvStatus, ProvStatus
<1>6. /\ req'[r].pc = "ca_inv"
     /\ req'[r].o = o
  BY <1>1 DEF TypeInv, TypeOK, CancelOrder, Begin, At, Idle, Request
<1>7. LocalsOK(req'[r], nInv')
  BY <1>1, <1>3, <1>6 DEF LocalsOK, OrderPC, InvoicePC, EventPC, PC, Request
<1>8. \A p \in Order : nInv[p] <= nInv'[p]
  BY <1>3 DEF TypeInv, TypeOK
<1> QED BY <1>3, <1>4, <1>5, <1>7, <1>8, LocalsStep

LEMMA WebhookType ==
  ASSUME TypeInv, NEW r \in Req, NEW e \in Event, Webhook(r, e)
  PROVE  TypeInv'
<1>1. req[r] \in Request /\ LocalsOK(req[r], nInv) BY DEF TypeInv, TypeOK
<1>3. RowsOK' /\ nInv' = nInv
  BY <1>1, CommerceAssumption DEF TypeInv, TypeOK, RowsOK, Request, Webhook, dbVars, stkVars, extVars, InvNo, Phase, Open, InvStatus, ResStatus, RowStatus, ProvStatus
<1>4. req' = [req EXCEPT ![r] = req'[r]]
  BY DEF TypeInv, TypeOK, Webhook, Idle
<1>5. req'[r] \in Request
  BY <1>1, IdleType, CommerceAssumption DEF TypeInv, TypeOK, Webhook, Request, PC, RowStatus, InvStatus, ProvStatus
<1>6. /\ req'[r].pc = "wh_upsert"
     /\ req'[r].e = e
  BY <1>1 DEF TypeInv, TypeOK, Webhook, At, Idle, Request
<1>7. LocalsOK(req'[r], nInv')
  BY <1>1, <1>3, <1>6 DEF LocalsOK, OrderPC, InvoicePC, EventPC, PC, Request
<1>8. \A p \in Order : nInv[p] <= nInv'[p]
  BY <1>3 DEF TypeInv, TypeOK
<1> QED BY <1>3, <1>4, <1>5, <1>7, <1>8, LocalsStep

LEMMA AdjustStockType ==
  ASSUME TypeInv, NEW r \in Req, AdjustStock(r)
  PROVE  TypeInv'
<1>1. req[r] \in Request /\ LocalsOK(req[r], nInv) BY DEF TypeInv, TypeOK
<1>3. RowsOK' /\ nInv' = nInv
  BY <1>1, CommerceAssumption DEF TypeInv, TypeOK, RowsOK, Request, AdjustStock, Begin, CurrentStock, dbVars, stkVars, extVars, InvNo, Phase, Open, InvStatus, ResStatus, RowStatus, ProvStatus
<1>4. req' = [req EXCEPT ![r] = req'[r]]
  BY DEF TypeInv, TypeOK, AdjustStock, Begin, CurrentStock, Idle
<1>5. req'[r] \in Request
  BY <1>1, IdleType, StockType, CommerceAssumption DEF TypeInv, TypeOK, AdjustStock, Begin, CurrentStock, Request, PC, RowStatus, InvStatus, ProvStatus
<1>6. /\ req'[r].pc = "adj_commit"
  BY <1>1 DEF TypeInv, TypeOK, AdjustStock, Begin, CurrentStock, At, Idle, Request
<1>7. LocalsOK(req'[r], nInv')
  BY <1>1, <1>3, <1>6 DEF LocalsOK, OrderPC, InvoicePC, EventPC, PC, Request
<1>8. \A p \in Order : nInv[p] <= nInv'[p]
  BY <1>3 DEF TypeInv, TypeOK
<1> QED BY <1>3, <1>4, <1>5, <1>7, <1>8, LocalsStep

LEMMA AddToCartCommitType ==
  ASSUME TypeInv, NEW r \in Req, AddToCartCommit(r)
  PROVE  TypeInv'
<1>1. req[r] \in Request /\ LocalsOK(req[r], nInv) BY DEF TypeInv, TypeOK
<1>2. req[r].o \in Order /\ req[r].q < MaxQty
  BY <1>1, CommerceAssumption DEF TypeInv, TypeOK, AddToCartCommit, At, LocalsOK, OrderPC, InvoicePC, EventPC, PC, Request, InvNo
<1>3. RowsOK' /\ nInv' = nInv
  BY <1>1, <1>2, CommerceAssumption DEF TypeInv, TypeOK, RowsOK, Request, AddToCartCommit, Finish, dbVars, stkVars, extVars, InvNo, Phase, Open, InvStatus, ResStatus, RowStatus, ProvStatus
<1>4. req' = [req EXCEPT ![r] = req'[r]]
  BY DEF TypeInv, TypeOK, AddToCartCommit, Finish, Idle
<1>5. req'[r] \in Request
  BY <1>1, <1>2, CommerceAssumption DEF TypeInv, TypeOK, AddToCartCommit, Finish, Request, PC, Idle, Stock, RowStatus, InvStatus, ProvStatus
<1>6. /\ req'[r].pc = "idle"
  BY <1>1, <1>2 DEF TypeInv, TypeOK, AddToCartCommit, Finish, At, Idle, Request
<1>7. LocalsOK(req'[r], nInv')
  BY <1>1, <1>2, <1>3, <1>6 DEF LocalsOK, OrderPC, InvoicePC, EventPC, PC, Request
<1>8. \A p \in Order : nInv[p] <= nInv'[p]
  BY <1>3 DEF TypeInv, TypeOK
<1> QED BY <1>3, <1>4, <1>5, <1>7, <1>8, LocalsStep

LEMMA CheckoutReservationsType ==
  ASSUME TypeInv, NEW r \in Req, CheckoutReservations(r)
  PROVE  TypeInv'
<1>1. req[r] \in Request /\ LocalsOK(req[r], nInv) BY DEF TypeInv, TypeOK
<1>2. req[r].o \in Order
  BY <1>1, CommerceAssumption DEF TypeInv, TypeOK, CheckoutReservations, At, LocalsOK, OrderPC, InvoicePC, EventPC, PC, Request, InvNo
<1>3. RowsOK' /\ nInv' = nInv
  BY <1>1, <1>2, CommerceAssumption DEF TypeInv, TypeOK, RowsOK, Request, CheckoutReservations, ActiveOf, dbVars, stkVars, extVars, InvNo, Phase, Open, InvStatus, ResStatus, RowStatus, ProvStatus
<1>4. req' = [req EXCEPT ![r] = req'[r]]
  BY DEF TypeInv, TypeOK, CheckoutReservations, ActiveOf, Idle
<1>5. req'[r] \in Request
  BY <1>1, <1>2, CommerceAssumption DEF TypeInv, TypeOK, CheckoutReservations, ActiveOf, Request, PC, Idle, Stock, RowStatus, InvStatus, ProvStatus
<1>6. /\ req'[r].pc = "co_var"
     /\ req'[r].o = req[r].o /\ req'[r].k = req[r].k /\ req'[r].e = req[r].e
  BY <1>1, <1>2 DEF TypeInv, TypeOK, CheckoutReservations, ActiveOf, At, Idle, Request
<1>7. LocalsOK(req'[r], nInv')
  BY <1>1, <1>2, <1>3, <1>6 DEF LocalsOK, OrderPC, InvoicePC, EventPC, PC, Request
<1>8. \A p \in Order : nInv[p] <= nInv'[p]
  BY <1>3 DEF TypeInv, TypeOK
<1> QED BY <1>3, <1>4, <1>5, <1>7, <1>8, LocalsStep

LEMMA CheckoutVariantType ==
  ASSUME TypeInv, NEW r \in Req, CheckoutVariant(r)
  PROVE  TypeInv'
<1>1. req[r] \in Request /\ LocalsOK(req[r], nInv) BY DEF TypeInv, TypeOK
<1>2. req[r].o \in Order
  BY <1>1, CommerceAssumption DEF TypeInv, TypeOK, CheckoutVariant, At, LocalsOK, OrderPC, InvoicePC, EventPC, PC, Request, InvNo
<1>3. RowsOK' /\ nInv' = nInv
  BY <1>1, <1>2, CommerceAssumption DEF TypeInv, TypeOK, RowsOK, Request, CheckoutVariant, CurrentStock, dbVars, stkVars, extVars, InvNo, Phase, Open, InvStatus, ResStatus, RowStatus, ProvStatus
<1>4. req' = [req EXCEPT ![r] = req'[r]]
  BY DEF TypeInv, TypeOK, CheckoutVariant, CurrentStock, Idle
<1>5. req'[r] \in Request
  BY <1>1, <1>2, CommerceAssumption DEF TypeInv, TypeOK, CheckoutVariant, CurrentStock, Request, PC, Idle, Stock, RowStatus, InvStatus, ProvStatus
<1>6. /\ req'[r].pc = "co_commit"
     /\ req'[r].o = req[r].o /\ req'[r].k = req[r].k /\ req'[r].e = req[r].e
  BY <1>1, <1>2 DEF TypeInv, TypeOK, CheckoutVariant, CurrentStock, At, Idle, Request
<1>7. LocalsOK(req'[r], nInv')
  BY <1>1, <1>2, <1>3, <1>6 DEF LocalsOK, OrderPC, InvoicePC, EventPC, PC, Request
<1>8. \A p \in Order : nInv[p] <= nInv'[p]
  BY <1>3 DEF TypeInv, TypeOK
<1> QED BY <1>3, <1>4, <1>5, <1>7, <1>8, LocalsStep

LEMMA CheckoutRejectedType ==
  ASSUME TypeInv, NEW r \in Req, CheckoutRejected(r)
  PROVE  TypeInv'
<1>1. req[r] \in Request /\ LocalsOK(req[r], nInv) BY DEF TypeInv, TypeOK
<1>3. RowsOK' /\ nInv' = nInv
  BY <1>1, CommerceAssumption DEF TypeInv, TypeOK, RowsOK, Request, CheckoutRejected, Finish, dbVars, stkVars, extVars, InvNo, Phase, Open, InvStatus, ResStatus, RowStatus, ProvStatus
<1>4. req' = [req EXCEPT ![r] = req'[r]]
  BY DEF TypeInv, TypeOK, CheckoutRejected, Finish, Idle
<1>5. req'[r] \in Request
  BY <1>1, CommerceAssumption DEF TypeInv, TypeOK, CheckoutRejected, Finish, Request, PC, Idle, Stock, RowStatus, InvStatus, ProvStatus
<1>6. /\ req'[r].pc = "idle"
  BY <1>1 DEF TypeInv, TypeOK, CheckoutRejected, Finish, At, Idle, Request
<1>7. LocalsOK(req'[r], nInv')
  BY <1>1, <1>3, <1>6 DEF LocalsOK, OrderPC, InvoicePC, EventPC, PC, Request
<1>8. \A p \in Order : nInv[p] <= nInv'[p]
  BY <1>3 DEF TypeInv, TypeOK
<1> QED BY <1>3, <1>4, <1>5, <1>7, <1>8, LocalsStep

LEMMA CreateTransactionType ==
  ASSUME TypeInv, NEW r \in Req, CreateTransaction(r)
  PROVE  TypeInv'
<1>1. req[r] \in Request /\ LocalsOK(req[r], nInv) BY DEF TypeInv, TypeOK
<1>2. req[r].o \in Order /\ req[r].k \in 1..nInv[req[r].o] /\ req[r].k \in InvNo
  BY <1>1, CommerceAssumption DEF TypeInv, TypeOK, CreateTransaction, At, LocalsOK, OrderPC, InvoicePC, EventPC, PC, Request, InvNo
<1>3. RowsOK' /\ nInv' = nInv
  BY <1>1, <1>2, CommerceAssumption DEF TypeInv, TypeOK, RowsOK, Request, CreateTransaction, dbVars, stkVars, extVars, InvNo, Phase, Open, InvStatus, ResStatus, RowStatus, ProvStatus
<1>4. req' = [req EXCEPT ![r] = req'[r]]
  BY DEF TypeInv, TypeOK, CreateTransaction, Idle
<1>5. req'[r] \in Request
  BY <1>1, <1>2, CommerceAssumption DEF TypeInv, TypeOK, CreateTransaction, Request, PC, Idle, Stock, RowStatus, InvStatus, ProvStatus
<1>6. /\ req'[r].pc = "sp_commit"
     /\ req'[r].o = req[r].o /\ req'[r].k = req[r].k /\ req'[r].e = req[r].e
  BY <1>1, <1>2 DEF TypeInv, TypeOK, CreateTransaction, At, Idle, Request
<1>7. LocalsOK(req'[r], nInv')
  BY <1>1, <1>2, <1>3, <1>6 DEF LocalsOK, OrderPC, InvoicePC, EventPC, PC, Request
<1>8. \A p \in Order : nInv[p] <= nInv'[p]
  BY <1>3 DEF TypeInv, TypeOK
<1> QED BY <1>3, <1>4, <1>5, <1>7, <1>8, LocalsStep

LEMMA SendPaymentLinkCommitType ==
  ASSUME TypeInv, NEW r \in Req, SendPaymentLinkCommit(r)
  PROVE  TypeInv'
<1>1. req[r] \in Request /\ LocalsOK(req[r], nInv) BY DEF TypeInv, TypeOK
<1>2. req[r].o \in Order /\ req[r].k \in 1..nInv[req[r].o] /\ req[r].k \in InvNo
  BY <1>1, CommerceAssumption DEF TypeInv, TypeOK, SendPaymentLinkCommit, At, LocalsOK, OrderPC, InvoicePC, EventPC, PC, Request, InvNo
<1>3. RowsOK' /\ nInv' = nInv
  BY <1>1, <1>2, CommerceAssumption DEF TypeInv, TypeOK, RowsOK, Request, SendPaymentLinkCommit, Finish, dbVars, stkVars, extVars, InvNo, Phase, Open, InvStatus, ResStatus, RowStatus, ProvStatus
<1>4. req' = [req EXCEPT ![r] = req'[r]]
  BY DEF TypeInv, TypeOK, SendPaymentLinkCommit, Finish, Idle
<1>5. req'[r] \in Request
  BY <1>1, <1>2, CommerceAssumption DEF TypeInv, TypeOK, SendPaymentLinkCommit, Finish, Request, PC, Idle, Stock, RowStatus, InvStatus, ProvStatus
<1>6. /\ req'[r].pc = "idle"
  BY <1>1, <1>2 DEF TypeInv, TypeOK, SendPaymentLinkCommit, Finish, At, Idle, Request
<1>7. LocalsOK(req'[r], nInv')
  BY <1>1, <1>2, <1>3, <1>6 DEF LocalsOK, OrderPC, InvoicePC, EventPC, PC, Request
<1>8. \A p \in Order : nInv[p] <= nInv'[p]
  BY <1>3 DEF TypeInv, TypeOK
<1> QED BY <1>3, <1>4, <1>5, <1>7, <1>8, LocalsStep

LEMMA CancelInvoicesType ==
  ASSUME TypeInv, NEW r \in Req, CancelInvoices(r)
  PROVE  TypeInv'
<1>1. req[r] \in Request /\ LocalsOK(req[r], nInv) BY DEF TypeInv, TypeOK
<1>2. req[r].o \in Order
  BY <1>1, CommerceAssumption DEF TypeInv, TypeOK, CancelInvoices, At, LocalsOK, OrderPC, InvoicePC, EventPC, PC, Request, InvNo
<1>3. RowsOK' /\ nInv' = nInv
  BY <1>1, <1>2, CommerceAssumption DEF TypeInv, TypeOK, RowsOK, Request, CancelInvoices, dbVars, stkVars, extVars, InvNo, Phase, Open, InvStatus, ResStatus, RowStatus, ProvStatus
<1>n. nInv[req[r].o] \in 0..MaxInv /\ (nInv[req[r].o] # 0 => inv[req[r].o][nInv[req[r].o]] \in InvStatus)
  BY <1>2, CommerceAssumption DEF TypeInv, TypeOK, InvNo
<1>4. req' = [req EXCEPT ![r] = req'[r]]
  BY DEF TypeInv, TypeOK, CancelInvoices, Idle
<1>5. req'[r] \in Request
  <2>1. PICK p \in {"ca_provider", "ca_resv"}, s \in InvStatus :
          req'[r] = [req[r] EXCEPT !.pc = p, !.k = nInv[req[r].o], !.st = s]
    <3>1. "NONE" \in InvStatus BY DEF InvStatus
    <3> QED BY <1>2, <1>n, <3>1 DEF TypeInv, TypeOK, CancelInvoices
  <2> QED BY <1>1, <1>n, <2>1 DEF Request, PC
<1>6. /\ req'[r].pc \in {"ca_provider", "ca_resv"}
     /\ req'[r].o = req[r].o
  BY <1>1, <1>2, <1>n DEF TypeInv, TypeOK, CancelInvoices, At, Idle, Request
<1>7. LocalsOK(req'[r], nInv')
  BY <1>1, <1>2, <1>n, <1>3, <1>6 DEF LocalsOK, OrderPC, InvoicePC, EventPC, PC, Request
<1>8. \A p \in Order : nInv[p] <= nInv'[p]
  BY <1>3 DEF TypeInv, TypeOK
<1> QED BY <1>3, <1>4, <1>5, <1>7, <1>8, LocalsStep

LEMMA CancelTransactionType ==
  ASSUME TypeInv, NEW r \in Req, CancelTransaction(r)
  PROVE  TypeInv'
<1>1. req[r] \in Request /\ LocalsOK(req[r], nInv) BY DEF TypeInv, TypeOK
<1>2. req[r].o \in Order
  BY <1>1, CommerceAssumption DEF TypeInv, TypeOK, CancelTransaction, At, LocalsOK, OrderPC, InvoicePC, EventPC, PC, Request, InvNo
<1>3. RowsOK' /\ nInv' = nInv
  BY <1>1, <1>2, CommerceAssumption DEF TypeInv, TypeOK, RowsOK, Request, CancelTransaction, dbVars, stkVars, extVars, InvNo, Phase, Open, InvStatus, ResStatus, RowStatus, ProvStatus
<1>4. req' = [req EXCEPT ![r] = req'[r]]
  BY DEF TypeInv, TypeOK, CancelTransaction, Idle
<1>5. req'[r] \in Request
  BY <1>1, <1>2, CommerceAssumption DEF TypeInv, TypeOK, CancelTransaction, Request, PC, Idle, Stock, RowStatus, InvStatus, ProvStatus
<1>6. /\ req'[r].pc = "ca_resv"
     /\ req'[r].o = req[r].o /\ req'[r].k = req[r].k /\ req'[r].e = req[r].e
  BY <1>1, <1>2 DEF TypeInv, TypeOK, CancelTransaction, At, Idle, Request
<1>7. LocalsOK(req'[r], nInv')
  BY <1>1, <1>2, <1>3, <1>6 DEF LocalsOK, OrderPC, InvoicePC, EventPC, PC, Request
<1>8. \A p \in Order : nInv[p] <= nInv'[p]
  BY <1>3 DEF TypeInv, TypeOK
<1> QED BY <1>3, <1>4, <1>5, <1>7, <1>8, LocalsStep

LEMMA CancelReservationsType ==
  ASSUME TypeInv, NEW r \in Req, CancelReservations(r)
  PROVE  TypeInv'
<1>1. req[r] \in Request /\ LocalsOK(req[r], nInv) BY DEF TypeInv, TypeOK
<1>2. req[r].o \in Order
  BY <1>1, CommerceAssumption DEF TypeInv, TypeOK, CancelReservations, At, LocalsOK, OrderPC, InvoicePC, EventPC, PC, Request, InvNo
<1>3. RowsOK' /\ nInv' = nInv
  BY <1>1, <1>2, CommerceAssumption DEF TypeInv, TypeOK, RowsOK, Request, CancelReservations, ActiveOf, dbVars, stkVars, extVars, InvNo, Phase, Open, InvStatus, ResStatus, RowStatus, ProvStatus
<1>4. req' = [req EXCEPT ![r] = req'[r]]
  BY DEF TypeInv, TypeOK, CancelReservations, ActiveOf, Idle
<1>5. req'[r] \in Request
  BY <1>1, <1>2, CommerceAssumption DEF TypeInv, TypeOK, CancelReservations, ActiveOf, Request, PC, Idle, Stock, RowStatus, InvStatus, ProvStatus
<1>6. /\ req'[r].pc = "ca_var"
     /\ req'[r].o = req[r].o /\ req'[r].k = req[r].k /\ req'[r].e = req[r].e
  BY <1>1, <1>2 DEF TypeInv, TypeOK, CancelReservations, ActiveOf, At, Idle, Request
<1>7. LocalsOK(req'[r], nInv')
  BY <1>1, <1>2, <1>3, <1>6 DEF LocalsOK, OrderPC, InvoicePC, EventPC, PC, Request
<1>8. \A p \in Order : nInv[p] <= nInv'[p]
  BY <1>3 DEF TypeInv, TypeOK
<1> QED BY <1>3, <1>4, <1>5, <1>7, <1>8, LocalsStep

LEMMA CancelVariantType ==
  ASSUME TypeInv, NEW r \in Req, CancelVariant(r)
  PROVE  TypeInv'
<1>1. req[r] \in Request /\ LocalsOK(req[r], nInv) BY DEF TypeInv, TypeOK
<1>2. req[r].o \in Order
  BY <1>1, CommerceAssumption DEF TypeInv, TypeOK, CancelVariant, At, LocalsOK, OrderPC, InvoicePC, EventPC, PC, Request, InvNo
<1>3. RowsOK' /\ nInv' = nInv
  BY <1>1, <1>2, CommerceAssumption DEF TypeInv, TypeOK, RowsOK, Request, CancelVariant, StockReadFor, CurrentStock, dbVars, stkVars, extVars, InvNo, Phase, Open, InvStatus, ResStatus, RowStatus, ProvStatus
<1>4. req' = [req EXCEPT ![r] = req'[r]]
  BY DEF TypeInv, TypeOK, CancelVariant, StockReadFor, CurrentStock, Idle
<1>5. req'[r] \in Request
  BY <1>1, <1>2, CommerceAssumption DEF TypeInv, TypeOK, CancelVariant, StockReadFor, CurrentStock, Request, PC, Idle, Stock, RowStatus, InvStatus, ProvStatus
<1>6. /\ req'[r].pc = "ca_commit"
     /\ req'[r].o = req[r].o /\ req'[r].k = req[r].k /\ req'[r].e = req[r].e
  BY <1>1, <1>2 DEF TypeInv, TypeOK, CancelVariant, StockReadFor, CurrentStock, At, Idle, Request
<1>7. LocalsOK(req'[r], nInv')
  BY <1>1, <1>2, <1>3, <1>6 DEF LocalsOK, OrderPC, InvoicePC, EventPC, PC, Request
<1>8. \A p \in Order : nInv[p] <= nInv'[p]
  BY <1>3 DEF TypeInv, TypeOK
<1> QED BY <1>3, <1>4, <1>5, <1>7, <1>8, LocalsStep

LEMMA CancelCommitType ==
  ASSUME TypeInv, NEW r \in Req, CancelCommit(r)
  PROVE  TypeInv'
<1>1. req[r] \in Request /\ LocalsOK(req[r], nInv) BY DEF TypeInv, TypeOK
<1>2. req[r].o \in Order
  BY <1>1, CommerceAssumption DEF TypeInv, TypeOK, CancelCommit, At, LocalsOK, OrderPC, InvoicePC, EventPC, PC, Request, InvNo
<1>t. req[r].rs \in SUBSET Rid /\ Total(req[r].rs) \in Nat
  BY <1>1, TotalType DEF Request
<1>v. Monus(req[r].v.onHand, Total(req[r].rs)) \in Nat /\ Monus(req[r].v.reserved, Total(req[r].rs)) \in Nat
  BY <1>1, <1>t, MonusType DEF Request, Stock
<1>w. /\ onHand' \in Nat /\ reserved' \in Nat
      /\ resStatus' \in [Rid -> ResStatus] /\ deducts' \in [Rid -> Nat]
      /\ resOrder' = resOrder /\ resQty' = resQty
  BY <1>1, <1>t, <1>v DEF TypeInv, TypeOK, CancelCommit, Release, ResStatus
<1>i. inv' \in [Order -> [InvNo -> InvStatus]]
  <2>1. inv \in [Order -> [InvNo -> InvStatus]] /\ "CANCELLED" \in InvStatus
    BY DEF TypeInv, TypeOK, InvStatus
  <2>2. [inv EXCEPT ![req[r].o][req[r].k] = "CANCELLED"] \in [Order -> [InvNo -> InvStatus]]
    BY <1>2, <2>1, InvUpdate
  <2> QED BY <2>1, <2>2 DEF CancelCommit
<1>3. RowsOK' /\ nInv' = nInv
  BY <1>1, <1>2, <1>w, <1>i, CommerceAssumption DEF TypeInv, TypeOK, RowsOK, Request, CancelCommit, Finish, dbVars, stkVars, extVars, InvNo, Phase, Open, InvStatus, ResStatus, RowStatus, ProvStatus
<1>4. req' = [req EXCEPT ![r] = req'[r]]
  BY DEF TypeInv, TypeOK, CancelCommit, Finish, Idle
<1>5. req'[r] \in Request
  BY <1>1, <1>2, CommerceAssumption DEF TypeInv, TypeOK, CancelCommit, Finish, Request, PC, Idle, Stock, RowStatus, InvStatus, ProvStatus
<1>6. /\ req'[r].pc = "idle"
  BY <1>1, <1>2 DEF TypeInv, TypeOK, CancelCommit, Finish, At, Idle, Request
<1>7. LocalsOK(req'[r], nInv')
  BY <1>1, <1>2, <1>3, <1>6 DEF LocalsOK, OrderPC, InvoicePC, EventPC, PC, Request
<1>8. \A p \in Order : nInv[p] <= nInv'[p]
  BY <1>3 DEF TypeInv, TypeOK
<1> QED BY <1>3, <1>4, <1>5, <1>7, <1>8, LocalsStep

LEMMA WebhookNotFoundType ==
  ASSUME TypeInv, NEW r \in Req, WebhookNotFound(r)
  PROVE  TypeInv'
<1>1. req[r] \in Request /\ LocalsOK(req[r], nInv) BY DEF TypeInv, TypeOK
<1>2. req[r].e \in Event
  BY <1>1, CommerceAssumption DEF TypeInv, TypeOK, WebhookNotFound, At, LocalsOK, OrderPC, InvoicePC, EventPC, PC, Request, InvNo
<1>3. RowsOK' /\ nInv' = nInv
  BY <1>1, <1>2, CommerceAssumption DEF TypeInv, TypeOK, RowsOK, Request, WebhookNotFound, Finish, dbVars, stkVars, extVars, InvNo, Phase, Open, InvStatus, ResStatus, RowStatus, ProvStatus
<1>4. req' = [req EXCEPT ![r] = req'[r]]
  BY DEF TypeInv, TypeOK, WebhookNotFound, Finish, Idle
<1>5. req'[r] \in Request
  BY <1>1, <1>2, CommerceAssumption DEF TypeInv, TypeOK, WebhookNotFound, Finish, Request, PC, Idle, Stock, RowStatus, InvStatus, ProvStatus
<1>6. /\ req'[r].pc = "idle"
  BY <1>1, <1>2 DEF TypeInv, TypeOK, WebhookNotFound, Finish, At, Idle, Request
<1>7. LocalsOK(req'[r], nInv')
  BY <1>1, <1>2, <1>3, <1>6 DEF LocalsOK, OrderPC, InvoicePC, EventPC, PC, Request
<1>8. \A p \in Order : nInv[p] <= nInv'[p]
  BY <1>3 DEF TypeInv, TypeOK
<1> QED BY <1>3, <1>4, <1>5, <1>7, <1>8, LocalsStep

LEMMA WebhookVerifyType ==
  ASSUME TypeInv, NEW r \in Req, WebhookVerify(r)
  PROVE  TypeInv'
<1>1. req[r] \in Request /\ LocalsOK(req[r], nInv) BY DEF TypeInv, TypeOK
<1>2. req[r].o \in Order /\ req[r].k \in 1..nInv[req[r].o] /\ req[r].k \in InvNo /\ req[r].e \in Event
  BY <1>1, CommerceAssumption DEF TypeInv, TypeOK, WebhookVerify, At, LocalsOK, OrderPC, InvoicePC, EventPC, PC, Request, InvNo
<1>3. RowsOK' /\ nInv' = nInv
  BY <1>1, <1>2, CommerceAssumption DEF TypeInv, TypeOK, RowsOK, Request, WebhookVerify, dbVars, stkVars, extVars, InvNo, Phase, Open, InvStatus, ResStatus, RowStatus, ProvStatus
<1>4. req' = [req EXCEPT ![r] = req'[r]]
  BY DEF TypeInv, TypeOK, WebhookVerify, Idle
<1>5. req'[r] \in Request
  BY <1>1, <1>2, CommerceAssumption DEF TypeInv, TypeOK, WebhookVerify, Request, PC, Idle, Stock, RowStatus, InvStatus, ProvStatus
<1>6. /\ req'[r].pc \in {"pd_read", "wx_lock", "wh_done"}
     /\ req'[r].o = req[r].o /\ req'[r].k = req[r].k /\ req'[r].e = req[r].e
     /\ (req'[r].pc = "wx_lock" => req'[r].st \in {"CANCELLED", "EXPIRED"})
  BY <1>1, <1>2 DEF TypeInv, TypeOK, WebhookVerify, At, Idle, Request
<1>7. LocalsOK(req'[r], nInv')
  BY <1>1, <1>2, <1>3, <1>6 DEF LocalsOK, OrderPC, InvoicePC, EventPC, PC, Request
<1>8. \A p \in Order : nInv[p] <= nInv'[p]
  BY <1>3 DEF TypeInv, TypeOK
<1> QED BY <1>3, <1>4, <1>5, <1>7, <1>8, LocalsStep

LEMMA PaidReadType ==
  ASSUME TypeInv, NEW r \in Req, PaidRead(r)
  PROVE  TypeInv'
<1>1. req[r] \in Request /\ LocalsOK(req[r], nInv) BY DEF TypeInv, TypeOK
<1>2. req[r].o \in Order /\ req[r].k \in 1..nInv[req[r].o] /\ req[r].k \in InvNo /\ req[r].e \in Event
  BY <1>1, CommerceAssumption DEF TypeInv, TypeOK, PaidRead, At, LocalsOK, OrderPC, InvoicePC, EventPC, PC, Request, InvNo
<1>3. RowsOK' /\ nInv' = nInv
  BY <1>1, <1>2, CommerceAssumption DEF TypeInv, TypeOK, RowsOK, Request, PaidRead, dbVars, stkVars, extVars, InvNo, Phase, Open, InvStatus, ResStatus, RowStatus, ProvStatus
<1>4. req' = [req EXCEPT ![r] = req'[r]]
  BY DEF TypeInv, TypeOK, PaidRead, Idle
<1>5. req'[r] \in Request
  BY <1>1, <1>2, CommerceAssumption DEF TypeInv, TypeOK, PaidRead, Request, PC, Idle, Stock, RowStatus, InvStatus, ProvStatus
<1>6. /\ req'[r].pc \in {"nt_check", "pd_lock"}
     /\ req'[r].o = req[r].o /\ req'[r].k = req[r].k /\ req'[r].e = req[r].e
  BY <1>1, <1>2 DEF TypeInv, TypeOK, PaidRead, At, Idle, Request
<1>7. LocalsOK(req'[r], nInv')
  BY <1>1, <1>2, <1>3, <1>6 DEF LocalsOK, OrderPC, InvoicePC, EventPC, PC, Request
<1>8. \A p \in Order : nInv[p] <= nInv'[p]
  BY <1>3 DEF TypeInv, TypeOK
<1> QED BY <1>3, <1>4, <1>5, <1>7, <1>8, LocalsStep

LEMMA PaidLockType ==
  ASSUME TypeInv, NEW r \in Req, PaidLock(r)
  PROVE  TypeInv'
<1>1. req[r] \in Request /\ LocalsOK(req[r], nInv) BY DEF TypeInv, TypeOK
<1>2. req[r].o \in Order /\ req[r].k \in 1..nInv[req[r].o] /\ req[r].k \in InvNo /\ req[r].e \in Event
  BY <1>1, CommerceAssumption DEF TypeInv, TypeOK, PaidLock, At, LocalsOK, OrderPC, InvoicePC, EventPC, PC, Request, InvNo
<1>3. RowsOK' /\ nInv' = nInv
  BY <1>1, <1>2, CommerceAssumption DEF TypeInv, TypeOK, RowsOK, Request, PaidLock, ActiveOf, dbVars, stkVars, extVars, InvNo, Phase, Open, InvStatus, ResStatus, RowStatus, ProvStatus
<1>4. req' = [req EXCEPT ![r] = req'[r]]
  BY DEF TypeInv, TypeOK, PaidLock, ActiveOf, Idle
<1>5. req'[r] \in Request
  BY <1>1, <1>2, CommerceAssumption DEF TypeInv, TypeOK, PaidLock, ActiveOf, Request, PC, Idle, Stock, RowStatus, InvStatus, ProvStatus
<1>6. /\ req'[r].pc = "pd_var"
     /\ req'[r].o = req[r].o /\ req'[r].k = req[r].k /\ req'[r].e = req[r].e
  BY <1>1, <1>2 DEF TypeInv, TypeOK, PaidLock, ActiveOf, At, Idle, Request
<1>7. LocalsOK(req'[r], nInv')
  BY <1>1, <1>2, <1>3, <1>6 DEF LocalsOK, OrderPC, InvoicePC, EventPC, PC, Request
<1>8. \A p \in Order : nInv[p] <= nInv'[p]
  BY <1>3 DEF TypeInv, TypeOK
<1> QED BY <1>3, <1>4, <1>5, <1>7, <1>8, LocalsStep

LEMMA PaidVariantType ==
  ASSUME TypeInv, NEW r \in Req, PaidVariant(r)
  PROVE  TypeInv'
<1>1. req[r] \in Request /\ LocalsOK(req[r], nInv) BY DEF TypeInv, TypeOK
<1>2. req[r].o \in Order /\ req[r].k \in 1..nInv[req[r].o] /\ req[r].k \in InvNo /\ req[r].e \in Event
  BY <1>1, CommerceAssumption DEF TypeInv, TypeOK, PaidVariant, At, LocalsOK, OrderPC, InvoicePC, EventPC, PC, Request, InvNo
<1>3. RowsOK' /\ nInv' = nInv
  BY <1>1, <1>2, CommerceAssumption DEF TypeInv, TypeOK, RowsOK, Request, PaidVariant, StockReadFor, CurrentStock, dbVars, stkVars, extVars, InvNo, Phase, Open, InvStatus, ResStatus, RowStatus, ProvStatus
<1>4. req' = [req EXCEPT ![r] = req'[r]]
  BY DEF TypeInv, TypeOK, PaidVariant, StockReadFor, CurrentStock, Idle
<1>5. req'[r] \in Request
  BY <1>1, <1>2, CommerceAssumption DEF TypeInv, TypeOK, PaidVariant, StockReadFor, CurrentStock, Request, PC, Idle, Stock, RowStatus, InvStatus, ProvStatus
<1>6. /\ req'[r].pc = "pd_commit"
     /\ req'[r].o = req[r].o /\ req'[r].k = req[r].k /\ req'[r].e = req[r].e
  BY <1>1, <1>2 DEF TypeInv, TypeOK, PaidVariant, StockReadFor, CurrentStock, At, Idle, Request
<1>7. LocalsOK(req'[r], nInv')
  BY <1>1, <1>2, <1>3, <1>6 DEF LocalsOK, OrderPC, InvoicePC, EventPC, PC, Request
<1>8. \A p \in Order : nInv[p] <= nInv'[p]
  BY <1>3 DEF TypeInv, TypeOK
<1> QED BY <1>3, <1>4, <1>5, <1>7, <1>8, LocalsStep

LEMMA PaidCommitType ==
  ASSUME TypeInv, NEW r \in Req, PaidCommit(r)
  PROVE  TypeInv'
<1>1. req[r] \in Request /\ LocalsOK(req[r], nInv) BY DEF TypeInv, TypeOK
<1>2. req[r].o \in Order /\ req[r].k \in 1..nInv[req[r].o] /\ req[r].k \in InvNo /\ req[r].e \in Event
  BY <1>1, CommerceAssumption DEF TypeInv, TypeOK, PaidCommit, At, LocalsOK, OrderPC, InvoicePC, EventPC, PC, Request, InvNo
<1>t. req[r].rs \in SUBSET Rid /\ Total(req[r].rs) \in Nat
  BY <1>1, TotalType DEF Request
<1>v. Monus(req[r].v.onHand, Total(req[r].rs)) \in Nat /\ Monus(req[r].v.reserved, Total(req[r].rs)) \in Nat
  BY <1>1, <1>t, MonusType DEF Request, Stock
<1>w. /\ onHand' \in Nat /\ reserved' \in Nat
      /\ resStatus' \in [Rid -> ResStatus] /\ deducts' \in [Rid -> Nat]
      /\ resOrder' = resOrder /\ resQty' = resQty
  BY <1>1, <1>t, <1>v DEF TypeInv, TypeOK, PaidCommit, Finalize, ResStatus
<1>3. RowsOK' /\ nInv' = nInv
  BY <1>1, <1>2, <1>w, CommerceAssumption DEF TypeInv, TypeOK, RowsOK, Request, PaidCommit, dbVars, stkVars, extVars, InvNo, Phase, Open, InvStatus, ResStatus, RowStatus, ProvStatus
<1>4. req' = [req EXCEPT ![r] = req'[r]]
  BY DEF TypeInv, TypeOK, PaidCommit, Idle
<1>5. req'[r] \in Request
  BY <1>1, <1>2, CommerceAssumption DEF TypeInv, TypeOK, PaidCommit, Request, PC, Idle, Stock, RowStatus, InvStatus, ProvStatus
<1>6. /\ req'[r].pc = "nt_check"
     /\ req'[r].o = req[r].o /\ req'[r].k = req[r].k /\ req'[r].e = req[r].e
  BY <1>1, <1>2 DEF TypeInv, TypeOK, PaidCommit, At, Idle, Request
<1>7. LocalsOK(req'[r], nInv')
  BY <1>1, <1>2, <1>3, <1>6 DEF LocalsOK, OrderPC, InvoicePC, EventPC, PC, Request
<1>8. \A p \in Order : nInv[p] <= nInv'[p]
  BY <1>3 DEF TypeInv, TypeOK
<1> QED BY <1>3, <1>4, <1>5, <1>7, <1>8, LocalsStep

LEMMA ClosingLockType ==
  ASSUME TypeInv, NEW r \in Req, ClosingLock(r)
  PROVE  TypeInv'
<1>1. req[r] \in Request /\ LocalsOK(req[r], nInv) BY DEF TypeInv, TypeOK
<1>2. req[r].o \in Order /\ req[r].k \in 1..nInv[req[r].o] /\ req[r].k \in InvNo /\ req[r].e \in Event /\ req[r].st \in {"CANCELLED", "EXPIRED"}
  BY <1>1, CommerceAssumption DEF TypeInv, TypeOK, ClosingLock, At, LocalsOK, OrderPC, InvoicePC, EventPC, PC, Request, InvNo
<1>3. RowsOK' /\ nInv' = nInv
  BY <1>1, <1>2, CommerceAssumption DEF TypeInv, TypeOK, RowsOK, Request, ClosingLock, ActiveOf, dbVars, stkVars, extVars, InvNo, Phase, Open, InvStatus, ResStatus, RowStatus, ProvStatus
<1>4. req' = [req EXCEPT ![r] = req'[r]]
  BY DEF TypeInv, TypeOK, ClosingLock, ActiveOf, Idle
<1>5. req'[r] \in Request
  BY <1>1, <1>2, CommerceAssumption DEF TypeInv, TypeOK, ClosingLock, ActiveOf, Request, PC, Idle, Stock, RowStatus, InvStatus, ProvStatus
<1>6. /\ req'[r].pc = "wx_var"
     /\ req'[r].o = req[r].o /\ req'[r].k = req[r].k /\ req'[r].e = req[r].e
     /\ req'[r].st = req[r].st
  BY <1>1, <1>2 DEF TypeInv, TypeOK, ClosingLock, ActiveOf, At, Idle, Request
<1>7. LocalsOK(req'[r], nInv')
  BY <1>1, <1>2, <1>3, <1>6 DEF LocalsOK, OrderPC, InvoicePC, EventPC, PC, Request
<1>8. \A p \in Order : nInv[p] <= nInv'[p]
  BY <1>3 DEF TypeInv, TypeOK
<1> QED BY <1>3, <1>4, <1>5, <1>7, <1>8, LocalsStep

LEMMA ClosingVariantType ==
  ASSUME TypeInv, NEW r \in Req, ClosingVariant(r)
  PROVE  TypeInv'
<1>1. req[r] \in Request /\ LocalsOK(req[r], nInv) BY DEF TypeInv, TypeOK
<1>2. req[r].o \in Order /\ req[r].k \in 1..nInv[req[r].o] /\ req[r].k \in InvNo /\ req[r].e \in Event /\ req[r].st \in {"CANCELLED", "EXPIRED"}
  BY <1>1, CommerceAssumption DEF TypeInv, TypeOK, ClosingVariant, At, LocalsOK, OrderPC, InvoicePC, EventPC, PC, Request, InvNo
<1>3. RowsOK' /\ nInv' = nInv
  BY <1>1, <1>2, CommerceAssumption DEF TypeInv, TypeOK, RowsOK, Request, ClosingVariant, StockReadFor, CurrentStock, dbVars, stkVars, extVars, InvNo, Phase, Open, InvStatus, ResStatus, RowStatus, ProvStatus
<1>4. req' = [req EXCEPT ![r] = req'[r]]
  BY DEF TypeInv, TypeOK, ClosingVariant, StockReadFor, CurrentStock, Idle
<1>5. req'[r] \in Request
  BY <1>1, <1>2, CommerceAssumption DEF TypeInv, TypeOK, ClosingVariant, StockReadFor, CurrentStock, Request, PC, Idle, Stock, RowStatus, InvStatus, ProvStatus
<1>6. /\ req'[r].pc = "wx_commit"
     /\ req'[r].o = req[r].o /\ req'[r].k = req[r].k /\ req'[r].e = req[r].e
     /\ req'[r].st = req[r].st
  BY <1>1, <1>2 DEF TypeInv, TypeOK, ClosingVariant, StockReadFor, CurrentStock, At, Idle, Request
<1>7. LocalsOK(req'[r], nInv')
  BY <1>1, <1>2, <1>3, <1>6 DEF LocalsOK, OrderPC, InvoicePC, EventPC, PC, Request
<1>8. \A p \in Order : nInv[p] <= nInv'[p]
  BY <1>3 DEF TypeInv, TypeOK
<1> QED BY <1>3, <1>4, <1>5, <1>7, <1>8, LocalsStep

LEMMA ClosingCommitType ==
  ASSUME TypeInv, NEW r \in Req, ClosingCommit(r)
  PROVE  TypeInv'
<1>1. req[r] \in Request /\ LocalsOK(req[r], nInv) BY DEF TypeInv, TypeOK
<1>2. req[r].o \in Order /\ req[r].k \in 1..nInv[req[r].o] /\ req[r].k \in InvNo /\ req[r].e \in Event /\ req[r].st \in {"CANCELLED", "EXPIRED"}
  BY <1>1, CommerceAssumption DEF TypeInv, TypeOK, ClosingCommit, At, LocalsOK, OrderPC, InvoicePC, EventPC, PC, Request, InvNo
<1>t. req[r].rs \in SUBSET Rid /\ Total(req[r].rs) \in Nat
  BY <1>1, TotalType DEF Request
<1>v. Monus(req[r].v.onHand, Total(req[r].rs)) \in Nat /\ Monus(req[r].v.reserved, Total(req[r].rs)) \in Nat
  BY <1>1, <1>t, MonusType DEF Request, Stock
<1>w. /\ onHand' \in Nat /\ reserved' \in Nat
      /\ resStatus' \in [Rid -> ResStatus] /\ deducts' \in [Rid -> Nat]
      /\ resOrder' = resOrder /\ resQty' = resQty
  BY <1>1, <1>t, <1>v DEF TypeInv, TypeOK, ClosingCommit, Release, ResStatus
<1>3. RowsOK' /\ nInv' = nInv
  BY <1>1, <1>2, <1>w, CommerceAssumption DEF TypeInv, TypeOK, RowsOK, Request, ClosingCommit, dbVars, stkVars, extVars, InvNo, Phase, Open, InvStatus, ResStatus, RowStatus, ProvStatus
<1>4. req' = [req EXCEPT ![r] = req'[r]]
  BY DEF TypeInv, TypeOK, ClosingCommit, Idle
<1>5. req'[r] \in Request
  BY <1>1, <1>2, CommerceAssumption DEF TypeInv, TypeOK, ClosingCommit, Request, PC, Idle, Stock, RowStatus, InvStatus, ProvStatus
<1>6. /\ req'[r].pc = "wh_done"
     /\ req'[r].o = req[r].o /\ req'[r].k = req[r].k /\ req'[r].e = req[r].e
  BY <1>1, <1>2 DEF TypeInv, TypeOK, ClosingCommit, At, Idle, Request
<1>7. LocalsOK(req'[r], nInv')
  BY <1>1, <1>2, <1>3, <1>6 DEF LocalsOK, OrderPC, InvoicePC, EventPC, PC, Request
<1>8. \A p \in Order : nInv[p] <= nInv'[p]
  BY <1>3 DEF TypeInv, TypeOK
<1> QED BY <1>3, <1>4, <1>5, <1>7, <1>8, LocalsStep

LEMMA NotifyLookType ==
  ASSUME TypeInv, NEW r \in Req, NotifyLook(r)
  PROVE  TypeInv'
<1>1. req[r] \in Request /\ LocalsOK(req[r], nInv) BY DEF TypeInv, TypeOK
<1>2. req[r].o \in Order /\ req[r].k \in 1..nInv[req[r].o] /\ req[r].k \in InvNo /\ req[r].e \in Event
  BY <1>1, CommerceAssumption DEF TypeInv, TypeOK, NotifyLook, At, LocalsOK, OrderPC, InvoicePC, EventPC, PC, Request, InvNo
<1>3. RowsOK' /\ nInv' = nInv
  BY <1>1, <1>2, CommerceAssumption DEF TypeInv, TypeOK, RowsOK, Request, NotifyLook, dbVars, stkVars, extVars, InvNo, Phase, Open, InvStatus, ResStatus, RowStatus, ProvStatus
<1>4. req' = [req EXCEPT ![r] = req'[r]]
  BY DEF TypeInv, TypeOK, NotifyLook, Idle
<1>5. req'[r] \in Request
  BY <1>1, <1>2, CommerceAssumption DEF TypeInv, TypeOK, NotifyLook, Request, PC, Idle, Stock, RowStatus, InvStatus, ProvStatus
<1>6. /\ req'[r].pc \in {"wh_done", "nt_recheck", "nt_create"}
     /\ req'[r].o = req[r].o /\ req'[r].k = req[r].k /\ req'[r].e = req[r].e
  BY <1>1, <1>2 DEF TypeInv, TypeOK, NotifyLook, At, Idle, Request
<1>7. LocalsOK(req'[r], nInv')
  BY <1>1, <1>2, <1>3, <1>6 DEF LocalsOK, OrderPC, InvoicePC, EventPC, PC, Request
<1>8. \A p \in Order : nInv[p] <= nInv'[p]
  BY <1>3 DEF TypeInv, TypeOK
<1> QED BY <1>3, <1>4, <1>5, <1>7, <1>8, LocalsStep

LEMMA NotifyCreateType ==
  ASSUME TypeInv, NEW r \in Req, NotifyCreate(r)
  PROVE  TypeInv'
<1>1. req[r] \in Request /\ LocalsOK(req[r], nInv) BY DEF TypeInv, TypeOK
<1>2. req[r].o \in Order /\ req[r].k \in 1..nInv[req[r].o] /\ req[r].k \in InvNo /\ req[r].e \in Event
  BY <1>1, CommerceAssumption DEF TypeInv, TypeOK, NotifyCreate, At, LocalsOK, OrderPC, InvoicePC, EventPC, PC, Request, InvNo
<1>3. RowsOK' /\ nInv' = nInv
  BY <1>1, <1>2, CommerceAssumption DEF TypeInv, TypeOK, RowsOK, Request, NotifyCreate, dbVars, stkVars, extVars, InvNo, Phase, Open, InvStatus, ResStatus, RowStatus, ProvStatus
<1>4. req' = [req EXCEPT ![r] = req'[r]]
  BY DEF TypeInv, TypeOK, NotifyCreate, Idle
<1>5. req'[r] \in Request
  BY <1>1, <1>2, CommerceAssumption DEF TypeInv, TypeOK, NotifyCreate, Request, PC, Idle, Stock, RowStatus, InvStatus, ProvStatus
<1>6. /\ req'[r].pc = "wh_done"
     /\ req'[r].o = req[r].o /\ req'[r].k = req[r].k /\ req'[r].e = req[r].e
  BY <1>1, <1>2 DEF TypeInv, TypeOK, NotifyCreate, At, Idle, Request
<1>7. LocalsOK(req'[r], nInv')
  BY <1>1, <1>2, <1>3, <1>6 DEF LocalsOK, OrderPC, InvoicePC, EventPC, PC, Request
<1>8. \A p \in Order : nInv[p] <= nInv'[p]
  BY <1>3 DEF TypeInv, TypeOK
<1> QED BY <1>3, <1>4, <1>5, <1>7, <1>8, LocalsStep

LEMMA NotifyFailedType ==
  ASSUME TypeInv, NEW r \in Req, NotifyFailed(r)
  PROVE  TypeInv'
<1>1. req[r] \in Request /\ LocalsOK(req[r], nInv) BY DEF TypeInv, TypeOK
<1>2. req[r].o \in Order /\ req[r].k \in 1..nInv[req[r].o] /\ req[r].k \in InvNo /\ req[r].e \in Event
  BY <1>1, CommerceAssumption DEF TypeInv, TypeOK, NotifyFailed, At, LocalsOK, OrderPC, InvoicePC, EventPC, PC, Request, InvNo
<1>3. RowsOK' /\ nInv' = nInv
  BY <1>1, <1>2, CommerceAssumption DEF TypeInv, TypeOK, RowsOK, Request, NotifyFailed, dbVars, stkVars, extVars, InvNo, Phase, Open, InvStatus, ResStatus, RowStatus, ProvStatus
<1>4. req' = [req EXCEPT ![r] = req'[r]]
  BY DEF TypeInv, TypeOK, NotifyFailed, Idle
<1>5. req'[r] \in Request
  BY <1>1, <1>2, CommerceAssumption DEF TypeInv, TypeOK, NotifyFailed, Request, PC, Idle, Stock, RowStatus, InvStatus, ProvStatus
<1>6. /\ req'[r].pc = "wh_done"
     /\ req'[r].o = req[r].o /\ req'[r].k = req[r].k /\ req'[r].e = req[r].e
  BY <1>1, <1>2 DEF TypeInv, TypeOK, NotifyFailed, At, Idle, Request
<1>7. LocalsOK(req'[r], nInv')
  BY <1>1, <1>2, <1>3, <1>6 DEF LocalsOK, OrderPC, InvoicePC, EventPC, PC, Request
<1>8. \A p \in Order : nInv[p] <= nInv'[p]
  BY <1>3 DEF TypeInv, TypeOK
<1> QED BY <1>3, <1>4, <1>5, <1>7, <1>8, LocalsStep

LEMMA WebhookDoneType ==
  ASSUME TypeInv, NEW r \in Req, WebhookDone(r)
  PROVE  TypeInv'
<1>1. req[r] \in Request /\ LocalsOK(req[r], nInv) BY DEF TypeInv, TypeOK
<1>2. req[r].e \in Event
  BY <1>1, CommerceAssumption DEF TypeInv, TypeOK, WebhookDone, At, LocalsOK, OrderPC, InvoicePC, EventPC, PC, Request, InvNo
<1>3. RowsOK' /\ nInv' = nInv
  BY <1>1, <1>2, CommerceAssumption DEF TypeInv, TypeOK, RowsOK, Request, WebhookDone, Finish, dbVars, stkVars, extVars, InvNo, Phase, Open, InvStatus, ResStatus, RowStatus, ProvStatus
<1>4. req' = [req EXCEPT ![r] = req'[r]]
  BY DEF TypeInv, TypeOK, WebhookDone, Finish, Idle
<1>5. req'[r] \in Request
  BY <1>1, <1>2, CommerceAssumption DEF TypeInv, TypeOK, WebhookDone, Finish, Request, PC, Idle, Stock, RowStatus, InvStatus, ProvStatus
<1>6. /\ req'[r].pc = "idle"
  BY <1>1, <1>2 DEF TypeInv, TypeOK, WebhookDone, Finish, At, Idle, Request
<1>7. LocalsOK(req'[r], nInv')
  BY <1>1, <1>2, <1>3, <1>6 DEF LocalsOK, OrderPC, InvoicePC, EventPC, PC, Request
<1>8. \A p \in Order : nInv[p] <= nInv'[p]
  BY <1>3 DEF TypeInv, TypeOK
<1> QED BY <1>3, <1>4, <1>5, <1>7, <1>8, LocalsStep

LEMMA FailType ==
  ASSUME TypeInv, NEW r \in Req, Fail(r)
  PROVE  TypeInv'
<1>1. req[r] \in Request /\ LocalsOK(req[r], nInv) BY DEF TypeInv, TypeOK
<1>3. RowsOK' /\ nInv' = nInv
  BY <1>1, CommerceAssumption DEF TypeInv, TypeOK, RowsOK, Request, Fail, Finish, dbVars, stkVars, extVars, InvNo, Phase, Open, InvStatus, ResStatus, RowStatus, ProvStatus
<1>4. req' = [req EXCEPT ![r] = req'[r]]
  BY DEF TypeInv, TypeOK, Fail, Finish, Idle
<1>5. req'[r] \in Request
  BY <1>1, CommerceAssumption DEF TypeInv, TypeOK, Fail, Finish, Request, PC, Idle, Stock, RowStatus, InvStatus, ProvStatus
<1>6. /\ req'[r].pc = "idle"
  BY <1>1 DEF TypeInv, TypeOK, Fail, Finish, At, Idle, Request
<1>7. LocalsOK(req'[r], nInv')
  BY <1>1, <1>3, <1>6 DEF LocalsOK, OrderPC, InvoicePC, EventPC, PC, Request
<1>8. \A p \in Order : nInv[p] <= nInv'[p]
  BY <1>3 DEF TypeInv, TypeOK
<1> QED BY <1>3, <1>4, <1>5, <1>7, <1>8, LocalsStep

\* A step that changes no request's locals and no number of invoices.
LEMMA RowsStep ==
  ASSUME TypeInv, RowsOK', req' = req, nInv' = nInv
  PROVE  TypeInv'
<1>1. TypeOK' BY DEF TypeInv, TypeOK, RowsOK
<1>2. \A r \in Req : LocalsOK(req'[r], nInv') BY DEF TypeInv, LocalsOK
<1> QED BY <1>1, <1>2 DEF TypeInv

LEMMA WebhookIdempotentType ==
  ASSUME TypeInv, NEW r \in Req, NEW e \in Event, WebhookIdempotent(r, e)
  PROVE  TypeInv'
<1>3. RowsOK' /\ nInv' = nInv
  BY CommerceAssumption DEF TypeInv, TypeOK, RowsOK, WebhookIdempotent, dbVars, stkVars, extVars, InvNo, Phase, InvStatus, ResStatus, RowStatus, ProvStatus
<1>1. CASE req' = req
  BY <1>1, <1>3, RowsStep
<1>2. CASE req' # req
  <2>1. PICK k \in 1..nInv[EventOf[e]] :
          /\ EventOf[e] \in Order
          /\ req' = [req EXCEPT ![r] = [Idle EXCEPT !.pc = "nt_check", !.o = EventOf[e],
                                                      !.e = e, !.k = k]]
    BY <1>2 DEF WebhookIdempotent
  <2>2. k \in 1..nInv[EventOf[e]] /\ k \in 0..MaxInv
    BY <2>1, CommerceAssumption DEF TypeInv, TypeOK
  <2>3. req'[r] = [Idle EXCEPT !.pc = "nt_check", !.o = EventOf[e], !.e = e, !.k = k]
        /\ req' = [req EXCEPT ![r] = req'[r]]
    BY <2>1 DEF TypeInv, TypeOK
  <2>4. /\ req'[r].pc = "nt_check" /\ req'[r].o = EventOf[e]
        /\ req'[r].e = e /\ req'[r].k = k
    BY <2>3 DEF Idle
  <2>5. req'[r] \in Request
    <3>1. [Idle EXCEPT !.pc = "nt_check", !.o = EventOf[e]] \in Request
      BY <2>1, IdleType DEF Request, PC
    <3>2. \A x \in Request : [x EXCEPT !.e = e, !.k = k] \in Request
      BY <2>2 DEF Request
    <3> QED BY <2>3, <3>1, <3>2
  <2>6. LocalsOK(req'[r], nInv')
    BY <1>3, <2>1, <2>2, <2>4 DEF LocalsOK, OrderPC, InvoicePC, EventPC, PC
  <2>7. \A p \in Order : nInv[p] <= nInv'[p]
    BY <1>3 DEF TypeInv, TypeOK
  <2> QED BY <1>3, <2>3, <2>5, <2>6, <2>7, LocalsStep
<1> QED BY <1>1, <1>2

LEMMA LinkInvoicesType ==
  ASSUME TypeInv, NEW r \in Req, LinkInvoices(r)
  PROVE  TypeInv'
<1>1. req[r] \in Request /\ LocalsOK(req[r], nInv) BY DEF TypeInv, TypeOK
<1>2. req[r].o \in Order /\ nInv[req[r].o] \in 0..MaxInv
  BY <1>1 DEF LinkInvoices, At, LocalsOK, OrderPC, PC, TypeInv, TypeOK
<1>3. RowsOK' /\ nInv' = nInv
  BY DEF TypeInv, TypeOK, RowsOK, LinkInvoices, dbVars, stkVars, extVars
<1>4. req' = [req EXCEPT ![r] = req'[r]]
  BY DEF TypeInv, TypeOK, LinkInvoices, Finish, Idle
<1>5. req'[r] \in Request /\ LocalsOK(req'[r], nInv')
  <2>1. CASE nInv[req[r].o] = 0
    <3>1. req'[r] = Idle BY <2>1 DEF LinkInvoices, Finish, TypeInv, TypeOK
    <3> QED BY <3>1, CommerceAssumption DEF Idle, Request, PC, Stock, RowStatus, InvStatus, LocalsOK, OrderPC, InvoicePC, EventPC
  <2>2. CASE nInv[req[r].o] # 0
    <3>1. PICK k \in 1..nInv[req[r].o] : req' = [req EXCEPT ![r].pc = "sp_create", ![r].k = k]
      BY <2>2 DEF LinkInvoices
    <3>2. k \in 0..MaxInv BY <1>2, CommerceAssumption
    <3>3. req'[r] = [req[r] EXCEPT !.pc = "sp_create", !.k = k]
      BY <3>1 DEF TypeInv, TypeOK
    <3>4. req'[r] \in Request /\ req'[r].pc = "sp_create" /\ req'[r].k = k /\ req'[r].o = req[r].o
      BY <1>1, <3>2, <3>3 DEF Request, PC
    <3> QED BY <1>2, <1>3, <3>1, <3>4 DEF LocalsOK, OrderPC, InvoicePC, EventPC, PC
  <2> QED BY <2>1, <2>2
<1>6. \A p \in Order : nInv[p] <= nInv'[p]
  BY <1>3 DEF TypeInv, TypeOK
<1> QED BY <1>3, <1>4, <1>5, <1>6, LocalsStep

LEMMA WebhookUpsertType ==
  ASSUME TypeInv, NEW r \in Req, WebhookUpsert(r)
  PROVE  TypeInv'
<1>1. req[r] \in Request /\ LocalsOK(req[r], nInv) BY DEF TypeInv, TypeOK
<1>2. req[r].e \in Event
  BY <1>1 DEF WebhookUpsert, At, LocalsOK, EventPC, InvoicePC
<1>3. RowsOK' /\ nInv' = nInv
  BY <1>2 DEF TypeInv, TypeOK, RowsOK, WebhookUpsert, dbVars, stkVars, extVars, RowStatus
<1>4. req' = [req EXCEPT ![r] = req'[r]]
  BY DEF TypeInv, TypeOK, WebhookUpsert, Finish, Idle
<1>5. req'[r] = Idle \/ req'[r] = [req[r] EXCEPT !.pc = "wh_find"]
  BY DEF TypeInv, TypeOK, WebhookUpsert, Finish
<1>6. /\ req'[r] \in Request
      /\ req'[r].pc = "idle" \/ (req'[r].pc = "wh_find" /\ req'[r].e = req[r].e)
  BY <1>1, <1>5, CommerceAssumption DEF Idle, Request, PC, Stock, RowStatus, InvStatus
<1>7. LocalsOK(req'[r], nInv')
  BY <1>2, <1>6 DEF LocalsOK, OrderPC, InvoicePC, EventPC
<1>8. \A p \in Order : nInv[p] <= nInv'[p]
  BY <1>3 DEF TypeInv, TypeOK
<1> QED BY <1>3, <1>4, <1>6, <1>7, <1>8, LocalsStep

LEMMA WebhookFindType ==
  ASSUME TypeInv, NEW r \in Req, WebhookFind(r)
  PROVE  TypeInv'
<1>1. req[r] \in Request /\ LocalsOK(req[r], nInv) BY DEF TypeInv, TypeOK
<1>2. req[r].e \in Event /\ req[r].o \in Order /\ nInv[req[r].o] \in 0..MaxInv
  BY <1>1 DEF WebhookFind, At, LocalsOK, EventPC, InvoicePC, TypeInv, TypeOK
<1>p. PICK k \in 1..nInv[req[r].o] :
        /\ linked' = [linked EXCEPT ![req[r].o][k] = TRUE]
        /\ req' = [req EXCEPT ![r].k = k,
                     ![r].pc = IF Linked(req[r].o) = {} THEN "fb_verify" ELSE "wh_verify"]
  BY DEF WebhookFind
<1>k. k \in 0..MaxInv BY <1>2, CommerceAssumption
<1>3. RowsOK' /\ nInv' = nInv
  BY <1>2, <1>p DEF TypeInv, TypeOK, RowsOK, WebhookFind, dbVars, stkVars, extVars
<1>4. req' = [req EXCEPT ![r] = req'[r]]
  BY <1>p DEF TypeInv, TypeOK
<1>5. req'[r] = [req[r] EXCEPT !.k = k, !.pc = "fb_verify"]
      \/ req'[r] = [req[r] EXCEPT !.k = k, !.pc = "wh_verify"]
  BY <1>p DEF TypeInv, TypeOK
<1>6. /\ req'[r] \in Request /\ req'[r].pc \in {"fb_verify", "wh_verify"}
      /\ req'[r].o = req[r].o /\ req'[r].e = req[r].e /\ req'[r].k = k
  BY <1>1, <1>k, <1>5 DEF Request, PC
<1>7. LocalsOK(req'[r], nInv')
  BY <1>2, <1>3, <1>p, <1>6 DEF LocalsOK, OrderPC, InvoicePC, EventPC
<1>8. \A p \in Order : nInv[p] <= nInv'[p]
  BY <1>3 DEF TypeInv, TypeOK
<1> QED BY <1>3, <1>4, <1>6, <1>7, <1>8, LocalsStep

LEMMA AdjustCommitType ==
  ASSUME TypeInv, NEW r \in Req, NEW d \in Deltas, AdjustCommit(r, d)
  PROVE  TypeInv'
<1>1. req[r] \in Request BY DEF TypeInv, TypeOK
<1>2. onHand' \in Nat
  <2>1. req[r].v.onHand + d \in Int /\ req[r].v.reserved \in Nat
    BY <1>1, CommerceAssumption DEF Request, Stock
  <2> QED BY <2>1 DEF AdjustCommit
<1>3. RowsOK' /\ nInv' = nInv
  BY <1>2 DEF TypeInv, TypeOK, RowsOK, AdjustCommit, dbVars, extVars
<1>4. req' = [req EXCEPT ![r] = req'[r]] /\ req'[r] = Idle
  BY DEF TypeInv, TypeOK, AdjustCommit, Finish
<1>5. req'[r] \in Request /\ LocalsOK(req'[r], nInv')
  BY <1>4, CommerceAssumption DEF Idle, Request, PC, Stock, RowStatus, InvStatus, LocalsOK, OrderPC, InvoicePC, EventPC
<1>6. \A p \in Order : nInv[p] <= nInv'[p]
  BY <1>3 DEF TypeInv, TypeOK
<1> QED BY <1>3, <1>4, <1>5, <1>6, LocalsStep

LEMMA CheckoutCommitType ==
  ASSUME TypeInv, NEW r \in Req, NEW i \in Rid, CheckoutCommit(r, i)
  PROVE  TypeInv'
<1>1. req[r] \in Request /\ LocalsOK(req[r], nInv) BY DEF TypeInv, TypeOK
<1>2. req[r].o \in Order
  BY <1>1 DEF CheckoutCommit, At, LocalsOK, OrderPC, PC
<1>3. ReserveBase(r).reserved \in Nat
  <2>1. req[r].v \in Stock /\ Total(req[r].rs) \in Nat BY <1>1, TotalType DEF Request
  <2>2. Monus(req[r].v.reserved, Total(req[r].rs)) \in Nat BY <2>1, MonusType DEF Stock
  <2> QED BY <2>1, <2>2 DEF ReserveBase, Stock
<1>4. /\ nInv' \in [Order -> 0..MaxInv] /\ inv' \in [Order -> [InvNo -> InvStatus]]
      /\ \A p \in Order : nInv[p] <= nInv'[p]
  <2>1. CheckoutInvoice(req[r].o) BY DEF CheckoutCommit
  <2>2. nInv \in [Order -> 0..MaxInv] /\ inv \in [Order -> [InvNo -> InvStatus]]
    BY DEF TypeInv, TypeOK
  <2>3. inv' \in [Order -> [InvNo -> InvStatus]]
    <3>1. "NOT_PAID" \in InvStatus BY DEF InvStatus
    <3>2. \A k : [inv EXCEPT ![req[r].o][k] = "NOT_PAID"] \in [Order -> [InvNo -> InvStatus]]
      BY <1>2, <2>2, <3>1, InvUpdate
    <3> QED BY <2>1, <3>2 DEF CheckoutInvoice
  <2>4. nInv' \in [Order -> 0..MaxInv] /\ \A p \in Order : nInv[p] <= nInv'[p]
    BY <1>2, <2>1, <2>2, CommerceAssumption DEF CheckoutInvoice
  <2> QED BY <2>3, <2>4
<1>5. reserved' \in Nat
  BY <1>1, <1>3, CommerceAssumption DEF CheckoutCommit, Request
<1>6. RowsOK'
  BY <1>1, <1>2, <1>4, <1>5, CommerceAssumption DEF TypeInv, TypeOK, RowsOK, CheckoutCommit, Request, Phase, ResStatus, extVars
<1>7. req' = [req EXCEPT ![r] = req'[r]] /\ req'[r] = Idle
  BY DEF TypeInv, TypeOK, CheckoutCommit, Finish
<1>8. req'[r] \in Request /\ LocalsOK(req'[r], nInv')
  BY <1>7, CommerceAssumption DEF Idle, Request, PC, Stock, RowStatus, InvStatus, LocalsOK, OrderPC, InvoicePC, EventPC
<1> QED BY <1>4, <1>6, <1>7, <1>8, LocalsStep

\* The steps that leave the requests' locals alone.
LEMMA QuietType ==
  ASSUME TypeInv,
         \/ \E r \in Req, o \in Order : CreateOrder(r, o)
         \/ \E o \in Order : ProviderSettles(o) \/ ProviderNotifies(o)
         \/ \E e \in Event : StrayNotifies(e)
         \/ UNCHANGED vars
  PROVE  TypeInv'
<1> SUFFICES RowsOK' /\ req' = req /\ nInv' = nInv BY RowsStep
<1>1. ASSUME NEW r \in Req, NEW o \in Order, CreateOrder(r, o)
      PROVE  RowsOK' /\ req' = req /\ nInv' = nInv
  <2>1. 1 \in 0..MaxQty BY CommerceAssumption
  <2> QED BY <1>1, <2>1 DEF TypeInv, TypeOK, RowsOK, CreateOrder, Phase, stkVars, extVars
<1>2. ASSUME NEW o \in Order, ProviderSettles(o) \/ ProviderNotifies(o)
      PROVE  RowsOK' /\ req' = req /\ nInv' = nInv
  BY <1>2 DEF TypeInv, TypeOK, RowsOK, ProviderSettles, ProviderNotifies, Notify, ProvStatus, dbVars, stkVars
<1>3. ASSUME NEW e \in Event, StrayNotifies(e)
      PROVE  RowsOK' /\ req' = req /\ nInv' = nInv
  BY <1>3 DEF TypeInv, TypeOK, RowsOK, StrayNotifies, dbVars, stkVars
<1>4. ASSUME UNCHANGED vars
      PROVE  RowsOK' /\ req' = req /\ nInv' = nInv
  BY <1>4 DEF TypeInv, TypeOK, RowsOK, vars, dbVars, stkVars, extVars
<1> QED BY <1>1, <1>2, <1>3, <1>4

\* Every step keeps the types and what the requests' locals are known to be.
LEMMA TypeStep == TypeInv /\ [Next]_vars => TypeInv'
<1> SUFFICES ASSUME TypeInv, [Next]_vars PROVE TypeInv'
  OBVIOUS
<1>1. CASE UNCHANGED vars
  BY <1>1, QuietType
<1>2. ASSUME NEW r \in Req, Start(r) PROVE TypeInv'
  BY <1>2, QuietType, AddToCartType, CheckoutType, SendPaymentLinkType, CancelOrderType, AdjustStockType,
     WebhookType, WebhookIdempotentType DEF Start
<1>3. ASSUME NEW r \in Req, Step(r) PROVE TypeInv'
  BY <1>3, AddToCartCommitType, CheckoutReservationsType, CheckoutVariantType, CheckoutRejectedType,
     CheckoutCommitType, LinkInvoicesType, CreateTransactionType, SendPaymentLinkCommitType,
     CancelInvoicesType, CancelTransactionType, CancelReservationsType, CancelVariantType,
     CancelCommitType, AdjustCommitType, WebhookUpsertType, WebhookFindType, WebhookNotFoundType,
     WebhookVerifyType, PaidReadType, PaidLockType, PaidVariantType, PaidCommitType,
     ClosingLockType, ClosingVariantType, ClosingCommitType, NotifyLookType, NotifyCreateType,
     NotifyFailedType, WebhookDoneType DEF Step
<1>4. ASSUME NEW r \in Req, Fail(r) PROVE TypeInv'
  BY <1>4, FailType
<1>5. CASE \/ \E o \in Order : ProviderSettles(o) \/ ProviderNotifies(o)
           \/ \E e \in Event : StrayNotifies(e)
  BY <1>5, QuietType
<1> QED BY <1>1, <1>2, <1>3, <1>4, <1>5 DEF Next

LEMMA TypeInit == Init => TypeInv
<1> SUFFICES ASSUME Init PROVE TypeInv
  OBVIOUS
<1>1. Idle \in Request /\ Idle.pc = "idle"
  BY CommerceAssumption DEF Idle, Request, PC, Stock, RowStatus, InvStatus
<1>2. TypeOK
  BY <1>1, CommerceAssumption DEF Init, TypeOK, Phase, InvStatus, ResStatus, RowStatus, ProvStatus
<1>3. \A r \in Req : LocalsOK(req[r], nInv)
  BY <1>1 DEF Init, LocalsOK, OrderPC, InvoicePC, EventPC
<1> QED BY <1>2, <1>3 DEF TypeInv

\* The rows and what every request has read keep their types, whatever the
\* requests interrupt.
THEOREM TypeCorrect == Spec => []TypeOK
<1>1. Spec => []TypeInv BY TypeInit, TypeStep, PTL DEF Spec
<1>2. TypeInv => TypeOK BY DEF TypeInv
<1> QED BY <1>1, <1>2, PTL

-----------------------------------------------------------------------------
(* Paid orders: the inductive invariant. *)

\* From the provider's answer PAID to the commit of the paid transaction.
PaidPC == {"pd_read", "pd_lock"} \union PaidTx

\* What a request x has read is about its order; a paid transaction has every
\* active reservation of the order in hand, and the provider's word.
LocalsSafe(x) ==
  /\ \A i \in x.rs : resStatus[i] # "none" /\ resOrder[i] = x.o
  /\ x.pc \in PaidTx => x.rs = ActiveOf(x.o)
  /\ x.pc \in PaidPC => prov[x.o] = "PAID"

\* The order's row lock.
OnePaidTx ==
  \A r, s \in Req : req[r].pc \in PaidTx /\ req[s].pc \in PaidTx /\ r # s => req[r].o # req[s].o

\* A reservation not yet released or finalized has had no stock taken.
DeductsOK ==
  \A i \in Rid : /\ deducts[i] <= 1
                 /\ resStatus[i] \in {"none", "active"} => deducts[i] = 0

SafeInv ==
  /\ TypeInv
  /\ \A r \in Req : LocalsSafe(req[r])
  /\ OnePaidTx
  /\ DeductsOK
  /\ PaidHoldsNoReservation
  /\ PaidBacked
  /\ PaidWasVerified

\* A step of request r that changes no order, invoice or reservation.
LEMMA QuietStep ==
  ASSUME SafeInv, TypeInv', NEW r \in Req,
         UNCHANGED <<phase, nInv, inv, resStatus, resOrder, deducts>>,
         \A o \in Order : prov[o] = "PAID" => prov'[o] = "PAID",
         req' = [req EXCEPT ![r] = req'[r]],
         LocalsSafe(req'[r]),
         req'[r].pc \in PaidTx => \/ req[r].pc \in PaidTx /\ req'[r].o = req[r].o
                                  \/ OrderFree(req'[r].o)
  PROVE  SafeInv'
<1>1. \A o : ActiveOf(o)' = ActiveOf(o)
  BY DEF ActiveOf
<1>2. \A s \in Req : req'[s] = IF s = r THEN req'[r] ELSE req[s]
  BY DEF SafeInv, TypeInv, TypeOK
<1>3. ASSUME NEW s \in Req PROVE LocalsSafe(req[s])'
  <2>1. LocalsSafe(req'[s])
    BY <1>2 DEF SafeInv
  <2>2. req'[s].pc \in PaidPC => req'[s].o \in Order
    BY DEF TypeInv, LocalsOK, PaidPC, PaidTx, OrderPC, PC
  <2> QED BY <1>1, <2>1, <2>2 DEF LocalsSafe
<1>4. OnePaidTx'
  BY <1>2 DEF SafeInv, OnePaidTx, OrderFree
<1>5. DeductsOK' /\ PaidHoldsNoReservation' /\ PaidBacked'
  BY <1>1 DEF SafeInv, DeductsOK, PaidHoldsNoReservation, PaidBacked
<1>6. PaidWasVerified'
  BY DEF SafeInv, PaidWasVerified
<1> QED BY <1>3, <1>4, <1>5, <1>6 DEF SafeInv


LEMMA AddToCartSafe ==
  ASSUME SafeInv, TypeInv', NEW r \in Req, NEW o \in Order, AddToCart(r, o)
  PROVE  SafeInv'
<1>1. TypeOK /\ req[r] \in Request /\ LocalsSafe(req[r])
  BY DEF SafeInv, TypeInv, TypeOK
<1>2. UNCHANGED <<phase, nInv, inv, resStatus, resOrder, deducts>>
  BY DEF AddToCart, dbVars, stkVars, extVars
<1>3. \A p \in Order : prov[p] = "PAID" => prov'[p] = "PAID"
  BY <1>1 DEF TypeOK, AddToCart, dbVars, stkVars, extVars
<1>4. req' = [req EXCEPT ![r] = req'[r]]
  BY <1>1 DEF TypeOK, AddToCart, Begin, Idle
<1>5. req'[r].rs = {}
  BY <1>1 DEF TypeOK, AddToCart, Begin, Idle, Request
<1>6. req'[r].pc \notin PaidPC
  BY <1>1 DEF TypeOK, AddToCart, Begin, At, Idle, Request, PaidPC, PaidTx
<1>7. LocalsSafe(req'[r])
  BY <1>1, <1>5, <1>6 DEF LocalsSafe, ActiveOf, PaidPC, PaidTx
<1> QED BY <1>2, <1>3, <1>4, <1>5, <1>6, <1>7, QuietStep DEF PaidPC, PaidTx

LEMMA CheckoutSafe ==
  ASSUME SafeInv, TypeInv', NEW r \in Req, NEW o \in Order, Checkout(r, o)
  PROVE  SafeInv'
<1>1. TypeOK /\ req[r] \in Request /\ LocalsSafe(req[r])
  BY DEF SafeInv, TypeInv, TypeOK
<1>2. UNCHANGED <<phase, nInv, inv, resStatus, resOrder, deducts>>
  BY DEF Checkout, dbVars, stkVars, extVars
<1>3. \A p \in Order : prov[p] = "PAID" => prov'[p] = "PAID"
  BY <1>1 DEF TypeOK, Checkout, dbVars, stkVars, extVars
<1>4. req' = [req EXCEPT ![r] = req'[r]]
  BY <1>1 DEF TypeOK, Checkout, Begin, Idle
<1>5. req'[r].rs = {}
  BY <1>1 DEF TypeOK, Checkout, Begin, Idle, Request
<1>6. req'[r].pc \notin PaidPC
  BY <1>1 DEF TypeOK, Checkout, Begin, At, Idle, Request, PaidPC, PaidTx
<1>7. LocalsSafe(req'[r])
  BY <1>1, <1>5, <1>6 DEF LocalsSafe, ActiveOf, PaidPC, PaidTx
<1> QED BY <1>2, <1>3, <1>4, <1>5, <1>6, <1>7, QuietStep DEF PaidPC, PaidTx

LEMMA SendPaymentLinkSafe ==
  ASSUME SafeInv, TypeInv', NEW r \in Req, NEW o \in Order, SendPaymentLink(r, o)
  PROVE  SafeInv'
<1>1. TypeOK /\ req[r] \in Request /\ LocalsSafe(req[r])
  BY DEF SafeInv, TypeInv, TypeOK
<1>2. UNCHANGED <<phase, nInv, inv, resStatus, resOrder, deducts>>
  BY DEF SendPaymentLink, dbVars, stkVars, extVars
<1>3. \A p \in Order : prov[p] = "PAID" => prov'[p] = "PAID"
  BY <1>1 DEF TypeOK, SendPaymentLink, dbVars, stkVars, extVars
<1>4. req' = [req EXCEPT ![r] = req'[r]]
  BY <1>1 DEF TypeOK, SendPaymentLink, Begin, Idle
<1>5. req'[r].rs = {}
  BY <1>1 DEF TypeOK, SendPaymentLink, Begin, Idle, Request
<1>6. req'[r].pc \notin PaidPC
  BY <1>1 DEF TypeOK, SendPaymentLink, Begin, At, Idle, Request, PaidPC, PaidTx
<1>7. LocalsSafe(req'[r])
  BY <1>1, <1>5, <1>6 DEF LocalsSafe, ActiveOf, PaidPC, PaidTx
<1> QED BY <1>2, <1>3, <1>4, <1>5, <1>6, <1>7, QuietStep DEF PaidPC, PaidTx

LEMMA CancelOrderSafe ==
  ASSUME SafeInv, TypeInv', NEW r \in Req, NEW o \in Order, CancelOrder(r, o)
  PROVE  SafeInv'
<1>1. TypeOK /\ req[r] \in Request /\ LocalsSafe(req[r])
  BY DEF SafeInv, TypeInv, TypeOK
<1>2. UNCHANGED <<phase, nInv, inv, resStatus, resOrder, deducts>>
  BY DEF CancelOrder, dbVars, stkVars, extVars
<1>3. \A p \in Order : prov[p] = "PAID" => prov'[p] = "PAID"
  BY <1>1 DEF TypeOK, CancelOrder, dbVars, stkVars, extVars
<1>4. req' = [req EXCEPT ![r] = req'[r]]
  BY <1>1 DEF TypeOK, CancelOrder, Begin, Idle
<1>5. req'[r].rs = {}
  BY <1>1 DEF TypeOK, CancelOrder, Begin, Idle, Request
<1>6. req'[r].pc \notin PaidPC
  BY <1>1 DEF TypeOK, CancelOrder, Begin, At, Idle, Request, PaidPC, PaidTx
<1>7. LocalsSafe(req'[r])
  BY <1>1, <1>5, <1>6 DEF LocalsSafe, ActiveOf, PaidPC, PaidTx
<1> QED BY <1>2, <1>3, <1>4, <1>5, <1>6, <1>7, QuietStep DEF PaidPC, PaidTx

LEMMA WebhookSafe ==
  ASSUME SafeInv, TypeInv', NEW r \in Req, NEW e \in Event, Webhook(r, e)
  PROVE  SafeInv'
<1>1. TypeOK /\ req[r] \in Request /\ LocalsSafe(req[r])
  BY DEF SafeInv, TypeInv, TypeOK
<1>2. UNCHANGED <<phase, nInv, inv, resStatus, resOrder, deducts>>
  BY DEF Webhook, dbVars, stkVars, extVars
<1>3. \A p \in Order : prov[p] = "PAID" => prov'[p] = "PAID"
  BY <1>1 DEF TypeOK, Webhook, dbVars, stkVars, extVars
<1>4. req' = [req EXCEPT ![r] = req'[r]]
  BY <1>1 DEF TypeOK, Webhook, Idle
<1>5. req'[r].rs = {}
  BY <1>1 DEF TypeOK, Webhook, Idle, Request
<1>6. req'[r].pc \notin PaidPC
  BY <1>1 DEF TypeOK, Webhook, At, Idle, Request, PaidPC, PaidTx
<1>7. LocalsSafe(req'[r])
  BY <1>1, <1>5, <1>6 DEF LocalsSafe, ActiveOf, PaidPC, PaidTx
<1> QED BY <1>2, <1>3, <1>4, <1>5, <1>6, <1>7, QuietStep DEF PaidPC, PaidTx

LEMMA WebhookIdempotentSafe ==
  ASSUME SafeInv, TypeInv', NEW r \in Req, NEW e \in Event, WebhookIdempotent(r, e)
  PROVE  SafeInv'
<1>1. TypeOK /\ req[r] \in Request /\ LocalsSafe(req[r])
  BY DEF SafeInv, TypeInv, TypeOK
<1>2. UNCHANGED <<phase, nInv, inv, resStatus, resOrder, deducts, prov>>
  BY DEF WebhookIdempotent, dbVars, stkVars, extVars
<1>3. ASSUME NEW k, req' = [req EXCEPT ![r] = [Idle EXCEPT !.pc = "nt_check", !.o = EventOf[e],
                                                          !.e = e, !.k = k]]
      PROVE  req' = [req EXCEPT ![r] = req'[r]] /\ req'[r].rs = {} /\ req'[r].pc = "nt_check"
  BY <1>1, <1>3 DEF TypeOK, Idle
<1>4. \/ req' = req
      \/ req' = [req EXCEPT ![r] = req'[r]] /\ req'[r].rs = {} /\ req'[r].pc = "nt_check"
  BY <1>3 DEF WebhookIdempotent
<1>5. req' = [req EXCEPT ![r] = req'[r]]
  BY <1>1, <1>4 DEF TypeOK
<1>6. LocalsSafe(req'[r])
  BY <1>1, <1>4 DEF LocalsSafe, PaidPC, PaidTx
<1>7. req'[r].pc \in PaidTx => req[r].pc \in PaidTx /\ req'[r].o = req[r].o
  BY <1>4 DEF PaidTx
<1> QED BY <1>2, <1>5, <1>6, <1>7, QuietStep

LEMMA AdjustCommitSafe ==
  ASSUME SafeInv, TypeInv', NEW r \in Req, NEW d \in Deltas, AdjustCommit(r, d)
  PROVE  SafeInv'
<1>1. TypeOK /\ req[r] \in Request /\ LocalsSafe(req[r])
  BY DEF SafeInv, TypeInv, TypeOK
<1>2. UNCHANGED <<phase, nInv, inv, resStatus, resOrder, deducts>>
  BY DEF AdjustCommit, dbVars, stkVars, extVars
<1>3. \A p \in Order : prov[p] = "PAID" => prov'[p] = "PAID"
  BY <1>1 DEF TypeOK, AdjustCommit, dbVars, stkVars, extVars
<1>4. req' = [req EXCEPT ![r] = req'[r]]
  BY <1>1 DEF TypeOK, AdjustCommit, Finish, Idle
<1>5. req'[r].rs = {}
  BY <1>1 DEF TypeOK, AdjustCommit, Finish, Idle, Request
<1>6. req'[r].pc \notin PaidPC
  BY <1>1 DEF TypeOK, AdjustCommit, Finish, At, Idle, Request, PaidPC, PaidTx
<1>7. LocalsSafe(req'[r])
  BY <1>1, <1>5, <1>6 DEF LocalsSafe, ActiveOf, PaidPC, PaidTx
<1> QED BY <1>2, <1>3, <1>4, <1>5, <1>6, <1>7, QuietStep DEF PaidPC, PaidTx

LEMMA AdjustStockSafe ==
  ASSUME SafeInv, TypeInv', NEW r \in Req, AdjustStock(r)
  PROVE  SafeInv'
<1>1. TypeOK /\ req[r] \in Request /\ LocalsSafe(req[r])
  BY DEF SafeInv, TypeInv, TypeOK
<1>2. UNCHANGED <<phase, nInv, inv, resStatus, resOrder, deducts>>
  BY DEF AdjustStock, dbVars, stkVars, extVars
<1>3. \A p \in Order : prov[p] = "PAID" => prov'[p] = "PAID"
  BY <1>1 DEF TypeOK, AdjustStock, dbVars, stkVars, extVars
<1>4. req' = [req EXCEPT ![r] = req'[r]]
  BY <1>1 DEF TypeOK, AdjustStock, Begin, CurrentStock, Idle
<1>5. req'[r].rs = {}
  BY <1>1 DEF TypeOK, AdjustStock, Begin, CurrentStock, Idle, Request
<1>6. req'[r].pc \notin PaidPC
  BY <1>1 DEF TypeOK, AdjustStock, Begin, CurrentStock, At, Idle, Request, PaidPC, PaidTx
<1>7. LocalsSafe(req'[r])
  BY <1>1, <1>5, <1>6 DEF LocalsSafe, ActiveOf, PaidPC, PaidTx
<1> QED BY <1>2, <1>3, <1>4, <1>5, <1>6, <1>7, QuietStep DEF PaidPC, PaidTx

LEMMA CheckoutReservationsSafe ==
  ASSUME SafeInv, TypeInv', NEW r \in Req, CheckoutReservations(r)
  PROVE  SafeInv'
<1>1. TypeOK /\ req[r] \in Request /\ LocalsSafe(req[r])
  BY DEF SafeInv, TypeInv, TypeOK
<1>2. UNCHANGED <<phase, nInv, inv, resStatus, resOrder, deducts>>
  BY DEF CheckoutReservations, dbVars, stkVars, extVars
<1>3. \A p \in Order : prov[p] = "PAID" => prov'[p] = "PAID"
  BY <1>1 DEF TypeOK, CheckoutReservations, dbVars, stkVars, extVars
<1>4. req' = [req EXCEPT ![r] = req'[r]]
  BY <1>1 DEF TypeOK, CheckoutReservations, Idle
<1>5. req'[r].rs = ActiveOf(req[r].o) /\ req'[r].o = req[r].o
  BY <1>1 DEF TypeOK, CheckoutReservations, Idle, Request
<1>6. req'[r].pc \notin PaidPC
  BY <1>1 DEF TypeOK, CheckoutReservations, At, Idle, Request, PaidPC, PaidTx
<1>7. LocalsSafe(req'[r])
  BY <1>1, <1>5, <1>6 DEF LocalsSafe, ActiveOf, PaidPC, PaidTx
<1> QED BY <1>2, <1>3, <1>4, <1>5, <1>6, <1>7, QuietStep DEF PaidPC, PaidTx

LEMMA CheckoutVariantSafe ==
  ASSUME SafeInv, TypeInv', NEW r \in Req, CheckoutVariant(r)
  PROVE  SafeInv'
<1>1. TypeOK /\ req[r] \in Request /\ LocalsSafe(req[r])
  BY DEF SafeInv, TypeInv, TypeOK
<1>2. UNCHANGED <<phase, nInv, inv, resStatus, resOrder, deducts>>
  BY DEF CheckoutVariant, dbVars, stkVars, extVars
<1>3. \A p \in Order : prov[p] = "PAID" => prov'[p] = "PAID"
  BY <1>1 DEF TypeOK, CheckoutVariant, dbVars, stkVars, extVars
<1>4. req' = [req EXCEPT ![r] = req'[r]]
  BY <1>1 DEF TypeOK, CheckoutVariant, CurrentStock, Idle
<1>5. req'[r].rs = req[r].rs /\ req'[r].o = req[r].o
  BY <1>1 DEF TypeOK, CheckoutVariant, CurrentStock, Idle, Request
<1>6. req'[r].pc \notin PaidPC
  BY <1>1 DEF TypeOK, CheckoutVariant, CurrentStock, At, Idle, Request, PaidPC, PaidTx
<1>7. LocalsSafe(req'[r])
  BY <1>1, <1>5, <1>6 DEF LocalsSafe, ActiveOf, PaidPC, PaidTx
<1> QED BY <1>2, <1>3, <1>4, <1>5, <1>6, <1>7, QuietStep DEF PaidPC, PaidTx

LEMMA CheckoutRejectedSafe ==
  ASSUME SafeInv, TypeInv', NEW r \in Req, CheckoutRejected(r)
  PROVE  SafeInv'
<1>1. TypeOK /\ req[r] \in Request /\ LocalsSafe(req[r])
  BY DEF SafeInv, TypeInv, TypeOK
<1>2. UNCHANGED <<phase, nInv, inv, resStatus, resOrder, deducts>>
  BY DEF CheckoutRejected, dbVars, stkVars, extVars
<1>3. \A p \in Order : prov[p] = "PAID" => prov'[p] = "PAID"
  BY <1>1 DEF TypeOK, CheckoutRejected, dbVars, stkVars, extVars
<1>4. req' = [req EXCEPT ![r] = req'[r]]
  BY <1>1 DEF TypeOK, CheckoutRejected, Finish, Idle
<1>5. req'[r].rs = {}
  BY <1>1 DEF TypeOK, CheckoutRejected, Finish, Idle, Request
<1>6. req'[r].pc \notin PaidPC
  BY <1>1 DEF TypeOK, CheckoutRejected, Finish, At, Idle, Request, PaidPC, PaidTx
<1>7. LocalsSafe(req'[r])
  BY <1>1, <1>5, <1>6 DEF LocalsSafe, ActiveOf, PaidPC, PaidTx
<1> QED BY <1>2, <1>3, <1>4, <1>5, <1>6, <1>7, QuietStep DEF PaidPC, PaidTx

LEMMA LinkInvoicesSafe ==
  ASSUME SafeInv, TypeInv', NEW r \in Req, LinkInvoices(r)
  PROVE  SafeInv'
<1>1. TypeOK /\ req[r] \in Request /\ LocalsSafe(req[r])
  BY DEF SafeInv, TypeInv, TypeOK
<1>2. UNCHANGED <<phase, nInv, inv, resStatus, resOrder, deducts>>
  BY DEF LinkInvoices, dbVars, stkVars, extVars
<1>3. \A p \in Order : prov[p] = "PAID" => prov'[p] = "PAID"
  BY <1>1 DEF TypeOK, LinkInvoices, dbVars, stkVars, extVars
<1>4. req' = [req EXCEPT ![r] = req'[r]]
  BY <1>1 DEF TypeOK, LinkInvoices, Finish, LinkInvoice, Unpaid, Idle
<1>5. req'[r].rs = {} \/ (req'[r].rs = req[r].rs /\ req'[r].o = req[r].o)
  BY <1>1 DEF TypeOK, LinkInvoices, Finish, LinkInvoice, Unpaid, Idle, Request
<1>6. req'[r].pc \notin PaidPC
  BY <1>1 DEF TypeOK, LinkInvoices, Finish, LinkInvoice, Unpaid, At, Idle, Request, PaidPC, PaidTx
<1>7. LocalsSafe(req'[r])
  BY <1>1, <1>5, <1>6 DEF LocalsSafe, ActiveOf, PaidPC, PaidTx
<1> QED BY <1>2, <1>3, <1>4, <1>5, <1>6, <1>7, QuietStep DEF PaidPC, PaidTx

LEMMA CreateTransactionSafe ==
  ASSUME SafeInv, TypeInv', NEW r \in Req, CreateTransaction(r)
  PROVE  SafeInv'
<1>1. TypeOK /\ req[r] \in Request /\ LocalsSafe(req[r])
  BY DEF SafeInv, TypeInv, TypeOK
<1>2. UNCHANGED <<phase, nInv, inv, resStatus, resOrder, deducts>>
  BY DEF CreateTransaction, dbVars, stkVars, extVars
<1>3. \A p \in Order : prov[p] = "PAID" => prov'[p] = "PAID"
  BY <1>1 DEF TypeOK, CreateTransaction, dbVars, stkVars, extVars
<1>4. req' = [req EXCEPT ![r] = req'[r]]
  BY <1>1 DEF TypeOK, CreateTransaction, Idle
<1>5. req'[r].rs = req[r].rs /\ req'[r].o = req[r].o
  BY <1>1 DEF TypeOK, CreateTransaction, Idle, Request
<1>6. req'[r].pc \notin PaidPC
  BY <1>1 DEF TypeOK, CreateTransaction, At, Idle, Request, PaidPC, PaidTx
<1>7. LocalsSafe(req'[r])
  BY <1>1, <1>5, <1>6 DEF LocalsSafe, ActiveOf, PaidPC, PaidTx
<1> QED BY <1>2, <1>3, <1>4, <1>5, <1>6, <1>7, QuietStep DEF PaidPC, PaidTx

LEMMA CancelInvoicesSafe ==
  ASSUME SafeInv, TypeInv', NEW r \in Req, CancelInvoices(r)
  PROVE  SafeInv'
<1>1. TypeOK /\ req[r] \in Request /\ LocalsSafe(req[r])
  BY DEF SafeInv, TypeInv, TypeOK
<1>2. UNCHANGED <<phase, nInv, inv, resStatus, resOrder, deducts>>
  BY DEF CancelInvoices, dbVars, stkVars, extVars
<1>3. \A p \in Order : prov[p] = "PAID" => prov'[p] = "PAID"
  BY <1>1 DEF TypeOK, CancelInvoices, dbVars, stkVars, extVars
<1>4. req' = [req EXCEPT ![r] = req'[r]]
  BY <1>1 DEF TypeOK, CancelInvoices, Idle
<1>5. req'[r].rs = req[r].rs /\ req'[r].o = req[r].o
  BY <1>1 DEF TypeOK, CancelInvoices, Idle, Request
<1>6. req'[r].pc \notin PaidPC
  BY <1>1 DEF TypeOK, CancelInvoices, At, Idle, Request, PaidPC, PaidTx
<1>7. LocalsSafe(req'[r])
  BY <1>1, <1>5, <1>6 DEF LocalsSafe, ActiveOf, PaidPC, PaidTx
<1> QED BY <1>2, <1>3, <1>4, <1>5, <1>6, <1>7, QuietStep DEF PaidPC, PaidTx

LEMMA CancelTransactionSafe ==
  ASSUME SafeInv, TypeInv', NEW r \in Req, CancelTransaction(r)
  PROVE  SafeInv'
<1>1. TypeOK /\ req[r] \in Request /\ LocalsSafe(req[r])
  BY DEF SafeInv, TypeInv, TypeOK
<1>2. UNCHANGED <<phase, nInv, inv, resStatus, resOrder, deducts>>
  BY DEF CancelTransaction, dbVars, stkVars, extVars
<1>3. \A p \in Order : prov[p] = "PAID" => prov'[p] = "PAID"
  BY <1>1 DEF TypeOK, CancelTransaction, dbVars, stkVars, extVars
<1>4. req' = [req EXCEPT ![r] = req'[r]]
  BY <1>1 DEF TypeOK, CancelTransaction, Idle
<1>5. req'[r].rs = req[r].rs /\ req'[r].o = req[r].o
  BY <1>1 DEF TypeOK, CancelTransaction, Idle, Request
<1>6. req'[r].pc \notin PaidPC
  BY <1>1 DEF TypeOK, CancelTransaction, At, Idle, Request, PaidPC, PaidTx
<1>7. LocalsSafe(req'[r])
  BY <1>1, <1>5, <1>6 DEF LocalsSafe, ActiveOf, PaidPC, PaidTx
<1> QED BY <1>2, <1>3, <1>4, <1>5, <1>6, <1>7, QuietStep DEF PaidPC, PaidTx

LEMMA CancelReservationsSafe ==
  ASSUME SafeInv, TypeInv', NEW r \in Req, CancelReservations(r)
  PROVE  SafeInv'
<1>1. TypeOK /\ req[r] \in Request /\ LocalsSafe(req[r])
  BY DEF SafeInv, TypeInv, TypeOK
<1>2. UNCHANGED <<phase, nInv, inv, resStatus, resOrder, deducts>>
  BY DEF CancelReservations, dbVars, stkVars, extVars
<1>3. \A p \in Order : prov[p] = "PAID" => prov'[p] = "PAID"
  BY <1>1 DEF TypeOK, CancelReservations, dbVars, stkVars, extVars
<1>4. req' = [req EXCEPT ![r] = req'[r]]
  BY <1>1 DEF TypeOK, CancelReservations, Idle
<1>5. req'[r].rs = ActiveOf(req[r].o) /\ req'[r].o = req[r].o
  BY <1>1 DEF TypeOK, CancelReservations, Idle, Request
<1>6. req'[r].pc \notin PaidPC
  BY <1>1 DEF TypeOK, CancelReservations, At, Idle, Request, PaidPC, PaidTx
<1>7. LocalsSafe(req'[r])
  BY <1>1, <1>5, <1>6 DEF LocalsSafe, ActiveOf, PaidPC, PaidTx
<1> QED BY <1>2, <1>3, <1>4, <1>5, <1>6, <1>7, QuietStep DEF PaidPC, PaidTx

LEMMA CancelVariantSafe ==
  ASSUME SafeInv, TypeInv', NEW r \in Req, CancelVariant(r)
  PROVE  SafeInv'
<1>1. TypeOK /\ req[r] \in Request /\ LocalsSafe(req[r])
  BY DEF SafeInv, TypeInv, TypeOK
<1>2. UNCHANGED <<phase, nInv, inv, resStatus, resOrder, deducts>>
  BY DEF CancelVariant, dbVars, stkVars, extVars
<1>3. \A p \in Order : prov[p] = "PAID" => prov'[p] = "PAID"
  BY <1>1 DEF TypeOK, CancelVariant, dbVars, stkVars, extVars
<1>4. req' = [req EXCEPT ![r] = req'[r]]
  BY <1>1 DEF TypeOK, CancelVariant, StockReadFor, CurrentStock, Idle
<1>5. req'[r].rs = req[r].rs /\ req'[r].o = req[r].o
  BY <1>1 DEF TypeOK, CancelVariant, StockReadFor, CurrentStock, Idle, Request
<1>6. req'[r].pc \notin PaidPC
  BY <1>1 DEF TypeOK, CancelVariant, StockReadFor, CurrentStock, At, Idle, Request, PaidPC, PaidTx
<1>7. LocalsSafe(req'[r])
  BY <1>1, <1>5, <1>6 DEF LocalsSafe, ActiveOf, PaidPC, PaidTx
<1> QED BY <1>2, <1>3, <1>4, <1>5, <1>6, <1>7, QuietStep DEF PaidPC, PaidTx

LEMMA WebhookUpsertSafe ==
  ASSUME SafeInv, TypeInv', NEW r \in Req, WebhookUpsert(r)
  PROVE  SafeInv'
<1>1. TypeOK /\ req[r] \in Request /\ LocalsSafe(req[r])
  BY DEF SafeInv, TypeInv, TypeOK
<1>2. UNCHANGED <<phase, nInv, inv, resStatus, resOrder, deducts>>
  BY DEF WebhookUpsert, dbVars, stkVars, extVars
<1>3. \A p \in Order : prov[p] = "PAID" => prov'[p] = "PAID"
  BY <1>1 DEF TypeOK, WebhookUpsert, dbVars, stkVars, extVars
<1>4. req' = [req EXCEPT ![r] = req'[r]]
  BY <1>1 DEF TypeOK, WebhookUpsert, Finish, Idle
<1>5. req'[r].rs = {} \/ (req'[r].rs = req[r].rs /\ req'[r].o = req[r].o)
  BY <1>1 DEF TypeOK, WebhookUpsert, Finish, Idle, Request
<1>6. req'[r].pc \notin PaidPC
  BY <1>1 DEF TypeOK, WebhookUpsert, Finish, At, Idle, Request, PaidPC, PaidTx
<1>7. LocalsSafe(req'[r])
  BY <1>1, <1>5, <1>6 DEF LocalsSafe, ActiveOf, PaidPC, PaidTx
<1> QED BY <1>2, <1>3, <1>4, <1>5, <1>6, <1>7, QuietStep DEF PaidPC, PaidTx

LEMMA WebhookFindSafe ==
  ASSUME SafeInv, TypeInv', NEW r \in Req, WebhookFind(r)
  PROVE  SafeInv'
<1>1. TypeOK /\ req[r] \in Request /\ LocalsSafe(req[r])
  BY DEF SafeInv, TypeInv, TypeOK
<1>2. UNCHANGED <<phase, nInv, inv, resStatus, resOrder, deducts>>
  BY DEF WebhookFind, dbVars, stkVars, extVars
<1>3. \A p \in Order : prov[p] = "PAID" => prov'[p] = "PAID"
  BY <1>1 DEF TypeOK, WebhookFind, dbVars, stkVars, extVars
<1>4. req' = [req EXCEPT ![r] = req'[r]]
  BY <1>1 DEF TypeOK, WebhookFind, FoundInvoice, Linked, Idle
<1>5. req'[r].rs = req[r].rs /\ req'[r].o = req[r].o
  BY <1>1 DEF TypeOK, WebhookFind, FoundInvoice, Linked, Idle, Request
<1>6. req'[r].pc \notin PaidPC
  BY <1>1 DEF TypeOK, WebhookFind, FoundInvoice, Linked, At, Idle, Request, PaidPC, PaidTx
<1>7. LocalsSafe(req'[r])
  BY <1>1, <1>5, <1>6 DEF LocalsSafe, ActiveOf, PaidPC, PaidTx
<1> QED BY <1>2, <1>3, <1>4, <1>5, <1>6, <1>7, QuietStep DEF PaidPC, PaidTx

LEMMA WebhookNotFoundSafe ==
  ASSUME SafeInv, TypeInv', NEW r \in Req, WebhookNotFound(r)
  PROVE  SafeInv'
<1>1. TypeOK /\ req[r] \in Request /\ LocalsSafe(req[r])
  BY DEF SafeInv, TypeInv, TypeOK
<1>2. UNCHANGED <<phase, nInv, inv, resStatus, resOrder, deducts>>
  BY DEF WebhookNotFound, dbVars, stkVars, extVars
<1>3. \A p \in Order : prov[p] = "PAID" => prov'[p] = "PAID"
  BY <1>1 DEF TypeOK, WebhookNotFound, dbVars, stkVars, extVars
<1>4. req' = [req EXCEPT ![r] = req'[r]]
  BY <1>1 DEF TypeOK, WebhookNotFound, Finish, Idle
<1>5. req'[r].rs = {}
  BY <1>1 DEF TypeOK, WebhookNotFound, Finish, Idle, Request
<1>6. req'[r].pc \notin PaidPC
  BY <1>1 DEF TypeOK, WebhookNotFound, Finish, At, Idle, Request, PaidPC, PaidTx
<1>7. LocalsSafe(req'[r])
  BY <1>1, <1>5, <1>6 DEF LocalsSafe, ActiveOf, PaidPC, PaidTx
<1> QED BY <1>2, <1>3, <1>4, <1>5, <1>6, <1>7, QuietStep DEF PaidPC, PaidTx

LEMMA WebhookVerifySafe ==
  ASSUME SafeInv, TypeInv', NEW r \in Req, WebhookVerify(r)
  PROVE  SafeInv'
<1>1. TypeOK /\ req[r] \in Request /\ LocalsSafe(req[r])
  BY DEF SafeInv, TypeInv, TypeOK
<1>2. UNCHANGED <<phase, nInv, inv, resStatus, resOrder, deducts>>
  BY DEF WebhookVerify, dbVars, stkVars, extVars
<1>3. \A p \in Order : prov[p] = "PAID" => prov'[p] = "PAID"
  BY <1>1 DEF TypeOK, WebhookVerify, dbVars, stkVars, extVars
<1>4. req' = [req EXCEPT ![r] = req'[r]]
  BY <1>1 DEF TypeOK, WebhookVerify, Idle
<1>5. req'[r].rs = req[r].rs /\ req'[r].o = req[r].o
  BY <1>1 DEF TypeOK, WebhookVerify, Idle, Request
<1>6. req'[r].pc \notin PaidTx /\ (req'[r].pc \in PaidPC => prov[req[r].o] = "PAID")
  BY <1>1 DEF TypeOK, WebhookVerify, At, Idle, Request, PaidPC, PaidTx
<1>7. LocalsSafe(req'[r])
  BY <1>1, <1>5, <1>6 DEF LocalsSafe, ActiveOf, PaidPC, PaidTx
<1> QED BY <1>2, <1>3, <1>4, <1>5, <1>6, <1>7, QuietStep DEF PaidPC, PaidTx

LEMMA PaidReadSafe ==
  ASSUME SafeInv, TypeInv', NEW r \in Req, PaidRead(r)
  PROVE  SafeInv'
<1>1. TypeOK /\ req[r] \in Request /\ LocalsSafe(req[r])
  BY DEF SafeInv, TypeInv, TypeOK
<1>2. UNCHANGED <<phase, nInv, inv, resStatus, resOrder, deducts>>
  BY DEF PaidRead, dbVars, stkVars, extVars
<1>3. \A p \in Order : prov[p] = "PAID" => prov'[p] = "PAID"
  BY <1>1 DEF TypeOK, PaidRead, dbVars, stkVars, extVars
<1>4. req' = [req EXCEPT ![r] = req'[r]]
  BY <1>1 DEF TypeOK, PaidRead, Idle
<1>5. req'[r].rs = req[r].rs /\ req'[r].o = req[r].o
  BY <1>1 DEF TypeOK, PaidRead, Idle, Request
<1>6. req'[r].pc \notin PaidTx /\ req[r].pc = "pd_read"
  BY <1>1 DEF TypeOK, PaidRead, At, Idle, Request, PaidPC, PaidTx
<1>7. LocalsSafe(req'[r])
  BY <1>1, <1>5, <1>6 DEF LocalsSafe, ActiveOf, PaidPC, PaidTx
<1> QED BY <1>2, <1>3, <1>4, <1>5, <1>6, <1>7, QuietStep DEF PaidPC, PaidTx

LEMMA PaidLockSafe ==
  ASSUME SafeInv, TypeInv', NEW r \in Req, PaidLock(r)
  PROVE  SafeInv'
<1>1. TypeOK /\ req[r] \in Request /\ LocalsSafe(req[r])
  BY DEF SafeInv, TypeInv, TypeOK
<1>2. UNCHANGED <<phase, nInv, inv, resStatus, resOrder, deducts>>
  BY DEF PaidLock, dbVars, stkVars, extVars
<1>3. \A p \in Order : prov[p] = "PAID" => prov'[p] = "PAID"
  BY <1>1 DEF TypeOK, PaidLock, dbVars, stkVars, extVars
<1>4. req' = [req EXCEPT ![r] = req'[r]]
  BY <1>1 DEF TypeOK, PaidLock, Idle
<1>5. req'[r].rs = ActiveOf(req[r].o) /\ req'[r].o = req[r].o
  BY <1>1 DEF TypeOK, PaidLock, Idle, Request
<1>6. req'[r].pc = "pd_var" /\ req[r].pc = "pd_lock" /\ OrderFree(req[r].o)
  BY <1>1 DEF TypeOK, PaidLock, At, Idle, Request, PaidPC, PaidTx
<1>7. LocalsSafe(req'[r])
  BY <1>1, <1>5, <1>6 DEF LocalsSafe, ActiveOf, PaidPC, PaidTx
<1> QED BY <1>2, <1>3, <1>4, <1>5, <1>6, <1>7, QuietStep DEF PaidPC, PaidTx

LEMMA PaidVariantSafe ==
  ASSUME SafeInv, TypeInv', NEW r \in Req, PaidVariant(r)
  PROVE  SafeInv'
<1>1. TypeOK /\ req[r] \in Request /\ LocalsSafe(req[r])
  BY DEF SafeInv, TypeInv, TypeOK
<1>2. UNCHANGED <<phase, nInv, inv, resStatus, resOrder, deducts>>
  BY DEF PaidVariant, dbVars, stkVars, extVars
<1>3. \A p \in Order : prov[p] = "PAID" => prov'[p] = "PAID"
  BY <1>1 DEF TypeOK, PaidVariant, dbVars, stkVars, extVars
<1>4. req' = [req EXCEPT ![r] = req'[r]]
  BY <1>1 DEF TypeOK, PaidVariant, StockReadFor, CurrentStock, Idle
<1>5. req'[r].rs = req[r].rs /\ req'[r].o = req[r].o
  BY <1>1 DEF TypeOK, PaidVariant, StockReadFor, CurrentStock, Idle, Request
<1>6. req'[r].pc = "pd_commit" /\ req[r].pc = "pd_var"
  BY <1>1 DEF TypeOK, PaidVariant, StockReadFor, CurrentStock, At, Idle, Request, PaidPC, PaidTx
<1>7. LocalsSafe(req'[r])
  BY <1>1, <1>5, <1>6 DEF LocalsSafe, ActiveOf, PaidPC, PaidTx
<1> QED BY <1>2, <1>3, <1>4, <1>5, <1>6, <1>7, QuietStep DEF PaidPC, PaidTx

LEMMA ClosingLockSafe ==
  ASSUME SafeInv, TypeInv', NEW r \in Req, ClosingLock(r)
  PROVE  SafeInv'
<1>1. TypeOK /\ req[r] \in Request /\ LocalsSafe(req[r])
  BY DEF SafeInv, TypeInv, TypeOK
<1>2. UNCHANGED <<phase, nInv, inv, resStatus, resOrder, deducts>>
  BY DEF ClosingLock, dbVars, stkVars, extVars
<1>3. \A p \in Order : prov[p] = "PAID" => prov'[p] = "PAID"
  BY <1>1 DEF TypeOK, ClosingLock, dbVars, stkVars, extVars
<1>4. req' = [req EXCEPT ![r] = req'[r]]
  BY <1>1 DEF TypeOK, ClosingLock, Idle
<1>5. req'[r].rs = ActiveOf(req[r].o) /\ req'[r].o = req[r].o
  BY <1>1 DEF TypeOK, ClosingLock, Idle, Request
<1>6. req'[r].pc \notin PaidPC
  BY <1>1 DEF TypeOK, ClosingLock, At, Idle, Request, PaidPC, PaidTx
<1>7. LocalsSafe(req'[r])
  BY <1>1, <1>5, <1>6 DEF LocalsSafe, ActiveOf, PaidPC, PaidTx
<1> QED BY <1>2, <1>3, <1>4, <1>5, <1>6, <1>7, QuietStep DEF PaidPC, PaidTx

LEMMA ClosingVariantSafe ==
  ASSUME SafeInv, TypeInv', NEW r \in Req, ClosingVariant(r)
  PROVE  SafeInv'
<1>1. TypeOK /\ req[r] \in Request /\ LocalsSafe(req[r])
  BY DEF SafeInv, TypeInv, TypeOK
<1>2. UNCHANGED <<phase, nInv, inv, resStatus, resOrder, deducts>>
  BY DEF ClosingVariant, dbVars, stkVars, extVars
<1>3. \A p \in Order : prov[p] = "PAID" => prov'[p] = "PAID"
  BY <1>1 DEF TypeOK, ClosingVariant, dbVars, stkVars, extVars
<1>4. req' = [req EXCEPT ![r] = req'[r]]
  BY <1>1 DEF TypeOK, ClosingVariant, StockReadFor, CurrentStock, Idle
<1>5. req'[r].rs = req[r].rs /\ req'[r].o = req[r].o
  BY <1>1 DEF TypeOK, ClosingVariant, StockReadFor, CurrentStock, Idle, Request
<1>6. req'[r].pc \notin PaidPC
  BY <1>1 DEF TypeOK, ClosingVariant, StockReadFor, CurrentStock, At, Idle, Request, PaidPC, PaidTx
<1>7. LocalsSafe(req'[r])
  BY <1>1, <1>5, <1>6 DEF LocalsSafe, ActiveOf, PaidPC, PaidTx
<1> QED BY <1>2, <1>3, <1>4, <1>5, <1>6, <1>7, QuietStep DEF PaidPC, PaidTx

LEMMA NotifyLookSafe ==
  ASSUME SafeInv, TypeInv', NEW r \in Req, NotifyLook(r)
  PROVE  SafeInv'
<1>1. TypeOK /\ req[r] \in Request /\ LocalsSafe(req[r])
  BY DEF SafeInv, TypeInv, TypeOK
<1>2. UNCHANGED <<phase, nInv, inv, resStatus, resOrder, deducts>>
  BY DEF NotifyLook, dbVars, stkVars, extVars
<1>3. \A p \in Order : prov[p] = "PAID" => prov'[p] = "PAID"
  BY <1>1 DEF TypeOK, NotifyLook, dbVars, stkVars, extVars
<1>4. req' = [req EXCEPT ![r] = req'[r]]
  BY <1>1 DEF TypeOK, NotifyLook, Idle
<1>5. req'[r].rs = req[r].rs /\ req'[r].o = req[r].o
  BY <1>1 DEF TypeOK, NotifyLook, Idle, Request
<1>6. req'[r].pc \notin PaidPC
  BY <1>1 DEF TypeOK, NotifyLook, At, Idle, Request, PaidPC, PaidTx
<1>7. LocalsSafe(req'[r])
  BY <1>1, <1>5, <1>6 DEF LocalsSafe, ActiveOf, PaidPC, PaidTx
<1> QED BY <1>2, <1>3, <1>4, <1>5, <1>6, <1>7, QuietStep DEF PaidPC, PaidTx

LEMMA NotifyCreateSafe ==
  ASSUME SafeInv, TypeInv', NEW r \in Req, NotifyCreate(r)
  PROVE  SafeInv'
<1>1. TypeOK /\ req[r] \in Request /\ LocalsSafe(req[r])
  BY DEF SafeInv, TypeInv, TypeOK
<1>2. UNCHANGED <<phase, nInv, inv, resStatus, resOrder, deducts>>
  BY DEF NotifyCreate, dbVars, stkVars, extVars
<1>3. \A p \in Order : prov[p] = "PAID" => prov'[p] = "PAID"
  BY <1>1 DEF TypeOK, NotifyCreate, dbVars, stkVars, extVars
<1>4. req' = [req EXCEPT ![r] = req'[r]]
  BY <1>1 DEF TypeOK, NotifyCreate, Idle
<1>5. req'[r].rs = req[r].rs /\ req'[r].o = req[r].o
  BY <1>1 DEF TypeOK, NotifyCreate, Idle, Request
<1>6. req'[r].pc \notin PaidPC
  BY <1>1 DEF TypeOK, NotifyCreate, At, Idle, Request, PaidPC, PaidTx
<1>7. LocalsSafe(req'[r])
  BY <1>1, <1>5, <1>6 DEF LocalsSafe, ActiveOf, PaidPC, PaidTx
<1> QED BY <1>2, <1>3, <1>4, <1>5, <1>6, <1>7, QuietStep DEF PaidPC, PaidTx

LEMMA NotifyFailedSafe ==
  ASSUME SafeInv, TypeInv', NEW r \in Req, NotifyFailed(r)
  PROVE  SafeInv'
<1>1. TypeOK /\ req[r] \in Request /\ LocalsSafe(req[r])
  BY DEF SafeInv, TypeInv, TypeOK
<1>2. UNCHANGED <<phase, nInv, inv, resStatus, resOrder, deducts>>
  BY DEF NotifyFailed, dbVars, stkVars, extVars
<1>3. \A p \in Order : prov[p] = "PAID" => prov'[p] = "PAID"
  BY <1>1 DEF TypeOK, NotifyFailed, dbVars, stkVars, extVars
<1>4. req' = [req EXCEPT ![r] = req'[r]]
  BY <1>1 DEF TypeOK, NotifyFailed, Idle
<1>5. req'[r].rs = req[r].rs /\ req'[r].o = req[r].o
  BY <1>1 DEF TypeOK, NotifyFailed, Idle, Request
<1>6. req'[r].pc \notin PaidPC
  BY <1>1 DEF TypeOK, NotifyFailed, At, Idle, Request, PaidPC, PaidTx
<1>7. LocalsSafe(req'[r])
  BY <1>1, <1>5, <1>6 DEF LocalsSafe, ActiveOf, PaidPC, PaidTx
<1> QED BY <1>2, <1>3, <1>4, <1>5, <1>6, <1>7, QuietStep DEF PaidPC, PaidTx

LEMMA WebhookDoneSafe ==
  ASSUME SafeInv, TypeInv', NEW r \in Req, WebhookDone(r)
  PROVE  SafeInv'
<1>1. TypeOK /\ req[r] \in Request /\ LocalsSafe(req[r])
  BY DEF SafeInv, TypeInv, TypeOK
<1>2. UNCHANGED <<phase, nInv, inv, resStatus, resOrder, deducts>>
  BY DEF WebhookDone, dbVars, stkVars, extVars
<1>3. \A p \in Order : prov[p] = "PAID" => prov'[p] = "PAID"
  BY <1>1 DEF TypeOK, WebhookDone, dbVars, stkVars, extVars
<1>4. req' = [req EXCEPT ![r] = req'[r]]
  BY <1>1 DEF TypeOK, WebhookDone, Finish, Idle
<1>5. req'[r].rs = {}
  BY <1>1 DEF TypeOK, WebhookDone, Finish, Idle, Request
<1>6. req'[r].pc \notin PaidPC
  BY <1>1 DEF TypeOK, WebhookDone, Finish, At, Idle, Request, PaidPC, PaidTx
<1>7. LocalsSafe(req'[r])
  BY <1>1, <1>5, <1>6 DEF LocalsSafe, ActiveOf, PaidPC, PaidTx
<1> QED BY <1>2, <1>3, <1>4, <1>5, <1>6, <1>7, QuietStep DEF PaidPC, PaidTx

LEMMA FailSafe ==
  ASSUME SafeInv, TypeInv', NEW r \in Req, Fail(r)
  PROVE  SafeInv'
<1>1. TypeOK /\ req[r] \in Request /\ LocalsSafe(req[r])
  BY DEF SafeInv, TypeInv, TypeOK
<1>2. UNCHANGED <<phase, nInv, inv, resStatus, resOrder, deducts>>
  BY DEF Fail, dbVars, stkVars, extVars
<1>3. \A p \in Order : prov[p] = "PAID" => prov'[p] = "PAID"
  BY <1>1 DEF TypeOK, Fail, dbVars, stkVars, extVars
<1>4. req' = [req EXCEPT ![r] = req'[r]]
  BY <1>1 DEF TypeOK, Fail, Finish, Idle
<1>5. req'[r].rs = {}
  BY <1>1 DEF TypeOK, Fail, Finish, Idle, Request
<1>6. req'[r].pc \notin PaidPC
  BY <1>1 DEF TypeOK, Fail, Finish, At, Idle, Request, PaidPC, PaidTx
<1>7. LocalsSafe(req'[r])
  BY <1>1, <1>5, <1>6 DEF LocalsSafe, ActiveOf, PaidPC, PaidTx
<1> QED BY <1>2, <1>3, <1>4, <1>5, <1>6, <1>7, QuietStep DEF PaidPC, PaidTx

\* Writing a status other than PAID into an invoice of order o.
LEMMA InvoiceWrite ==
  ASSUME NEW f \in [Order -> [InvNo -> InvStatus]], NEW o \in Order, NEW n,
         NEW s, s # "PAID",
         NEW g, g = [f EXCEPT ![o][n] = s]
  PROVE  /\ \A p \in Order : p # o => g[p] = f[p]
         /\ \A k \in InvNo : g[o][k] = "PAID" => f[o][k] = "PAID"
<1>1. g[o] = [f[o] EXCEPT ![n] = s] /\ f[o] \in [InvNo -> InvStatus]
  OBVIOUS
<1> QED BY <1>1

\* A step of request r that changes order o, its invoices and its reservations.
LEMMA OrderStep ==
  ASSUME SafeInv, TypeInv', NEW r \in Req, NEW o \in Order,
         prov' = prov,
         req' = [req EXCEPT ![r] = req'[r]],
         LocalsSafe(req[r])' \/ (req'[r].rs = {} /\ req'[r].pc \notin PaidPC),
         req'[r].pc \notin PaidTx,
         \A i \in Rid : \/ resStatus'[i] = resStatus[i] /\ resOrder'[i] = resOrder[i]
                        \/ /\ resStatus'[i] # "none" /\ resOrder'[i] = o
                           /\ resStatus[i] = "none" \/ resOrder[i] = o,
         UNCHANGED <<resStatus, resOrder>>
           \/ \A s \in Req : s # r /\ req[s].pc \in PaidTx => req[s].o # o,
         \A p \in Order : p # o => /\ phase'[p] = phase[p] /\ inv'[p] = inv[p]
                                   /\ nInv'[p] = nInv[p],
         \A k \in InvNo : inv'[o][k] = "PAID" => inv[o][k] = "PAID" \/ prov[o] = "PAID",
         phase'[o] = "paid" => ActiveOf(o)' = {} /\ \E k \in 1..nInv'[o] : inv'[o][k] = "PAID",
         DeductsOK'
  PROVE  SafeInv'
<1>1. \A s \in Req : req'[s] = IF s = r THEN req'[r] ELSE req[s]
  BY DEF SafeInv, TypeInv, TypeOK
<1>2. \A p : p # o => ActiveOf(p)' = ActiveOf(p)
  BY DEF ActiveOf
<1>3. ASSUME NEW s \in Req PROVE LocalsSafe(req[s])'
  <2>1. CASE s = r
    BY <2>1 DEF LocalsSafe, PaidPC
  <2>2. CASE s # r
    <3>1. LocalsSafe(req[s]) /\ req'[s] = req[s] /\ req[s].rs \in SUBSET Rid
      BY <1>1, <2>2 DEF SafeInv, TypeInv, TypeOK, Request
    <3>2. \A i \in req[s].rs : resStatus'[i] # "none" /\ resOrder'[i] = req[s].o
      BY <3>1 DEF LocalsSafe
    <3>3. req[s].pc \in PaidTx => req[s].rs = ActiveOf(req[s].o)'
      BY <1>2, <2>2, <3>1 DEF LocalsSafe, ActiveOf
    <3> QED BY <3>1, <3>2, <3>3 DEF LocalsSafe
  <2> QED BY <2>1, <2>2
<1>4. OnePaidTx'
  BY <1>1 DEF SafeInv, OnePaidTx
<1>5. PaidHoldsNoReservation'
  BY <1>2 DEF SafeInv, PaidHoldsNoReservation
<1>6. PaidBacked'
  BY DEF SafeInv, PaidBacked
<1>7. PaidWasVerified'
  BY DEF SafeInv, PaidWasVerified
<1> QED BY <1>3, <1>4, <1>5, <1>6, <1>7 DEF SafeInv

LEMMA CreateOrderSafe ==
  ASSUME SafeInv, TypeInv', NEW r \in Req, NEW o \in Order, CreateOrder(r, o)
  PROVE  SafeInv'
<1>1. TypeOK /\ req[r].pc = "idle" /\ LocalsSafe(req[r])
  BY DEF SafeInv, TypeInv, TypeOK, CreateOrder, Begin
<1>2. UNCHANGED <<nInv, inv, resStatus, resOrder, deducts, prov, req>>
  BY DEF CreateOrder, stkVars, extVars
<1>3. phase'[o] = "cart" /\ \A p \in Order : p # o => phase'[p] = phase[p]
  BY <1>1 DEF CreateOrder, TypeOK
<1>4. req' = [req EXCEPT ![r] = req'[r]]
  BY <1>1, <1>2 DEF TypeOK
<1>5. LocalsSafe(req[r])'
  BY <1>1, <1>2 DEF LocalsSafe, ActiveOf
<1>6. DeductsOK'
  BY <1>2 DEF SafeInv, DeductsOK
<1> QED BY <1>1, <1>2, <1>3, <1>4, <1>5, <1>6, OrderStep DEF PaidTx

LEMMA AddToCartCommitSafe ==
  ASSUME SafeInv, TypeInv', NEW r \in Req, AddToCartCommit(r)
  PROVE  SafeInv'
<1>1. TypeOK /\ req[r].o \in Order
  BY DEF SafeInv, TypeInv, LocalsOK, OrderPC, PC, AddToCartCommit, At
<1>2. UNCHANGED <<nInv, inv, resStatus, resOrder, deducts, prov>>
  BY DEF AddToCartCommit, stkVars, extVars
<1>3. phase'[req[r].o] = "cart" /\ \A p \in Order : p # req[r].o => phase'[p] = phase[p]
  BY <1>1 DEF AddToCartCommit, TypeOK
<1>4. req' = [req EXCEPT ![r] = req'[r]] /\ req'[r].rs = {} /\ req'[r].pc = "idle"
  BY <1>1 DEF TypeOK, AddToCartCommit, Finish, Idle
<1>5. DeductsOK'
  BY <1>2 DEF SafeInv, DeductsOK
<1> QED BY <1>1, <1>2, <1>3, <1>4, <1>5, OrderStep DEF PaidTx, PaidPC

LEMMA SendPaymentLinkCommitSafe ==
  ASSUME SafeInv, TypeInv', NEW r \in Req, SendPaymentLinkCommit(r)
  PROVE  SafeInv'
<1>1. TypeOK /\ req[r].o \in Order
  BY DEF SafeInv, TypeInv, LocalsOK, OrderPC, PC, SendPaymentLinkCommit, At
<1>2. UNCHANGED <<nInv, resStatus, resOrder, deducts, prov>>
  BY DEF SendPaymentLinkCommit, stkVars, extVars
<1>3. /\ phase'[req[r].o] = "payment_pending"
      /\ \A p \in Order : p # req[r].o => phase'[p] = phase[p] /\ inv'[p] = inv[p]
      /\ \A k \in InvNo : inv'[req[r].o][k] = "PAID" => inv[req[r].o][k] = "PAID"
  BY <1>1 DEF SendPaymentLinkCommit, TypeOK
<1>4. req' = [req EXCEPT ![r] = req'[r]] /\ req'[r].rs = {} /\ req'[r].pc = "idle"
  BY <1>1 DEF TypeOK, SendPaymentLinkCommit, Finish, Idle
<1>5. DeductsOK'
  BY <1>2 DEF SafeInv, DeductsOK
<1> QED BY <1>1, <1>2, <1>3, <1>4, <1>5, OrderStep DEF PaidTx, PaidPC

LEMMA CheckoutCommitSafe ==
  ASSUME SafeInv, TypeInv', NEW r \in Req, NEW j \in Rid, CheckoutCommit(r, j)
  PROVE  SafeInv'
<1> DEFINE o == req[r].o
<1>1. TypeOK /\ o \in Order /\ LocalsSafe(req[r]) /\ req[r].rs \in SUBSET Rid
  BY DEF SafeInv, TypeInv, TypeOK, Request, LocalsOK, OrderPC, PC, CheckoutCommit, At
<1>2. UNCHANGED <<deducts, prov>> /\ OrderFree(o)
  BY DEF CheckoutCommit, extVars
<1>3. /\ phase'[o] = "checkout"
      /\ \A p \in Order : p # o => phase'[p] = phase[p]
  BY <1>1 DEF CheckoutCommit, TypeOK
<1>4. /\ \A p \in Order : p # o => inv'[p] = inv[p] /\ nInv'[p] = nInv[p]
      /\ \A k \in InvNo : inv'[o][k] = "PAID" => inv[o][k] = "PAID"
  <2>1. CheckoutInvoice(o) BY DEF CheckoutCommit
  <2>2. \/ inv' = [inv EXCEPT ![o][nInv[o]] = "NOT_PAID"] /\ nInv' = nInv
        \/ inv' = [inv EXCEPT ![o][nInv[o] + 1] = "NOT_PAID"] /\ nInv' = [nInv EXCEPT ![o] = @ + 1]
    BY <2>1 DEF CheckoutInvoice
  <2>3. inv \in [Order -> [InvNo -> InvStatus]] /\ \A p \in Order : p # o => nInv'[p] = nInv[p]
    BY <1>1, <2>2 DEF TypeOK
  <2> HIDE DEF o
  <2> QED BY <1>1, <2>2, <2>3, InvoiceWrite
<1>5. \A i \in Rid :
        /\ resStatus'[i] = IF i = j THEN "active" ELSE IF i \in req[r].rs THEN "released" ELSE resStatus[i]
        /\ resOrder'[i] = IF i = j THEN o ELSE resOrder[i]
  BY <1>1 DEF CheckoutCommit, TypeOK
<1>6. resStatus[j] = "none"
  BY DEF CheckoutCommit
<1>7. \A i \in req[r].rs : resStatus[i] # "none" /\ resOrder[i] = o
  BY <1>1 DEF LocalsSafe
<1>8. DeductsOK'
  BY <1>2, <1>5, <1>6 DEF SafeInv, DeductsOK
<1>9. req' = [req EXCEPT ![r] = req'[r]] /\ req'[r].rs = {} /\ req'[r].pc = "idle"
  BY <1>1 DEF TypeOK, CheckoutCommit, Finish, Idle
<1>10. \A s \in Req : req[s].pc \in PaidTx => req[s].o # o
  BY <1>2 DEF OrderFree
<1>11. \A i \in Rid : \/ resStatus'[i] = resStatus[i] /\ resOrder'[i] = resOrder[i]
                      \/ /\ resStatus'[i] # "none" /\ resOrder'[i] = o
                         /\ resStatus[i] = "none" \/ resOrder[i] = o
  BY <1>5, <1>6, <1>7
<1> HIDE DEF o
<1> QED BY <1>1, <1>2, <1>3, <1>4, <1>8, <1>9, <1>10, <1>11, OrderStep DEF PaidTx, PaidPC

\* The two transactions that release: cancelOrder's and the closing webhook's.
LEMMA ReleaseSafe ==
  ASSUME SafeInv, TypeInv', NEW r \in Req, CancelCommit(r) \/ ClosingCommit(r)
  PROVE  SafeInv'
<1> DEFINE o == req[r].o
<1>1. TypeOK /\ o \in Order /\ LocalsSafe(req[r]) /\ req[r].rs \in SUBSET Rid
  BY DEF SafeInv, TypeInv, TypeOK, Request, LocalsOK, OrderPC, PC, CancelCommit, ClosingCommit, At
<1>2. UNCHANGED <<nInv, resOrder, deducts, prov>> /\ OrderFree(o)
  BY DEF CancelCommit, ClosingCommit, Release, extVars
<1>3. /\ phase'[o] # "paid"
      /\ \A p \in Order : p # o => phase'[p] = phase[p]
  BY <1>1 DEF CancelCommit, ClosingCommit, TypeOK
<1>4. /\ \A p \in Order : p # o => inv'[p] = inv[p]
      /\ \A k \in InvNo : inv'[o][k] = "PAID" => inv[o][k] = "PAID"
  <2>1. CASE CancelCommit(r)
    <3>1. inv' = inv \/ inv' = [inv EXCEPT ![o][req[r].k] = "CANCELLED"]
      BY <2>1 DEF CancelCommit
    <3>2. inv \in [Order -> [InvNo -> InvStatus]]
      BY <1>1 DEF TypeOK
    <3> HIDE DEF o
    <3> QED BY <1>1, <3>1, <3>2, InvoiceWrite
  <2>2. CASE ClosingCommit(r)
    <3>1. req[r].st # "PAID"
      BY <2>2 DEF SafeInv, TypeInv, LocalsOK, ClosingCommit, At
    <3> QED BY <1>1, <2>2, <3>1 DEF ClosingCommit, TypeOK
  <2> QED BY <2>1, <2>2
<1>5. \A i \in Rid : resStatus'[i] = IF i \in req[r].rs THEN "released" ELSE resStatus[i]
  BY DEF CancelCommit, ClosingCommit, Release
<1>6. \A i \in req[r].rs : resStatus[i] # "none" /\ resOrder[i] = o
  BY <1>1 DEF LocalsSafe
<1>7. DeductsOK'
  BY <1>2, <1>5 DEF SafeInv, DeductsOK
<1>8. req' = [req EXCEPT ![r] = req'[r]] /\ req'[r].rs = {} /\ req'[r].pc \in {"idle", "wh_done"}
  BY <1>1 DEF TypeOK, Request, CancelCommit, ClosingCommit, Finish, Idle
<1>9. \A s \in Req : req[s].pc \in PaidTx => req[s].o # o
  BY <1>2 DEF OrderFree
<1>10. \A i \in Rid : \/ resStatus'[i] = resStatus[i] /\ resOrder'[i] = resOrder[i]
                      \/ /\ resStatus'[i] # "none" /\ resOrder'[i] = o
                         /\ resStatus[i] = "none" \/ resOrder[i] = o
  BY <1>2, <1>5, <1>6
<1> HIDE DEF o
<1> QED BY <1>1, <1>2, <1>3, <1>4, <1>7, <1>8, <1>9, <1>10, OrderStep DEF PaidTx, PaidPC

LEMMA PaidCommitSafe ==
  ASSUME SafeInv, TypeInv', NEW r \in Req, PaidCommit(r)
  PROVE  SafeInv'
<1>0. PICK o \in Order : o = req[r].o
  BY DEF SafeInv, TypeInv, LocalsOK, OrderPC, PC, PaidCommit, At
<1>1. /\ TypeOK /\ LocalsSafe(req[r]) /\ req[r].rs \in SUBSET Rid
      /\ req[r].pc = "pd_commit" /\ req[r].k \in 1..nInv[o] /\ nInv[o] \in 0..MaxInv
  BY <1>0 DEF SafeInv, TypeInv, TypeOK, Request, LocalsOK, OrderPC, InvoicePC, PC, PaidCommit, At
<1>2. UNCHANGED <<nInv, resOrder, prov>>
  BY DEF PaidCommit, Finalize, extVars
<1>3. req[r].rs = ActiveOf(o) /\ prov[o] = "PAID"
  BY <1>0, <1>1 DEF LocalsSafe, PaidTx, PaidPC
<1>4. /\ \A p \in Order : p # o => phase'[p] = phase[p] /\ inv'[p] = inv[p]
      /\ inv'[o][req[r].k] = "PAID"
  <2>1. req[r].k \in InvNo BY <1>1, CommerceAssumption DEF InvNo
  <2> QED BY <1>0, <1>1, <2>1 DEF PaidCommit, TypeOK
<1>5. \A i \in Rid :
        /\ resStatus'[i] = IF i \in req[r].rs THEN "finalized" ELSE resStatus[i]
        /\ deducts'[i] = IF i \in req[r].rs THEN deducts[i] + 1 ELSE deducts[i]
  BY DEF PaidCommit, Finalize
<1>6. \A i \in req[r].rs : resStatus[i] = "active" /\ resOrder[i] = o
  BY <1>3 DEF ActiveOf
<1>7. DeductsOK'
  <2>1. \A i \in Rid : deducts[i] \in Nat BY <1>1 DEF TypeOK
  <2> QED BY <1>5, <1>6, <2>1 DEF SafeInv, DeductsOK
<1>8. ActiveOf(o)' = {}
  BY <1>2, <1>3, <1>5 DEF ActiveOf
<1>9. req' = [req EXCEPT ![r] = req'[r]] /\ req'[r].rs = {} /\ req'[r].pc = "nt_check"
  BY <1>1 DEF TypeOK, Request, PaidCommit
<1>10. \A s \in Req : s # r /\ req[s].pc \in PaidTx => req[s].o # o
  BY <1>0, <1>1 DEF SafeInv, OnePaidTx, PaidTx
<1>11. \A i \in Rid : \/ resStatus'[i] = resStatus[i] /\ resOrder'[i] = resOrder[i]
                      \/ /\ resStatus'[i] # "none" /\ resOrder'[i] = o
                         /\ resStatus[i] = "none" \/ resOrder[i] = o
  BY <1>2, <1>5, <1>6
<1>12. \E k \in 1..nInv'[o] : inv'[o][k] = "PAID"
  BY <1>1, <1>2, <1>4
<1> QED BY <1>1, <1>2, <1>3, <1>4, <1>7, <1>8, <1>9, <1>10, <1>11, <1>12, OrderStep DEF PaidTx, PaidPC

\* The provider's steps, and no step at all.
LEMMA ProviderSafe ==
  ASSUME SafeInv, TypeInv',
         \/ \E o \in Order : ProviderSettles(o) \/ ProviderNotifies(o)
         \/ \E e \in Event : StrayNotifies(e)
         \/ UNCHANGED vars
  PROVE  SafeInv'
<1>1. UNCHANGED <<phase, nInv, inv, resStatus, resOrder, deducts, req>>
  BY DEF ProviderSettles, ProviderNotifies, StrayNotifies, vars, dbVars, stkVars
<1>2. \A o \in Order : prov[o] = "PAID" => prov'[o] = "PAID"
  BY DEF ProviderSettles, ProviderNotifies, StrayNotifies, SafeInv, TypeInv, TypeOK, vars, extVars
<1>3. \A o : ActiveOf(o)' = ActiveOf(o)
  BY <1>1 DEF ActiveOf
<1>4. ASSUME NEW r \in Req PROVE LocalsSafe(req[r])'
  <2>1. req[r].pc \in PaidPC => req[r].o \in Order
    BY DEF SafeInv, TypeInv, LocalsOK, PaidPC, PaidTx, OrderPC, PC
  <2> QED BY <1>1, <1>2, <1>3, <2>1 DEF SafeInv, LocalsSafe
<1>5. OnePaidTx' /\ DeductsOK' /\ PaidHoldsNoReservation' /\ PaidBacked'
  BY <1>1, <1>3 DEF SafeInv, OnePaidTx, DeductsOK, PaidHoldsNoReservation, PaidBacked
<1>6. PaidWasVerified'
  BY <1>1, <1>2 DEF SafeInv, PaidWasVerified
<1> QED BY <1>4, <1>5, <1>6 DEF SafeInv

\* Every step keeps the invariant.
LEMMA SafeStep == SafeInv /\ [Next]_vars => SafeInv'
<1> SUFFICES ASSUME SafeInv, [Next]_vars PROVE SafeInv'
  OBVIOUS
<1>0. TypeInv'
  BY TypeStep DEF SafeInv
<1>1. CASE UNCHANGED vars
  BY <1>0, <1>1, ProviderSafe
<1>2. ASSUME NEW r \in Req, Start(r) PROVE SafeInv'
  BY <1>0, <1>2, CreateOrderSafe, AddToCartSafe, CheckoutSafe, SendPaymentLinkSafe,
     CancelOrderSafe, AdjustStockSafe, WebhookSafe, WebhookIdempotentSafe DEF Start
<1>3. ASSUME NEW r \in Req, Step(r) PROVE SafeInv'
  BY <1>0, <1>3, AddToCartCommitSafe, CheckoutReservationsSafe, CheckoutVariantSafe,
     CheckoutRejectedSafe, CheckoutCommitSafe, LinkInvoicesSafe, CreateTransactionSafe,
     SendPaymentLinkCommitSafe, CancelInvoicesSafe, CancelTransactionSafe, CancelReservationsSafe,
     CancelVariantSafe, ReleaseSafe, AdjustCommitSafe, WebhookUpsertSafe, WebhookFindSafe,
     WebhookNotFoundSafe, WebhookVerifySafe, PaidReadSafe, PaidLockSafe, PaidVariantSafe,
     PaidCommitSafe, ClosingLockSafe, ClosingVariantSafe, NotifyLookSafe, NotifyCreateSafe,
     NotifyFailedSafe, WebhookDoneSafe DEF Step
<1>4. ASSUME NEW r \in Req, Fail(r) PROVE SafeInv'
  BY <1>0, <1>4, FailSafe
<1>5. CASE \/ \E o \in Order : ProviderSettles(o) \/ ProviderNotifies(o)
           \/ \E e \in Event : StrayNotifies(e)
  BY <1>0, <1>5, ProviderSafe
<1> QED BY <1>1, <1>2, <1>3, <1>4, <1>5 DEF Next

LEMMA SafeInit == Init => SafeInv
<1> SUFFICES ASSUME Init PROVE SafeInv
  OBVIOUS
<1>1. TypeInv BY TypeInit
<1>2. \A r \in Req : req[r].pc = "idle" /\ req[r].rs = {}
  BY DEF Init, Idle
<1>3. \A r \in Req : LocalsSafe(req[r])
  BY <1>2 DEF LocalsSafe, PaidPC, PaidTx
<1>4. OnePaidTx
  BY <1>2 DEF OnePaidTx, PaidTx
<1>5. DeductsOK /\ PaidHoldsNoReservation /\ PaidBacked /\ PaidWasVerified
  BY DEF Init, DeductsOK, PaidHoldsNoReservation, PaidBacked, PaidWasVerified
<1> QED BY <1>1, <1>3, <1>4, <1>5 DEF SafeInv

LEMMA Safe == Spec => []SafeInv
BY SafeInit, SafeStep, PTL DEF Spec

\* A paid order holds no stock, however requests interleave and wherever one
\* of them stops.
THEOREM PaidOrderHoldsNothing == Spec => []PaidHoldsNoReservation
<1>1. SafeInv => PaidHoldsNoReservation BY DEF SafeInv
<1> QED BY <1>1, Safe, PTL

\* A paid order always has a paid invoice.
THEOREM PaidOrderIsBacked == Spec => []PaidBacked
<1>1. SafeInv => PaidBacked BY DEF SafeInv
<1> QED BY <1>1, Safe, PTL

\* No delivery, repeated or concurrent, takes the stock of a reservation twice.
THEOREM StockTakenOnce == Spec => []DeductedOnce
<1>1. SafeInv => DeductedOnce BY DEF SafeInv, DeductsOK, DeductedOnce
<1> QED BY <1>1, Safe, PTL

\* An invoice is PAID only on the provider's word.
THEOREM PaidOnProvidersWord == Spec => []PaidWasVerified
<1>1. SafeInv => PaidWasVerified BY DEF SafeInv
<1> QED BY <1>1, Safe, PTL

-----------------------------------------------------------------------------
(* What a step may do to a reservation, and the refinement. *)

\* The steps that change the phase of an order or a reservation.
Change(r) ==
  \/ \E o \in Order : CreateOrder(r, o)
  \/ AddToCartCommit(r) \/ SendPaymentLinkCommit(r)
  \/ \E i \in Rid : CheckoutCommit(r, i)
  \/ CancelCommit(r) \/ ClosingCommit(r) \/ PaidCommit(r)

LEMMA OtherStepsQuiet ==
  ASSUME [Next]_vars
  PROVE  \/ UNCHANGED <<phase, resStatus, resOrder, resQty, deducts>>
         \/ \E r \in Req : Change(r)
<1> DEFINE Quiet == UNCHANGED <<phase, resStatus, resOrder, resQty, deducts>>
<1>1. CASE UNCHANGED vars
  BY <1>1 DEF vars, dbVars, stkVars
<1>2. ASSUME NEW r \in Req, Start(r) PROVE Quiet \/ Change(r)
  BY <1>2 DEF Start, Change, AddToCart, Checkout, SendPaymentLink, CancelOrder, AdjustStock,
              Webhook, WebhookIdempotent, dbVars, stkVars
<1>3. ASSUME NEW r \in Req, Step(r) PROVE Quiet \/ Change(r)
  BY <1>3 DEF Step, Change, CheckoutReservations, CheckoutVariant, CheckoutRejected, LinkInvoices,
              CreateTransaction, CancelInvoices, CancelTransaction, CancelReservations,
              CancelVariant, AdjustCommit, WebhookUpsert, WebhookFind, WebhookNotFound,
              WebhookVerify, PaidRead, PaidLock, PaidVariant, ClosingLock, ClosingVariant,
              NotifyLook, NotifyCreate, NotifyFailed, WebhookDone, dbVars, stkVars
<1>4. ASSUME NEW r \in Req, Fail(r) PROVE Quiet
  BY <1>4 DEF Fail, dbVars, stkVars
<1>5. CASE \/ \E o \in Order : ProviderSettles(o) \/ ProviderNotifies(o)
           \/ \E e \in Event : StrayNotifies(e)
  BY <1>5 DEF ProviderSettles, ProviderNotifies, StrayNotifies, dbVars, stkVars
<1> QED BY <1>1, <1>2, <1>3, <1>4, <1>5 DEF Next

-----------------------------------------------------------------------------
MovesOn(i) ==
  /\ resStatus[i] \in {"released", "finalized"} => resStatus'[i] # "active"
  /\ resStatus[i] # "none" => resOrder'[i] = resOrder[i] /\ resQty'[i] = resQty[i]

LEMMA StepMovesOn ==
  ASSUME TypeInv, [Next]_vars, NEW i \in Rid
  PROVE  MovesOn(i)
<1>1. TypeOK BY DEF TypeInv
<1>2. CASE UNCHANGED <<phase, resStatus, resOrder, resQty, deducts>>
  BY <1>2 DEF MovesOn
<1>3. ASSUME NEW r \in Req, Change(r) PROVE MovesOn(i)
  <2>1. ASSUME NEW o \in Order, CreateOrder(r, o) PROVE MovesOn(i)
    BY <2>1 DEF CreateOrder, stkVars, MovesOn
  <2>2. CASE AddToCartCommit(r) \/ SendPaymentLinkCommit(r)
    BY <2>2 DEF AddToCartCommit, SendPaymentLinkCommit, stkVars, MovesOn
  <2>3. ASSUME NEW j \in Rid, CheckoutCommit(r, j) PROVE MovesOn(i)
    BY <1>1, <2>3 DEF CheckoutCommit, TypeOK, MovesOn
  <2>4. CASE CancelCommit(r) \/ ClosingCommit(r)
    BY <2>4 DEF CancelCommit, ClosingCommit, Release, MovesOn
  <2>5. CASE PaidCommit(r)
    BY <2>5 DEF PaidCommit, Finalize, MovesOn
  <2> QED BY <1>3, <2>1, <2>2, <2>3, <2>4, <2>5 DEF Change
<1> QED BY <1>2, <1>3, OtherStepsQuiet

\* No step makes a released or finalized reservation active again, or moves a
\* reservation to another order.
THEOREM ReservationsNeverReturn == Spec => ReservationsMoveOn
<1>1. TypeInv /\ [Next]_vars => [\A i \in Rid : MovesOn(i)]_vars
  BY StepMovesOn
<1>2. Spec => []TypeInv
  BY TypeInit, TypeStep, PTL DEF Spec
<1>3. Spec => [][\A i \in Rid : MovesOn(i)]_vars
  BY <1>1, <1>2, PTL DEF Spec
<1> QED BY <1>3 DEF ReservationsMoveOn, MovesOn

-----------------------------------------------------------------------------
Holding == [o \in Order |-> ActiveOf(o)]
Taken   == {i \in Rid : deducts[i] > 0}

LEMMA SettlementInit == Init => Settlement!Init
<1> SUFFICES ASSUME Init PROVE Settlement!Init
  OBVIOUS
<1>1. \A o \in Order : ActiveOf(o) = {}
  BY DEF Init, ActiveOf
<1>2. {i \in Rid : deducts[i] > 0} = {}
  BY DEF Init
<1> QED BY <1>1, <1>2 DEF Init, Settlement!Init

LEMMA StepSettles ==
  ASSUME SafeInv, SafeInv', [Next]_vars
  PROVE  [Settlement!Next]_Settlement!vars
<1>1. CASE UNCHANGED <<phase, resStatus, resOrder, resQty, deducts>>
  BY <1>1 DEF Settlement!vars, ActiveOf
<1>2. ASSUME NEW r \in Req, Change(r) PROVE Settlement!Next
  <2>0. /\ TypeOK /\ req[r] \in Request /\ LocalsSafe(req[r])
        /\ \A i \in Rid : deducts[i] \in Nat /\ resStatus[i] \in ResStatus
    BY DEF SafeInv, TypeInv, TypeOK
  <2>1. ASSUME NEW o \in Order, NEW p \in {"cart", "payment_pending"},
               phase' = [phase EXCEPT ![o] = p], UNCHANGED stkVars
        PROVE  Settlement!Next
    <3>1. Holding' = Holding /\ Taken' = Taken
      BY <2>1 DEF Holding, Taken, ActiveOf, stkVars
    <3> QED BY <2>1, <3>1 DEF Settlement!Next, Settlement!Await, Holding, Taken
  <2>2. ASSUME NEW o \in Order, CreateOrder(r, o) PROVE Settlement!Next
    BY <2>1, <2>2 DEF CreateOrder
  <2>3. CASE AddToCartCommit(r)
    <3>1. req[r].o \in Order
      BY <2>3 DEF SafeInv, TypeInv, LocalsOK, OrderPC, PC, AddToCartCommit, At
    <3> QED BY <2>1, <2>3, <3>1 DEF AddToCartCommit
  <2>4. CASE SendPaymentLinkCommit(r)
    <3>1. req[r].o \in Order
      BY <2>4 DEF SafeInv, TypeInv, LocalsOK, OrderPC, PC, SendPaymentLinkCommit, At
    <3> QED BY <2>1, <2>4, <3>1 DEF SendPaymentLinkCommit
  <2>5. ASSUME NEW j \in Rid, CheckoutCommit(r, j) PROVE Settlement!Next
    <3>1. PICK o \in Order : o = req[r].o
      BY <2>5 DEF SafeInv, TypeInv, LocalsOK, OrderPC, PC, CheckoutCommit, At
    <3>2. /\ phase' = [phase EXCEPT ![o] = "checkout"]
          /\ resStatus[j] = "none"
          /\ resStatus' = [i \in Rid |-> IF i = j THEN "active"
                                         ELSE IF i \in req[r].rs THEN "released" ELSE resStatus[i]]
          /\ resOrder' = [resOrder EXCEPT ![j] = o]
          /\ deducts' = deducts
      BY <2>5, <3>1 DEF CheckoutCommit
    <3>3. \A i \in req[r].rs : resOrder[i] = o
      BY <2>0, <3>1 DEF LocalsSafe
    <3>4. j \notin Taken /\ Taken' = Taken
      BY <2>0, <3>2 DEF Taken, SafeInv, DeductsOK
    <3>5. \A p \in Order : j \notin ActiveOf(p)
      BY <3>2 DEF ActiveOf
    <3>6. ActiveOf(o)' = (ActiveOf(o) \ (req[r].rs \intersect ActiveOf(o))) \union {j}
      BY <2>0, <3>2 DEF ActiveOf, TypeOK
    <3>7. \A p \in Order : p # o => ActiveOf(p)' = ActiveOf(p)
      BY <2>0, <3>2, <3>3 DEF ActiveOf, TypeOK
    <3>8. Holding' = [Holding EXCEPT ![o] = (@ \ (req[r].rs \intersect ActiveOf(o))) \union {j}]
      BY <3>6, <3>7 DEF Holding
    <3>9. Settlement!Reserve(o)
      <4>1. req[r].rs \intersect ActiveOf(o) \in SUBSET Holding[o]
        BY DEF Holding
      <4>2. j \in Rid \ Taken /\ \A p \in Order : j \notin Holding[p]
        BY <3>4, <3>5 DEF Holding
      <4> QED BY <3>2, <3>4, <3>8, <4>1, <4>2 DEF Settlement!Reserve, Holding, Taken
    <3> QED BY <3>9 DEF Settlement!Next
  <2>6. CASE CancelCommit(r) \/ ClosingCommit(r)
    <3>1. PICK o \in Order : o = req[r].o
      BY <2>6 DEF SafeInv, TypeInv, LocalsOK, OrderPC, PC, CancelCommit, ClosingCommit, At
    <3>2. PICK p \in {"cancelled", "expired"} : phase' = [phase EXCEPT ![o] = p]
      BY <2>6, <3>1 DEF CancelCommit, ClosingCommit
    <3>3. /\ resStatus' = [i \in Rid |-> IF i \in req[r].rs THEN "released" ELSE resStatus[i]]
          /\ resOrder' = resOrder /\ deducts' = deducts
      BY <2>6 DEF CancelCommit, ClosingCommit, Release
    <3>4. \A i \in req[r].rs : resOrder[i] = o
      BY <2>0, <3>1 DEF LocalsSafe
    <3>5. ActiveOf(o)' = ActiveOf(o) \ (req[r].rs \intersect ActiveOf(o))
      BY <3>3 DEF ActiveOf
    <3>6. \A q \in Order : q # o => ActiveOf(q)' = ActiveOf(q)
      BY <3>3, <3>4 DEF ActiveOf
    <3>7. Holding' = [Holding EXCEPT ![o] = @ \ (req[r].rs \intersect ActiveOf(o))] /\ Taken' = Taken
      BY <3>3, <3>5, <3>6 DEF Holding, Taken
    <3>8. req[r].rs \intersect ActiveOf(o) \in SUBSET Holding[o]
      BY DEF Holding
    <3>9. Settlement!Close(o)
      BY <3>2, <3>7, <3>8 DEF Settlement!Close, Holding, Taken
    <3> QED BY <3>9 DEF Settlement!Next
  <2>7. CASE PaidCommit(r)
    <3>1. PICK o \in Order : o = req[r].o
      BY <2>7 DEF SafeInv, TypeInv, LocalsOK, OrderPC, PC, PaidCommit, At
    <3>2. /\ phase' = [phase EXCEPT ![o] = "paid"]
          /\ resStatus' = [i \in Rid |-> IF i \in req[r].rs THEN "finalized" ELSE resStatus[i]]
          /\ deducts' = [i \in Rid |-> IF i \in req[r].rs THEN deducts[i] + 1 ELSE deducts[i]]
          /\ resOrder' = resOrder
      BY <2>7, <3>1 DEF PaidCommit, Finalize
    <3>3. req[r].rs = ActiveOf(o)
      BY <2>0, <2>7, <3>1 DEF LocalsSafe, PaidTx, PaidCommit, At
    <3>4. ActiveOf(o)' = {} /\ \A q \in Order : q # o => ActiveOf(q)' = ActiveOf(q)
      BY <3>2, <3>3 DEF ActiveOf
    <3>5. Taken' = Taken \union ActiveOf(o)
      BY <2>0, <3>2, <3>3 DEF Taken, ActiveOf
    <3>6. Holding' = [Holding EXCEPT ![o] = {}] /\ Holding[o] = ActiveOf(o)
      BY <3>4 DEF Holding
    <3>7. Settlement!Settle(o)
      BY <3>2, <3>5, <3>6 DEF Settlement!Settle, Holding, Taken
    <3> QED BY <3>7 DEF Settlement!Next
  <2> QED BY <1>2, <2>2, <2>3, <2>4, <2>5, <2>6, <2>7 DEF Change
<1> QED BY <1>1, <1>2, OtherStepsQuiet

\* However its requests interleave or stop, Commerce implements the abstract
\* settlement of orders: the step that makes an order paid spends, at once,
\* every reservation the order holds, each of them once.
THEOREM ImplementsSettlement == Spec => SettlementRefinement
<1>1. Init => Settlement!Init BY SettlementInit
<1>2. SafeInv /\ SafeInv' /\ [Next]_vars => [Settlement!Next]_Settlement!vars
  BY StepSettles
<1> QED BY <1>1, <1>2, Safe, PTL DEF Spec, SettlementRefinement, Settlement!Spec
=============================================================================
