------------------------------ MODULE Commerce ------------------------------
(***************************************************************************)
(* The order journey of OpenCRM (modules/commerce/service.ts): cart,       *)
(* checkout with stock reservation, payment link, cancellation, the        *)
(* payment provider's webhook, manual stock adjustment.  Every operation   *)
(* runs in a request; several requests run at once, in one or more API     *)
(* processes, over one PostgreSQL database at its default isolation level, *)
(* READ COMMITTED.                                                         *)
(*                                                                         *)
(* A request is a sequence of steps.  A read outside a transaction, a read *)
(* inside one that a later write depends on, and a call to the provider    *)
(* are steps of their own; the writes of a transaction take effect         *)
(* together in the step that commits it.  Between two steps of a request   *)
(* any other request may run, unless a row lock forbids it: see OrderFree  *)
(* and InvoiceFree.                                                        *)
(*                                                                         *)
(* One stock row (a product variant) is modelled: the one the orders       *)
(* compete for.  Each order has one item of that variant.                  *)
(***************************************************************************)
EXTENDS Integers, FiniteSets

CONSTANTS
  Order,     \* orders (rows of orders)
  Rid,       \* reservations (rows of stock_reservations)
  Req,       \* requests that may run at the same time
  Event,     \* ids the provider gives its notifications (webhook_events.external_id)
  EventOf,   \* the order a notification id is about (NoOrder: none of this database)
  FreshIds,  \* TRUE: the provider gives every notification an id of its own
  Chatless,  \* the orders that belong to no conversation
  NoOrder,   \* the order of a request that works on none
  NoEvent,   \* the event of a request that handles none
  Ops,       \* the client operations this instance issues
  Deltas,    \* the quantities of manual stock adjustments
  InitStock, \* stock_on_hand at the start
  MaxQty,    \* bound on the quantity of an order item
  MaxInv,    \* bound on the invoices of an order
  MaxStock   \* bound on stock_on_hand

ASSUME CommerceAssumption ==
  /\ IsFiniteSet(Rid)
  /\ EventOf \in [Event -> Order \union {NoOrder}]
  /\ Chatless \subseteq Order
  /\ NoOrder \notin Order
  /\ NoEvent \notin Event
  /\ FreshIds \in BOOLEAN
  /\ Deltas \subseteq Int
  /\ MaxQty \in Nat \ {0} /\ MaxInv \in Nat
  /\ MaxStock \in Nat /\ InitStock \in 0..MaxStock

VARIABLES
  phase,     \* orders.journey_phase ("none": the row does not exist)
  cart,      \* quantity of the order's item
  nInv,      \* how many invoices the order has; the last is the newest
  inv,       \* order_invoices.status
  linked,    \* order_invoices.provider_invoice_id is set
  onHand,    \* product_variants.stock_on_hand
  reserved,  \* product_variants.stock_reserved
  resStatus, \* stock_reservations.status ("none": no row)
  resOrder,  \* stock_reservations.order_id
  resQty,    \* stock_reservations.quantity
  deducts,   \* stock_movements of type 'deduct' written for a reservation
  notified,  \* payment_success messages of an invoice
  row,       \* webhook_events.status ("none": no row)
  prov,      \* the provider's status of the order's transaction
  delivery,  \* the provider's record of a notification: "none", "due", "acked"
  req        \* what each request has read so far and where it is

dbVars   == <<phase, cart, nInv, inv, linked>>
stkVars  == <<onHand, reserved, resStatus, resOrder, resQty, deducts>>
extVars  == <<prov, delivery>>
vars     == <<dbVars, stkVars, notified, row, extVars, req>>

Phase     == {"none", "cart", "checkout", "payment_pending", "paid", "cancelled", "expired"}
Open      == {"cart", "checkout", "payment_pending"}
InvNo     == 1..MaxInv
InvStatus == {"NONE", "NOT_PAID", "PAID", "CANCELLED", "EXPIRED"}
ResStatus == {"none", "active", "released", "finalized"}
ProvStatus == {"none", "pending", "PAID", "CANCELLED", "EXPIRED"}
RowStatus == {"none", "processing", "processed", "failed"}
Stock     == [onHand : Nat, reserved : Nat]

PC == {"idle", "ac_commit",
       "co_resv", "co_var", "co_commit",
       "sp_inv", "sp_create", "sp_commit",
       "ca_inv", "ca_provider", "ca_resv", "ca_var", "ca_commit",
       "adj_commit",
       "wh_upsert", "wh_find", "wh_verify", "fb_verify", "wh_done",
       "pd_read", "pd_lock", "pd_var", "pd_commit",
       "wx_lock", "wx_var", "wx_commit",
       "nt_check", "nt_recheck", "nt_create"}

\* The locals of a request: where it is, the order, event and invoice it works
\* on, the item quantity, the active reservations, the stock row and the
\* status it read.
Request == [pc : PC, o : Order \union {NoOrder}, e : Event \union {NoEvent},
            k : 0..MaxInv, q : 0..MaxQty, rs : SUBSET Rid, v : Stock,
            st : InvStatus \union RowStatus]

Idle == [pc |-> "idle", o |-> NoOrder, e |-> NoEvent, k |-> 0, q |-> 0, rs |-> {},
         v |-> [onHand |-> 0, reserved |-> 0], st |-> "none"]

Monus(a, b) == IF a > b THEN a - b ELSE 0      \* Math.max(0, a - b)

CurrentStock == [onHand |-> onHand, reserved |-> reserved]

ActiveOf(o) == {i \in Rid : resStatus[i] = "active" /\ resOrder[i] = o}

\* The sum of the quantities of a set of reservations, counted unit by unit.
Total(rs) == Cardinality({u \in rs \X (1..MaxQty) : u[2] <= resQty[u[1]]})

\* Row locks.  A transaction that has updated a row holds it until it ends:
\* the paid transaction its invoice and its order from pd_lock on, the
\* cancelled/expired one its invoice from wx_lock on.  Every other transaction
\* updates these rows in the step that commits it.
PaidTx    == {"pd_var", "pd_commit"}
ClosingTx == {"wx_var", "wx_commit"}
\* Mutant: transactions that do not wait for the order's row.
MutOrderFree(o) == o = o
OrderFree(o) == \A s \in Req : req[s].pc \in PaidTx => req[s].o # o
InvoiceFree(o, k) ==
  \A s \in Req : req[s].pc \in PaidTx \union ClosingTx => ~(req[s].o = o /\ req[s].k = k)

Init ==
  /\ phase = [o \in Order |-> "none"]
  /\ cart = [o \in Order |-> 0]
  /\ nInv = [o \in Order |-> 0]
  /\ inv = [o \in Order |-> [k \in InvNo |-> "NONE"]]
  /\ linked = [o \in Order |-> [k \in InvNo |-> FALSE]]
  /\ onHand = InitStock /\ reserved = 0
  /\ resStatus = [i \in Rid |-> "none"]
  /\ resOrder = [i \in Rid |-> NoOrder]
  /\ resQty = [i \in Rid |-> 0]
  /\ deducts = [i \in Rid |-> 0]
  /\ notified = [o \in Order |-> [k \in InvNo |-> 0]]
  /\ row = [e \in Event |-> "none"]
  /\ prov = [o \in Order |-> "none"]
  /\ delivery = [e \in Event |-> "none"]
  /\ req = [r \in Req |-> Idle]

Begin(r, op) == req[r].pc = "idle" /\ op \in Ops
At(r, label) == req[r].pc = label
Finish(r)    == req' = [req EXCEPT ![r] = Idle]

-----------------------------------------------------------------------------
(* addToCart.  With no open order of the conversation a new one is created; *)
(* an order_id names any order of the app, whatever its phase.              *)

CreateOrder(r, o) ==
  /\ Begin(r, "add_to_cart")
  /\ phase[o] = "none"
  /\ phase' = [phase EXCEPT ![o] = "cart"]
  /\ cart' = [cart EXCEPT ![o] = 1]
  /\ UNCHANGED <<nInv, inv, linked, stkVars, notified, row, extVars, req>>

AddToCart(r, o) ==
  /\ Begin(r, "add_to_cart")
  /\ phase[o] # "none" /\ cart[o] < MaxQty
  /\ req' = [req EXCEPT ![r] = [Idle EXCEPT !.pc = "ac_commit", !.o = o, !.q = cart[o]]]
  /\ UNCHANGED <<dbVars, stkVars, notified, row, extVars>>

AddToCartCommit(r) ==
  LET o == req[r].o IN
  /\ At(r, "ac_commit") /\ OrderFree(o)
  /\ cart' = [cart EXCEPT ![o] = req[r].q + 1]
  /\ phase' = [phase EXCEPT ![o] = "cart"]
  /\ Finish(r)
  /\ UNCHANGED <<nInv, inv, linked, stkVars, notified, row, extVars>>

-----------------------------------------------------------------------------
(* checkoutOrder: one transaction that releases the order's active          *)
(* reservations and reserves the cart again.                                *)

\* Bound: a checkout starts only while it will find an unused member of Rid.
RidLeft == Cardinality({i \in Rid : resStatus[i] = "none"})
             > Cardinality({s \in Req : req[s].pc \in {"co_resv", "co_var", "co_commit"}})

Checkout(r, o) ==
  /\ Begin(r, "checkout") /\ RidLeft
  /\ phase[o] \in Open
  /\ req' = [req EXCEPT ![r] = [Idle EXCEPT !.pc = "co_resv", !.o = o, !.q = cart[o]]]
  /\ UNCHANGED <<dbVars, stkVars, notified, row, extVars>>

CheckoutReservations(r) ==
  /\ At(r, "co_resv")
  /\ req' = [req EXCEPT ![r].pc = "co_var", ![r].rs = ActiveOf(req[r].o)]
  /\ UNCHANGED <<dbVars, stkVars, notified, row, extVars>>

CheckoutVariant(r) ==
  /\ At(r, "co_var")
  /\ req' = [req EXCEPT ![r].pc = "co_commit", ![r].v = CurrentStock]
  /\ UNCHANGED <<dbVars, stkVars, notified, row, extVars>>

\* The stock row reserveStockForOrder reads.  After a release it is the
\* transaction's own version: its reserved, and the stock committed last.
ReserveBase(r) ==
  IF req[r].rs = {} THEN req[r].v
  ELSE [onHand |-> onHand, reserved |-> Monus(req[r].v.reserved, Total(req[r].rs))]

\* Mutant: the check forgets what is reserved.
MutInStock(r) == ReserveBase(r).onHand >= req[r].q
InStock(r) == ReserveBase(r).onHand - ReserveBase(r).reserved >= req[r].q

Reusable(o) == nInv[o] > 0 /\ inv[o][nInv[o]] \notin {"PAID", "CANCELLED"}

CheckoutInvoice(o) ==
  \/ /\ Reusable(o) /\ InvoiceFree(o, nInv[o])
     /\ inv' = [inv EXCEPT ![o][nInv[o]] = "NOT_PAID"]
     /\ UNCHANGED nInv
  \/ /\ ~Reusable(o) /\ nInv[o] < MaxInv
     /\ inv' = [inv EXCEPT ![o][nInv[o] + 1] = "NOT_PAID"]
     /\ nInv' = [nInv EXCEPT ![o] = @ + 1]

\* Mutant: the order's released reservation is activated again.
MutCheckoutCommit(r, i) ==
  LET o == req[r].o IN
  /\ At(r, "co_commit") /\ OrderFree(o)
  /\ InStock(r)
  /\ resStatus[i] = "none" \/ (resStatus[i] = "released" /\ resOrder[i] = o)
  /\ reserved' = ReserveBase(r).reserved + req[r].q
  /\ resStatus' = [j \in Rid |-> IF j = i THEN "active"
                                 ELSE IF j \in req[r].rs THEN "released" ELSE resStatus[j]]
  /\ resOrder' = [resOrder EXCEPT ![i] = o]
  /\ resQty' = [resQty EXCEPT ![i] = req[r].q]
  /\ phase' = [phase EXCEPT ![o] = "checkout"]
  /\ CheckoutInvoice(o)
  /\ Finish(r)
  /\ UNCHANGED <<cart, linked, onHand, deducts, notified, row, extVars>>

CheckoutCommit(r, i) ==
  LET o == req[r].o IN
  /\ At(r, "co_commit") /\ OrderFree(o)
  /\ InStock(r)
  /\ resStatus[i] = "none"
  /\ reserved' = ReserveBase(r).reserved + req[r].q
  /\ resStatus' = [j \in Rid |-> IF j = i THEN "active"
                                 ELSE IF j \in req[r].rs THEN "released" ELSE resStatus[j]]
  /\ resOrder' = [resOrder EXCEPT ![i] = o]
  /\ resQty' = [resQty EXCEPT ![i] = req[r].q]
  /\ phase' = [phase EXCEPT ![o] = "checkout"]
  /\ CheckoutInvoice(o)
  /\ Finish(r)
  /\ UNCHANGED <<cart, linked, onHand, deducts, notified, row, extVars>>

\* 'Insufficient stock for variant': the transaction is rolled back.
CheckoutRejected(r) ==
  /\ At(r, "co_commit") /\ ~InStock(r)
  /\ Finish(r)
  /\ UNCHANGED <<dbVars, stkVars, notified, row, extVars>>

-----------------------------------------------------------------------------
(* sendPaymentLink: the order is read first, the provider is called, and a  *)
(* transaction that reads nothing again writes the link.                    *)

Unpaid(o) == {k \in 1..nInv[o] : inv[o][k] # "PAID"}

LinkInvoice(o, k) ==
  IF Unpaid(o) = {} THEN k = nInv[o]
  ELSE k \in Unpaid(o) /\ \A j \in Unpaid(o) : j <= k

SendPaymentLink(r, o) ==
  /\ Begin(r, "send_payment_link")
  /\ phase[o] \in Open
  /\ req' = [req EXCEPT ![r] = [Idle EXCEPT !.pc = "sp_inv", !.o = o]]
  /\ UNCHANGED <<dbVars, stkVars, notified, row, extVars>>

\* Without an invoice: 'Checkout is required before sending payment link'.
LinkInvoices(r) ==
  LET o == req[r].o IN
  /\ At(r, "sp_inv")
  /\ IF nInv[o] = 0 THEN Finish(r)
     ELSE \E k \in 1..nInv[o] :
            /\ LinkInvoice(o, k)
            /\ req' = [req EXCEPT ![r].pc = "sp_create", ![r].k = k]
  /\ UNCHANGED <<dbVars, stkVars, notified, row, extVars>>

\* External: the provider knows the transaction by the order's id; a second
\* create for it opens it again unless it is paid.
CreateTransaction(r) ==
  LET o == req[r].o IN
  /\ At(r, "sp_create")
  /\ prov' = [prov EXCEPT ![o] = IF @ = "PAID" THEN @ ELSE "pending"]
  /\ req' = [req EXCEPT ![r].pc = "sp_commit"]
  /\ UNCHANGED <<dbVars, stkVars, notified, row, delivery>>

SendPaymentLinkCommit(r) ==
  LET o == req[r].o  k == req[r].k IN
  /\ At(r, "sp_commit") /\ OrderFree(o) /\ InvoiceFree(o, k)
  /\ inv' = [inv EXCEPT ![o][k] = "NOT_PAID"]
  /\ linked' = [linked EXCEPT ![o][k] = TRUE]
  /\ phase' = [phase EXCEPT ![o] = "payment_pending"]
  /\ Finish(r)
  /\ UNCHANGED <<cart, nInv, stkVars, notified, row, extVars>>

-----------------------------------------------------------------------------
(* Releasing and finalizing reservations: the loops of                      *)
(* releaseActiveReservations and finalizeReservedStock as one step.  The    *)
(* stock row is read before the first update and not touched when the       *)
(* order has no active reservation.                                         *)

StockReadFor(r) == IF req[r].rs = {} THEN req[r].v ELSE CurrentStock

\* Mutant: the reservations are released, the reserved column is not lowered.
MutRelease(r) ==
  /\ resStatus' = [i \in Rid |-> IF i \in req[r].rs THEN "released" ELSE resStatus[i]]
  /\ UNCHANGED <<onHand, reserved, resOrder, resQty, deducts>>

Release(r) ==
  /\ reserved' = IF req[r].rs = {} THEN reserved
                 ELSE Monus(req[r].v.reserved, Total(req[r].rs))
  /\ resStatus' = [i \in Rid |-> IF i \in req[r].rs THEN "released" ELSE resStatus[i]]
  /\ UNCHANGED <<onHand, resOrder, resQty, deducts>>

\* Mutant: the reservations stay active.
MutFinalizeActive(r) ==
  /\ deducts' = [i \in Rid |-> IF i \in req[r].rs THEN deducts[i] + 1 ELSE deducts[i]]
  /\ UNCHANGED <<onHand, reserved, resStatus, resOrder, resQty>>

Finalize(r) ==
  /\ IF req[r].rs = {} THEN UNCHANGED <<onHand, reserved>>
     ELSE /\ onHand' = Monus(req[r].v.onHand, Total(req[r].rs))
          /\ reserved' = Monus(req[r].v.reserved, Total(req[r].rs))
  /\ resStatus' = [i \in Rid |-> IF i \in req[r].rs THEN "finalized" ELSE resStatus[i]]
  /\ deducts' = [i \in Rid |-> IF i \in req[r].rs THEN deducts[i] + 1 ELSE deducts[i]]
  /\ UNCHANGED <<resOrder, resQty>>

-----------------------------------------------------------------------------
(* cancelOrder: order and newest invoice are read, the provider is asked to *)
(* cancel (a failure is swallowed), and a transaction that checks nothing   *)
(* again releases the stock.                                                *)

HasReference(o) == \E k \in InvNo : linked[o][k]     \* orders.external_order_id is set

CancelOrder(r, o) ==
  /\ Begin(r, "cancel")
  /\ phase[o] \in Open
  /\ req' = [req EXCEPT ![r] = [Idle EXCEPT !.pc = "ca_inv", !.o = o]]
  /\ UNCHANGED <<dbVars, stkVars, notified, row, extVars>>

CancelInvoices(r) ==
  LET o == req[r].o IN
  /\ At(r, "ca_inv")
  /\ req' = [req EXCEPT ![r].pc = IF HasReference(o) THEN "ca_provider" ELSE "ca_resv",
                        ![r].k = nInv[o],
                        ![r].st = IF nInv[o] = 0 THEN "NONE" ELSE inv[o][nInv[o]]]
  /\ UNCHANGED <<dbVars, stkVars, notified, row, extVars>>

CancelTransaction(r) ==
  LET o == req[r].o IN
  /\ At(r, "ca_provider")
  /\ \/ prov[o] = "pending" /\ prov' = [prov EXCEPT ![o] = "CANCELLED"]
     \/ UNCHANGED prov
  /\ req' = [req EXCEPT ![r].pc = "ca_resv"]
  /\ UNCHANGED <<dbVars, stkVars, notified, row, delivery>>

CancelReservations(r) ==
  /\ At(r, "ca_resv")
  /\ req' = [req EXCEPT ![r].pc = "ca_var", ![r].rs = ActiveOf(req[r].o)]
  /\ UNCHANGED <<dbVars, stkVars, notified, row, extVars>>

CancelVariant(r) ==
  /\ At(r, "ca_var")
  /\ req' = [req EXCEPT ![r].pc = "ca_commit", ![r].v = StockReadFor(r)]
  /\ UNCHANGED <<dbVars, stkVars, notified, row, extVars>>

CancelInvoice(r) == req[r].k > 0 /\ req[r].st # "PAID"

\* Mutant: the order keeps its phase.
MutCancelCommit(r) ==
  LET o == req[r].o  k == req[r].k IN
  /\ At(r, "ca_commit") /\ OrderFree(o)
  /\ Release(r)
  /\ IF CancelInvoice(r) THEN InvoiceFree(o, k) /\ inv' = [inv EXCEPT ![o][k] = "CANCELLED"]
     ELSE UNCHANGED inv
  /\ Finish(r)
  /\ UNCHANGED <<phase, cart, nInv, linked, notified, row, extVars>>

CancelCommit(r) ==
  LET o == req[r].o  k == req[r].k IN
  /\ At(r, "ca_commit") /\ OrderFree(o)
  /\ Release(r)
  /\ phase' = [phase EXCEPT ![o] = "cancelled"]
  /\ \/ CancelInvoice(r) /\ InvoiceFree(o, k) /\ inv' = [inv EXCEPT ![o][k] = "CANCELLED"]
     \/ ~CancelInvoice(r) /\ UNCHANGED inv
  /\ Finish(r)
  /\ UNCHANGED <<cart, nInv, linked, notified, row, extVars>>

-----------------------------------------------------------------------------
(* adjustVariantStock: the check and the written value come from one read.  *)

AdjustStock(r) ==
  /\ Begin(r, "adjust")
  /\ req' = [req EXCEPT ![r] = [Idle EXCEPT !.pc = "adj_commit", !.v = CurrentStock]]
  /\ UNCHANGED <<dbVars, stkVars, notified, row, extVars>>

\* Mutant: no lower bound.
MutAdjustCommit(r, d) ==
  /\ At(r, "adj_commit")
  /\ req[r].v.onHand + d <= MaxStock
  /\ onHand' = req[r].v.onHand + d
  /\ Finish(r)
  /\ UNCHANGED <<dbVars, reserved, resStatus, resOrder, resQty, deducts,
                 notified, row, extVars>>

AdjustCommit(r, d) ==
  LET after == req[r].v.onHand + d IN
  /\ At(r, "adj_commit")
  /\ after >= req[r].v.reserved /\ after <= MaxStock
  /\ onHand' = after
  /\ Finish(r)
  /\ UNCHANGED <<dbVars, reserved, resStatus, resOrder, resQty, deducts,
                 notified, row, extVars>>

-----------------------------------------------------------------------------
(* handlePakasirWebhook.  A notification the provider has sent is delivered *)
(* at least once; the answer 200 (WebhookDone) ends its redelivery.         *)

Linked(o) == {k \in 1..nInv[o] : linked[o][k]}

\* The invoice a reference finds: the newest that carries it, or else the
\* newest of the order (fallbackInvoice).
FoundInvoice(o, k) ==
  IF Linked(o) = {} THEN k = nInv[o]
  ELSE k \in Linked(o) /\ \A j \in Linked(o) : j <= k

Webhook(r, e) ==
  /\ req[r].pc = "idle" /\ delivery[e] # "none" /\ row[e] # "processed"
  /\ req' = [req EXCEPT ![r] = [Idle EXCEPT !.pc = "wh_upsert", !.o = EventOf[e],
                                            !.e = e, !.st = row[e]]]
  /\ UNCHANGED <<dbVars, stkVars, notified, row, extVars>>

\* A processed event is answered at once, after making sure of the message
\* when its payload says PAID.
WebhookIdempotent(r, e) ==
  LET o == EventOf[e] IN
  /\ req[r].pc = "idle" /\ delivery[e] # "none" /\ row[e] = "processed"
  /\ \/ /\ o \in Order
        /\ \E k \in 1..nInv[o] :
             /\ FoundInvoice(o, k)
             /\ req' = [req EXCEPT ![r] = [Idle EXCEPT !.pc = "nt_check", !.o = o,
                                                      !.e = e, !.k = k]]
        /\ UNCHANGED delivery
     \/ delivery' = [delivery EXCEPT ![e] = "acked"] /\ UNCHANGED req
  /\ UNCHANGED <<dbVars, stkVars, notified, row, prov>>

\* create fails when another delivery has created the row (source and
\* external_id are unique); update moves any status to processing.
\* Mutant: the event is marked processed when it is received.
MutWebhookUpsert(r) ==
  LET e == req[r].e IN
  /\ At(r, "wh_upsert")
  /\ \/ /\ req[r].st # "none" \/ row[e] = "none"
        /\ row' = [row EXCEPT ![e] = "processed"]
        /\ req' = [req EXCEPT ![r].pc = "wh_find"]
     \/ req[r].st = "none" /\ row[e] # "none" /\ Finish(r) /\ UNCHANGED row
  /\ UNCHANGED <<dbVars, stkVars, notified, extVars>>

WebhookUpsert(r) ==
  LET e == req[r].e IN
  /\ At(r, "wh_upsert")
  /\ \/ /\ req[r].st # "none" \/ row[e] = "none"
        /\ row' = [row EXCEPT ![e] = "processing"]
        /\ req' = [req EXCEPT ![r].pc = "wh_find"]
     \/ req[r].st = "none" /\ row[e] # "none" /\ Finish(r) /\ UNCHANGED row
  /\ UNCHANGED <<dbVars, stkVars, notified, extVars>>

WebhookFind(r) ==
  LET o == req[r].o IN
  /\ At(r, "wh_find") /\ o \in Order
  /\ \E k \in 1..nInv[o] :
       /\ FoundInvoice(o, k)
       /\ linked' = [linked EXCEPT ![o][k] = TRUE]
       /\ req' = [req EXCEPT ![r].k = k,
                             ![r].pc = IF Linked(o) = {} THEN "fb_verify" ELSE "wh_verify"]
  /\ UNCHANGED <<phase, cart, nInv, inv, stkVars, notified, row, extVars>>

\* 'Invoice/order not found for webhook reference'
WebhookNotFound(r) ==
  /\ At(r, "wh_find") /\ (req[r].o \in Order => nInv[req[r].o] = 0)
  /\ row' = [row EXCEPT ![req[r].e] = "failed"]
  /\ Finish(r)
  /\ UNCHANGED <<dbVars, stkVars, notified, extVars>>

\* getTransactionDetail decides, not the payload.  The fallback path acts on
\* PAID only.
\* Mutant: the payload is believed.
MutWebhookVerify(r) ==
  /\ req[r].pc \in {"wh_verify", "fb_verify"}
  /\ req' = [req EXCEPT ![r].st = "PAID", ![r].pc = "pd_read"]
  /\ UNCHANGED <<dbVars, stkVars, notified, row, extVars>>

WebhookVerify(r) ==
  LET s == prov[req[r].o] IN
  /\ req[r].pc \in {"wh_verify", "fb_verify"}
  /\ req' = [req EXCEPT
       ![r].st = IF s \in {"PAID", "CANCELLED", "EXPIRED"} THEN s ELSE "NOT_PAID",
       ![r].pc = IF s = "PAID" THEN "pd_read"
                 ELSE IF s \in {"CANCELLED", "EXPIRED"} /\ At(r, "wh_verify") THEN "wx_lock"
                 ELSE "wh_done"]
  /\ UNCHANGED <<dbVars, stkVars, notified, row, extVars>>

\* markOrderPaidFromPakasir
PaidRead(r) ==
  /\ At(r, "pd_read")
  /\ req' = [req EXCEPT ![r].pc = IF inv[req[r].o][req[r].k] = "PAID"
                                  THEN "nt_check" ELSE "pd_lock"]
  /\ UNCHANGED <<dbVars, stkVars, notified, row, extVars>>

\* The updates of the invoice and of the order, which lock both rows, and
\* then the read of the active reservations.
PaidLock(r) ==
  LET o == req[r].o IN
  /\ At(r, "pd_lock") /\ OrderFree(o) /\ InvoiceFree(o, req[r].k)
  /\ req' = [req EXCEPT ![r].pc = "pd_var", ![r].rs = ActiveOf(o)]
  /\ UNCHANGED <<dbVars, stkVars, notified, row, extVars>>

PaidVariant(r) ==
  /\ At(r, "pd_var")
  /\ req' = [req EXCEPT ![r].pc = "pd_commit", ![r].v = StockReadFor(r)]
  /\ UNCHANGED <<dbVars, stkVars, notified, row, extVars>>

PaidCommit(r) ==
  LET o == req[r].o IN
  /\ At(r, "pd_commit")
  /\ inv' = [inv EXCEPT ![o][req[r].k] = "PAID"]
  /\ phase' = [phase EXCEPT ![o] = "paid"]
  /\ Finalize(r)
  /\ req' = [req EXCEPT ![r].pc = "nt_check", ![r].rs = {}, ![r].v = Idle.v]
  /\ UNCHANGED <<cart, nInv, linked, notified, row, extVars>>

\* The transaction of a verified CANCELLED or EXPIRED.
ClosingLock(r) ==
  LET o == req[r].o IN
  /\ At(r, "wx_lock") /\ InvoiceFree(o, req[r].k)
  /\ req' = [req EXCEPT ![r].pc = "wx_var", ![r].rs = ActiveOf(o)]
  /\ UNCHANGED <<dbVars, stkVars, notified, row, extVars>>

ClosingVariant(r) ==
  /\ At(r, "wx_var")
  /\ req' = [req EXCEPT ![r].pc = "wx_commit", ![r].v = StockReadFor(r)]
  /\ UNCHANGED <<dbVars, stkVars, notified, row, extVars>>

ClosingCommit(r) ==
  LET o == req[r].o IN
  /\ At(r, "wx_commit") /\ OrderFree(o)
  /\ inv' = [inv EXCEPT ![o][req[r].k] = req[r].st]
  /\ phase' = [phase EXCEPT ![o] = IF req[r].st = "EXPIRED" THEN "expired" ELSE "cancelled"]
  /\ Release(r)
  /\ req' = [req EXCEPT ![r].pc = "wh_done", ![r].rs = {}, ![r].v = Idle.v]
  /\ UNCHANGED <<cart, nInv, linked, notified, row, extVars>>

\* sendPakasirPaymentSuccessNotification looks for the invoice's message,
\* builds the text, and MessageService.sendMessage looks again and creates it.
\* Mutant: the message is not looked for.
MutNotifyLook(r) ==
  /\ req[r].pc \in {"nt_check", "nt_recheck"}
  /\ req' = [req EXCEPT ![r].pc = "nt_create"]
  /\ UNCHANGED <<dbVars, stkVars, notified, row, extVars>>

NotifyLook(r) ==
  LET sent == notified[req[r].o][req[r].k] > 0 IN
  /\ req[r].pc \in {"nt_check", "nt_recheck"}
  /\ req' = [req EXCEPT ![r].pc = IF sent \/ req[r].o \in Chatless THEN "wh_done"
                                  ELSE IF At(r, "nt_check") THEN "nt_recheck"
                                  ELSE "nt_create"]
  /\ UNCHANGED <<dbVars, stkVars, notified, row, extVars>>

NotifyCreate(r) ==
  /\ At(r, "nt_create")
  /\ notified' = [notified EXCEPT ![req[r].o][req[r].k] = @ + 1]
  /\ req' = [req EXCEPT ![r].pc = "wh_done"]
  /\ UNCHANGED <<dbVars, stkVars, row, extVars>>

\* A failure on the way is swallowed (fail-open).
NotifyFailed(r) ==
  /\ req[r].pc \in {"nt_check", "nt_recheck", "nt_create"}
  /\ req' = [req EXCEPT ![r].pc = "wh_done"]
  /\ UNCHANGED <<dbVars, stkVars, notified, row, extVars>>

WebhookDone(r) ==
  /\ At(r, "wh_done")
  /\ row' = [row EXCEPT ![req[r].e] = "processed"]
  /\ delivery' = [delivery EXCEPT ![req[r].e] = "acked"]
  /\ Finish(r)
  /\ UNCHANGED <<dbVars, stkVars, notified, prov>>

\* Any request may end before its next step: the process stops, a call fails,
\* or PostgreSQL aborts the transaction (a deadlock, say).  What was committed
\* stays, a webhook is answered with 400 or not at all.
Fail(r) ==
  /\ ~At(r, "idle")
  /\ Finish(r)
  /\ UNCHANGED <<dbVars, stkVars, notified, row, extVars>>

-----------------------------------------------------------------------------
(* The provider (external): the customer pays or lets the transaction       *)
(* expire; each change, and the current status at any time, is notified.    *)

Notify(o) ==
  \E e \in Event :
    /\ EventOf[e] = o
    /\ FreshIds => delivery[e] = "none"
    /\ delivery' = [delivery EXCEPT ![e] = "due"]

ProviderSettles(o) ==
  /\ prov[o] = "pending"
  /\ \E s \in {"PAID", "EXPIRED"} : prov' = [prov EXCEPT ![o] = s]
  /\ Notify(o)
  /\ UNCHANGED <<dbVars, stkVars, notified, row, req>>

ProviderNotifies(o) ==
  /\ prov[o] # "none"
  /\ Notify(o)
  /\ UNCHANGED <<dbVars, stkVars, notified, row, prov, req>>

\* A notification about a transaction this database does not know.
StrayNotifies(e) ==
  /\ EventOf[e] = NoOrder
  /\ delivery' = [delivery EXCEPT ![e] = "due"]
  /\ UNCHANGED <<dbVars, stkVars, notified, row, prov, req>>

Step(r) ==
  \/ AddToCartCommit(r)
  \/ CheckoutReservations(r) \/ CheckoutVariant(r) \/ CheckoutRejected(r)
  \/ \E i \in Rid : CheckoutCommit(r, i)
  \/ LinkInvoices(r) \/ CreateTransaction(r) \/ SendPaymentLinkCommit(r)
  \/ CancelInvoices(r) \/ CancelTransaction(r) \/ CancelReservations(r)
  \/ CancelVariant(r) \/ CancelCommit(r)
  \/ \E d \in Deltas : AdjustCommit(r, d)
  \/ WebhookUpsert(r) \/ WebhookFind(r) \/ WebhookNotFound(r) \/ WebhookVerify(r)
  \/ PaidRead(r) \/ PaidLock(r) \/ PaidVariant(r) \/ PaidCommit(r)
  \/ ClosingLock(r) \/ ClosingVariant(r) \/ ClosingCommit(r)
  \/ NotifyLook(r) \/ NotifyCreate(r) \/ NotifyFailed(r) \/ WebhookDone(r)

Start(r) ==
  \/ \E o \in Order : CreateOrder(r, o) \/ AddToCart(r, o) \/ Checkout(r, o)
                        \/ SendPaymentLink(r, o) \/ CancelOrder(r, o)
  \/ AdjustStock(r)
  \/ \E e \in Event : Webhook(r, e) \/ WebhookIdempotent(r, e)

Next ==
  \/ \E r \in Req : Start(r) \/ Step(r) \/ Fail(r)
  \/ \E o \in Order : ProviderSettles(o) \/ ProviderNotifies(o)
  \/ \E e \in Event : StrayNotifies(e)

Spec == Init /\ [][Next]_vars

-----------------------------------------------------------------------------
(* Fairness: a request that has begun is run on, and a notification the     *)
(* provider has not seen answered with 200 is delivered again.              *)

Redeliver(e) == delivery[e] = "due" /\ \E r \in Req : Webhook(r, e) \/ WebhookIdempotent(r, e)

Fairness == /\ \A r \in Req : SF_vars(Step(r))
            /\ \A e \in Event : SF_vars(Redeliver(e))

FairSpec == Spec /\ Fairness

-----------------------------------------------------------------------------
(* Types: which values the rows and the requests' locals may hold. *)
TypeOK ==
  /\ phase \in [Order -> Phase]
  /\ cart \in [Order -> 0..MaxQty]
  /\ nInv \in [Order -> 0..MaxInv]
  /\ inv \in [Order -> [InvNo -> InvStatus]]
  /\ linked \in [Order -> [InvNo -> BOOLEAN]]
  /\ onHand \in Nat /\ reserved \in Nat
  /\ resStatus \in [Rid -> ResStatus]
  /\ resOrder \in [Rid -> Order \union {NoOrder}]
  /\ resQty \in [Rid -> 0..MaxQty]
  /\ deducts \in [Rid -> Nat]
  /\ notified \in [Order -> [InvNo -> Nat]]
  /\ row \in [Event -> RowStatus]
  /\ prov \in [Order -> ProvStatus]
  /\ delivery \in [Event -> {"none", "due", "acked"}]
  /\ req \in [Req -> Request]

-----------------------------------------------------------------------------
(* Safety whatever the requests do to each other. *)

\* A paid order holds no stock: whatever a checkout, a cancellation or another
\* webhook does while markOrderPaidFromPakasir runs, none of its reservations
\* is left active (it would stay so for ever, no sweep releases it).
PaidHoldsNoReservation ==
  \A o \in Order : phase[o] = "paid" => ActiveOf(o) = {}

\* A paid order has a paid invoice: no stale sendPaymentLink, cancelOrder or
\* expiry overwrites the invoice and leaves the order paid.
PaidBacked ==
  \A o \in Order : phase[o] = "paid" => \E k \in 1..nInv[o] : inv[o][k] = "PAID"

\* Deliveries repeated, concurrent or retried after a crash take the stock of
\* a reservation once.
DeductedOnce == \A i \in Rid : deducts[i] <= 1

\* An invoice is PAID only if the provider says the order was paid, whatever
\* the payloads of the webhooks said and however old they are.
PaidWasVerified ==
  \A o \in Order, k \in InvNo : inv[o][k] = "PAID" => prov[o] = "PAID"

\* A reservation that was released or finalized never becomes active again,
\* and one that is active keeps its order and quantity.
ReservationsMoveOn ==
  [][\A i \in Rid :
       /\ resStatus[i] \in {"released", "finalized"} => resStatus'[i] # "active"
       /\ resStatus[i] # "none" => resOrder'[i] = resOrder[i] /\ resQty'[i] = resQty[i]]_vars

-----------------------------------------------------------------------------
(* Safety when requests do not overlap. *)

AllActive == {i \in Rid : resStatus[i] = "active"}

\* stock_reserved is the sum of the active reservations.
ReservedMatchesActive == reserved = Total(AllActive)

\* No more is promised to orders than there is ('Insufficient stock for
\* variant', service.ts:1470).
NoOversell == Total(AllActive) <= onHand

\* The customer gets one payment_success message per invoice.
NotifiedOnce == \A o \in Order, k \in InvNo : notified[o][k] <= 1

-----------------------------------------------------------------------------
(* Liveness: if requests fail only finitely often, a payment the provider   *)
(* has taken is recorded on an invoice of the order.                        *)
PaymentRecorded ==
  <>[][~\E r \in Req : Fail(r)]_vars =>
    \A o \in Order : <>(prov[o] = "PAID") => <>(\E k \in InvNo : inv[o][k] = "PAID")
-----------------------------------------------------------------------------
(* Refinement. *)

\* With requests one after the other the variant's row and its reservations
\* implement the ledger.
Ledger == INSTANCE StockLedger WITH stock <- onHand,
                                    hold <- [o \in Order |-> Total(ActiveOf(o))]
LedgerRefinement == Ledger!Spec

\* However they interleave, orders and reservations implement the settlement.
Settlement == INSTANCE OrderSettlement WITH held <- [o \in Order |-> ActiveOf(o)],
                                            spent <- {i \in Rid : deducts[i] > 0}
SettlementRefinement == Settlement!Spec
=============================================================================
