--------------------------- MODULE OrderSettlement ---------------------------
(***************************************************************************)
(* What an order promises however its requests interleave: it collects and *)
(* drops reservations, and the step that makes it paid spends, at once,    *)
(* every reservation it holds.  A reservation is spent at most once and    *)
(* never held again.                                                       *)
(***************************************************************************)
CONSTANTS Order, Rid

VARIABLES phase,   \* the journey phase of each order
          held,    \* the reservations each order holds
          spent    \* the reservations whose stock has been taken

vars == <<phase, held, spent>>

Init == /\ phase = [o \in Order |-> "none"]
        /\ held = [o \in Order |-> {}]
        /\ spent = {}

\* addToCart, sendPaymentLink: the order awaits checkout or payment.
Await(o) == /\ \E p \in {"cart", "payment_pending"} : phase' = [phase EXCEPT ![o] = p]
            /\ UNCHANGED <<held, spent>>

\* checkoutOrder: some holds are dropped, a new reservation is held.
Reserve(o) ==
  /\ \E drop \in SUBSET held[o], i \in Rid \ spent :
       /\ \A p \in Order : i \notin held[p]
       /\ held' = [held EXCEPT ![o] = (@ \ drop) \union {i}]
  /\ phase' = [phase EXCEPT ![o] = "checkout"]
  /\ UNCHANGED spent

\* cancelOrder, a provider's cancellation or expiry.
Close(o) ==
  /\ \E drop \in SUBSET held[o] : held' = [held EXCEPT ![o] = @ \ drop]
  /\ \E p \in {"cancelled", "expired"} : phase' = [phase EXCEPT ![o] = p]
  /\ UNCHANGED spent

\* markOrderPaidFromPakasir.
Settle(o) ==
  /\ phase' = [phase EXCEPT ![o] = "paid"]
  /\ spent' = spent \union held[o]
  /\ held' = [held EXCEPT ![o] = {}]

Next == \E o \in Order : Await(o) \/ Reserve(o) \/ Close(o) \/ Settle(o)

Spec == Init /\ [][Next]_vars
=============================================================================
