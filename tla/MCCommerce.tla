---------------------------- MODULE MCCommerce ----------------------------
(* Instances of Commerce for TLC. *)
EXTENDS Commerce, TLC

\* One order: every notification is about it.
OneOrder == [e \in Event |-> CHOOSE o \in Order : TRUE]

\* One order is paid for, one notification is about no order.
OneAndStray ==
  CHOOSE f \in [Event -> Order \union {NoOrder}] :
    (\E e \in Event : f[e] \in Order) /\ (\E e \in Event : f[e] = NoOrder)

AllOps    == {"add_to_cart", "checkout", "send_payment_link", "cancel", "adjust"}
OrderOps  == AllOps \ {"adjust"}
PayOps    == {"add_to_cart", "checkout", "send_payment_link"}
CartOps   == {"add_to_cart", "checkout"}
NoCancel  == AllOps \ {"cancel"}
NoDelta   == {}
BothWays  == {-1, 1}

ReqSymmetry == Permutations(Rid) \union Permutations(Req)
RidSymmetry == Permutations(Rid)
=============================================================================
