----------------------------- MODULE StockLedger -----------------------------
(***************************************************************************)
(* What the shop promises about one product variant, without requests,     *)
(* invoices or a reserved column: an order holds a number of units, holds  *)
(* never exceed the stock, a paid order takes its units out of the stock.  *)
(***************************************************************************)
EXTENDS Integers, FiniteSets

CONSTANT Order

VARIABLES stock,   \* units on the shelf
          hold     \* units each order holds

\* The units held, one by one; no order holds more than there are.
Held == Cardinality({u \in Order \X (1..stock) : u[2] <= hold[u[1]]})

Init == stock \in Nat /\ hold = [o \in Order |-> 0]

\* A checkout replaces what the order holds, within what the others leave.
Hold(o) == /\ \E n \in 1..(stock - Held + hold[o]) : hold' = [hold EXCEPT ![o] = n]
           /\ UNCHANGED stock

\* A cancellation or an expiry gives everything back.
Free(o) == hold' = [hold EXCEPT ![o] = 0] /\ UNCHANGED stock

\* A payment takes the held units.
Ship(o) == stock' = stock - hold[o] /\ hold' = [hold EXCEPT ![o] = 0]

\* A manual adjustment never goes below what is held.
Adjust == stock' \in Nat /\ stock' >= Held /\ UNCHANGED hold

Next == Adjust \/ \E o \in Order : Hold(o) \/ Free(o) \/ Ship(o)

Spec == Init /\ [][Next]_<<stock, hold>>
=============================================================================
