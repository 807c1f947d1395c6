----------------------------- MODULE MCCheckout -----------------------------
(* Checkout on small instances: the users, the sales items and the orders are *)
(* interchangeable, so the safety runs use their permutations as a symmetry.  *)
EXTENDS Checkout, TLC

Symmetry ==
    Permutations(Users) \cup Permutations(SalesItems) \cup Permutations(Orders)

\* The time an order lives is long against a transaction: none is placed and
\* overdue within one deleteUnpaidOrders.
NoOrderPlacedWhileCleaning ==
    cleaning => \A o \in Orders : status[o] = "absent" => status'[o] = "absent"
=============================================================================
