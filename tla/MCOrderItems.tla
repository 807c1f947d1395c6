---------------------------- MODULE MCOrderItems ----------------------------
(* OrderItems on small instances: orders and sales items are interchangeable. *)
EXTENDS OrderItems, TLC

Symmetry == Permutations(Orders) \cup Permutations(SalesItems)
=============================================================================
