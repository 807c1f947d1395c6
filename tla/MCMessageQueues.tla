--------------------------- MODULE MCMessageQueues ---------------------------
(* Up to two messages and a copy of each; the consumers are interchangeable. *)
EXTENDS MessageQueues, TLC

Symmetry == Permutations(Consumers)
=============================================================================
