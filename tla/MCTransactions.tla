--------------------------- MODULE MCTransactions ---------------------------
(* Transactions with a request that may be a multiple call.                *)
EXTENDS Transactions
=============================================================================
