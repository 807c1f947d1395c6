------------------------------ MODULE OrderBook ------------------------------
(***************************************************************************)
(* What the order service promises its customers, with no shopping carts,  *)
(* reservations, locks or jobs in it: an order is placed for a set of      *)
(* sales items that no other current order holds, it may be settled, and   *)
(* it ends exactly once, giving its items back.  Clearing out of open      *)
(* orders in bulk is possible; clearing out of a settled one is not.       *)
(***************************************************************************)
EXTENDS FiniteSets

CONSTANTS Items,    \* what can be ordered
          Orders    \* order identities

VARIABLES phase,    \* phase[o]: how far order o has got
          entries   \* entries[o]: the items order o holds

vars == <<phase, entries>>

Phases == {"fresh", "open", "settled", "closed"}
Current == {o \in Orders : phase[o] \in {"open", "settled"}}

Init == /\ phase = [o \in Orders |-> "fresh"]
        /\ entries = [o \in Orders |-> {}]

\* Items held by some current order.
Held == UNION {entries[o] : o \in Current}

Place(o, I) ==
    /\ phase[o] = "fresh"
    /\ I # {}
    /\ I \cap Held = {}
    /\ phase' = [phase EXCEPT ![o] = "open"]
    /\ entries' = [entries EXCEPT ![o] = I]

Settle(o) ==
    /\ phase[o] = "open"
    /\ phase' = [phase EXCEPT ![o] = "settled"]
    /\ UNCHANGED entries

\* The customer or the payment gateway ends one order.
Cancel(o) ==
    /\ o \in Current
    /\ phase' = [phase EXCEPT ![o] = "closed"]
    /\ entries' = [entries EXCEPT ![o] = {}]

\* Housekeeping ends any number of orders that were never settled.
ClearOut(O) ==
    /\ O # {}
    /\ \A o \in O : phase[o] = "open"
    /\ phase' = [o \in Orders |-> IF o \in O THEN "closed" ELSE phase[o]]
    /\ entries' = [o \in Orders |-> IF o \in O THEN {} ELSE entries[o]]

Next ==
    \/ \E o \in Orders, I \in SUBSET Items : Place(o, I)
    \/ \E o \in Orders : Settle(o) \/ Cancel(o)
    \/ \E O \in SUBSET Orders : ClearOut(O)

Spec == Init /\ [][Next]_vars
=============================================================================
