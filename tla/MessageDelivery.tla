--------------------------- MODULE MessageDelivery ---------------------------
(***************************************************************************)
(* What a service may rely on when others send it messages, with no topics, *)
(* offsets, lists or consumers in it: a message is accepted, it is handled, *)
(* and it is dismissed, after which it is not delivered again.  One that is *)
(* delivered at most once is dismissed before it is handled.  One that is   *)
(* delivered at least once is dismissed after it was handled; but one that  *)
(* failed may be lost, when no other can be accepted in its place, and      *)
(* messages may be skipped before the first was dismissed or when some have *)
(* expired.  None of this is undone.                                        *)
(***************************************************************************)
CONSTANT Messages

VARIABLES guarantee,   \* what the means of transport promises
          accepted,    \* messages it has got
          expired,     \* messages it has deleted because of their age
          dismissed,   \* messages it does not deliver any more
          handled,     \* messages that succeeded or were sent again as another
          lost,        \* messages that failed and could not be sent again
          skipped      \* messages that nobody waits for any more

vars == <<guarantee, accepted, expired, dismissed, handled, lost, skipped>>

Init == /\ guarantee \in {"atLeastOnceUntilExpiry", "atMostOnce"}
        /\ accepted = {} /\ expired = {} /\ dismissed = {}
        /\ handled = {} /\ lost = {} /\ skipped = {}

Accept(m) ==
    /\ accepted' = accepted \cup {m}
    /\ UNCHANGED <<guarantee, expired, dismissed, handled, lost, skipped>>

Expire(M) ==
    /\ guarantee = "atLeastOnceUntilExpiry"
    /\ expired' = expired \cup M
    /\ UNCHANGED <<guarantee, accepted, dismissed, handled, lost, skipped>>

\* A message that failed is handled, too, when another is accepted in its place.
Handle(m, copies) ==
    /\ guarantee = "atMostOnce" => m \in dismissed
    /\ handled' = handled \cup {m}
    /\ accepted' = accepted \cup copies
    /\ UNCHANGED <<guarantee, expired, dismissed, lost, skipped>>

Lose(m) ==
    /\ guarantee = "atMostOnce" => m \in dismissed
    /\ lost' = lost \cup {m}
    /\ UNCHANGED <<guarantee, accepted, expired, dismissed, handled, skipped>>

Skip(M) ==
    /\ guarantee = "atLeastOnceUntilExpiry"
    /\ dismissed = {} \/ expired # {}
    /\ skipped' = skipped \cup M
    /\ UNCHANGED <<guarantee, accepted, expired, dismissed, handled, lost>>

Dismiss(M) ==
    /\ CASE guarantee = "atLeastOnceUntilExpiry" -> M \subseteq handled \cup lost \cup skipped
         [] guarantee = "atMostOnce" -> \E m \in Messages \ handled : M = {m}
    /\ dismissed' = dismissed \cup M
    /\ UNCHANGED <<guarantee, accepted, expired, handled, lost, skipped>>

Next ==
    \/ \E m \in Messages \ accepted : Accept(m)
    \/ \E M \in SUBSET accepted : Expire(M) \/ Skip(M)
    \/ \E M \in SUBSET (accepted \ dismissed) : Dismiss(M)
    \/ \E m \in accepted, copies \in {{}} \cup {{c} : c \in Messages \ accepted} : Handle(m, copies)
    \/ \E m \in accepted : Lose(m)

Spec == Init /\ [][Next]_vars
=============================================================================
