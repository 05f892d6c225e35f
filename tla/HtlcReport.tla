----------------------------- MODULE HtlcReport -----------------------------
(***************************************************************************)
(* What the record of a cross-chain trade promises to the wallet that      *)
(* shows it: whatever errors, late answers and restarts do to the record,  *)
(* it only tells what has happened on the two chains, where an atomic swap *)
(* unfolds in the order of the contracts.                                  *)
(***************************************************************************)
Facts == {"locked", "answered", "redeemed", "claimed", "revoked"}

VARIABLES facts,  \* what has happened on the chains
          told    \* what the record's status says has happened, or "nothing"

Init == facts = {} /\ told = "nothing"

(* What has to be true before a fact, and what must not.                   *)
May(f) ==
  CASE f = "locked" -> TRUE
    [] f = "answered" -> "locked" \in facts
    [] f = "redeemed" -> "answered" \in facts
    [] f = "claimed" -> "redeemed" \in facts /\ "revoked" \notin facts
    [] f = "revoked" -> "locked" \in facts /\ "claimed" \notin facts

Happen ==
  /\ \E f \in Facts \ facts : May(f) /\ facts' = facts \cup {f}
  /\ UNCHANGED told

Tell == told' \in facts \cup {"nothing"} /\ UNCHANGED facts

Next == Happen \/ Tell

Spec == Init /\ [][Next]_<<facts, told>>
=============================================================================
