------------------------------ MODULE TxReport ------------------------------
(***************************************************************************)
(* What the records of transactions that stay on one chain promise to the  *)
(* wallet that shows them: each only tells what has become of its          *)
(* transaction, and what it tells moves on with it.  A failure is told for *)
(* good, and a transaction of which one is told is never taken afterwards, *)
(* unless an answer of the node was lost.  A success may be forgotten by a *)
(* restart, and is then found out once more.                               *)
(***************************************************************************)
CONSTANT Txs

VARIABLES fate,  \* what has become of a transaction
          told,  \* what its record tells
          doubt  \* those of which an answer was lost

reportVars == <<fate, told, doubt>>

Fates == {"unsent", "pool", "mined", "reverted"}
Tales == {"nothing", "sent", "succeeded", "failed"}

TypeOK ==
  /\ fate \in [Txs -> Fates]
  /\ told \in [Txs -> Tales]
  /\ doubt \subseteq Txs

Init ==
  /\ fate = [t \in Txs |-> "unsent"]
  /\ told = [t \in Txs |-> "nothing"]
  /\ doubt = {}

(* What may be told of a transaction.                                      *)
TrueOf(t) ==
  {"nothing"} \cup (IF fate[t] # "unsent" THEN {"sent"} ELSE {})
    \cup (IF fate[t] = "mined" THEN {"succeeded"} ELSE {})
    \cup (IF fate[t] \in {"unsent", "reverted"} \/ t \in doubt THEN {"failed"} ELSE {})

After(tale) ==
  CASE tale = "nothing" -> {"nothing", "sent", "failed"}
    [] tale = "sent" -> {"sent", "succeeded", "failed"}
    [] tale = "succeeded" -> {"succeeded", "sent"}
    [] tale = "failed" -> {"failed"}

Fares(t) ==
  \/ fate'[t] = fate[t]
  \/ /\ fate[t] = "unsent" /\ fate'[t] = "pool"
     /\ told[t] # "failed" \/ t \in doubt
  \/ fate[t] = "pool" /\ fate'[t] \in {"mined", "reverted"}

Tells(t) == told'[t] \in After(told[t]) \cap TrueOf(t)'

(* A restart reads all records again, so that many may move at once.       *)
Next ==
  /\ doubt \subseteq doubt' /\ doubt' \subseteq Txs
  /\ fate' \in [Txs -> Fates] /\ told' \in [Txs -> Tales]
  /\ \A t \in Txs : Fares(t) /\ Tells(t)

Spec == Init /\ [][Next]_reportVars
=============================================================================
