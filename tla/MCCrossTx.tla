----------------------------- MODULE MCCrossTx ------------------------------
(* Small instances of CrossTx for TLC.                                     *)
EXTENDS CrossTx, TLC

CONSTANTS l, d1, d2, v1, c1, c2

OneRedeem == {d1}
TwoRedeems == {d1, d2}
OneRevoke == {v1}
None == {}
TwoChecks == {c1, c2}
OneCheck == {c1}

Symmetry == Permutations(Checks) \cup Permutations(RedeemCalls)
=============================================================================
