------------------------------- MODULE MCBtcTx -------------------------------
(* Small instances of BtcTx for TLC.                                       *)
EXTENDS BtcTx, TLC

CONSTANTS l, n, d1, v1, c1, c2

OneRedeem == {d1}
OneRevoke == {v1}
TwoChecks == {c1, c2}
=============================================================================
