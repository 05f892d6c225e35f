--------------------------- MODULE MCNonceManager ---------------------------
(* Small instances of NonceManager for TLC.                                *)
EXTENDS NonceManager, TLC

CONSTANTS c1, c2, c3, eth

ThreeCalls == {c1, c2, c3}
OneAccount == {eth}
AllEth == [c \in Calls |-> eth]
LockAndRedeems ==
  (c1 :> LockTxE20) @@ (c2 :> RedeemTxBtc) @@ (c3 :> RedeemTxEth)
AllCalls == Calls
One == {1}
=============================================================================
