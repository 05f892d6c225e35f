----------------------------- MODULE MCNormalTx -----------------------------
(* Small instances of NormalTx for TLC.                                    *)
EXTENDS NormalTx, TLC

CONSTANTS r1, r2, o1

TwoRefunds == {r1, r2}
RefundKinds == [c \in TwoRefunds |-> PrivateChainWanRefund]
OneOta == {o1}
SameOta == [c \in Calls |-> o1]
=============================================================================
