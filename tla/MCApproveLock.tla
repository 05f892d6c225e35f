--------------------------- MODULE MCApproveLock ---------------------------
(* Small instances of ApproveLock for TLC.                                 *)
EXTENDS ApproveLock, TLC

CONSTANTS c1, c2, c3

ThreeCalls == {c1, c2, c3}
AllClasses == c1 :> CrossChainE20Lock @@ c2 :> CrossChainEosLockWan
                @@ c3 :> CrossChainEosLockEos
Amounts == c1 :> 1 @@ c2 :> 2 @@ c3 :> 1
Twice == c1 :> 2 @@ c2 :> 1 @@ c3 :> 1
OneCall == {c1}
OneE20 == [c \in OneCall |-> CrossChainE20Lock]
Once == [c \in OneCall |-> 1]
=============================================================================
