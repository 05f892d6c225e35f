----------------------------- MODULE MCOtaScan -----------------------------
(* Small instances of OtaScan for TLC.                                     *)
EXTENDS OtaScan, TLC

CONSTANTS k1, k2, other, o1, o2, o3

OneAccount == {k1}
TwoAccounts == {k1, k2}
TwoOtas == {o1, o2}
ThreeOtas == {o1, o2, o3}

(* One OTA near the start, one deep in the chain, one of somebody else.    *)
At == o1 :> 1 @@ o2 :> 3 @@ o3 :> 2
Of == o1 :> k1 @@ o2 :> k1 @@ o3 :> other
AtTwo == o1 :> 1 @@ o2 :> 2
OfTwo == o1 :> k1 @@ o2 :> k2
OfThree == o1 :> k1 @@ o2 :> k1 @@ o3 :> k2
=============================================================================
