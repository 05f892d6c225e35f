-------------------------- MODULE NonceDeskProofs ---------------------------
(***************************************************************************)
(* What NonceDesk promises, proved once for everything that implements it. *)
(***************************************************************************)
EXTENDS NonceDesk, TLAPS

FreeBelow == \A a \in Accounts : \A n \in free[a] : n <= top[a]

DeskInv == TypeOK /\ Exclusive /\ FreeBelow

LEMMA DeskInit == Init => DeskInv
BY DEF Init, DeskInv, TypeOK, Exclusive, FreeBelow, None

LEMMA DeskStep ==
  ASSUME Account \in [Holders -> Accounts], DeskInv, [Next]_deskVars
  PROVE  DeskInv'
<1> USE DEF DeskInv, TypeOK, Exclusive, FreeBelow, None, Give, TakeBack
<1>1. ASSUME NEW c \in Holders, NEW a \in Accounts, a = Account[c], Serve(c, a)
      PROVE  DeskInv'
  <2>1. CASE Refill(c, a)
    <3>1. PICK n \in free[a] : Give(c, n) /\ free' = [free EXCEPT ![a] = @ \ {n}]
      BY <2>1 DEF Refill
    <3>2. UNCHANGED <<top, node>>
      BY <2>1 DEF Refill
    <3>3. TypeOK' /\ FreeBelow'
      BY <1>1, <3>1, <3>2
    <3> QED
      BY <1>1, <3>1, <3>2, <3>3
  <2>2. CASE Issue(c, a)
    BY <1>1, <2>2 DEF Issue
  <2>3. CASE CatchUp(c, a)
    <3>1. PICK n \in Nat : /\ n > top[a] /\ Give(c, n)
                           /\ top' = [top EXCEPT ![a] = n]
                           /\ free' = [free EXCEPT ![a] = {}] /\ UNCHANGED node
      BY <2>3 DEF CatchUp
    <3> QED
      BY <1>1, <3>1
  <2>4. CASE Return(c, a)
    BY <1>1, <2>4 DEF Return
  <2>5. CASE Lose(c) \/ Spend(c, a)
    BY <1>1, <2>5 DEF Lose, Spend
  <2> QED
    BY <1>1, <2>1, <2>2, <2>3, <2>4, <2>5 DEF Serve
<1>2. ASSUME NEW a \in Accounts, Arrive(a) PROVE DeskInv'
  BY <1>2 DEF Arrive
<1>3. CASE Close \/ UNCHANGED deskVars
  BY <1>3 DEF Close, deskVars
<1> QED
  BY <1>1, <1>2, <1>3 DEF Next

(* A nonce the desk has handed out has one holder and is not handed out    *)
(* again before that holder brings it back.                                *)
THEOREM DeskIsExclusive ==
  Account \in [Holders -> Accounts] /\ Spec => []Exclusive
<1>1. SUFFICES ASSUME Account \in [Holders -> Accounts] PROVE Spec => []Exclusive
  OBVIOUS
<1>2. DeskInv /\ [Next]_deskVars => DeskInv'
  BY <1>1, DeskStep
<1>3. DeskInv => Exclusive
  BY DEF DeskInv
<1> QED
  BY <1>2, <1>3, DeskInit, PTL DEF Spec

LEMMA MissingStep ==
  ASSUME Account \in [Holders -> Accounts], Careless = {}, DeskInv, NothingMissing,
         [Next]_deskVars
  PROVE  NothingMissing'
<1> USE DEF DeskInv, TypeOK, Exclusive, None, Give, TakeBack
<1> DEFINE Kept(a, n) == \/ n \in node[a] \cup free[a]
                         \/ \E c \in Holders : Account[c] = a /\ lease[c] = n
<1>1. SUFFICES ASSUME NEW b \in Accounts, NEW m \in 0 .. top'[b] PROVE Kept(b, m)'
  BY DEF NothingMissing
<1>2. m \in 0 .. top[b] => Kept(b, m)
  BY DEF NothingMissing
<1>3. ASSUME NEW c \in Holders, NEW a \in Accounts, a = Account[c], Serve(c, a)
      PROVE  Kept(b, m)'
  <2>1. CASE Refill(c, a)
    BY <1>1, <1>2, <1>3, <2>1 DEF Refill
  <2>2. CASE Issue(c, a)
    <3>1. UNCHANGED <<free, node>> /\ \A d \in Holders \ {c} : lease'[d] = lease[d]
      BY <2>2 DEF Issue
    <3>2. lease[c] = None /\ lease'[c] = top[a] + 1
      BY <2>2 DEF Issue
    <3>3. top' = [top EXCEPT ![a] = @ + 1]
      BY <2>2 DEF Issue
    <3>4. m \in 0 .. top[b] \/ (b = a /\ m = top[a] + 1)
      BY <1>1, <3>3
    <3> QED
      BY <1>1, <1>2, <1>3, <3>1, <3>2, <3>4
  <2>3. CASE CatchUp(c, a)
    <3>1. PICK n \in Nat : /\ n > top[a] /\ 0 .. n - 1 \subseteq node[a] /\ Give(c, n)
                           /\ top' = [top EXCEPT ![a] = n]
                           /\ free' = [free EXCEPT ![a] = {}] /\ UNCHANGED node
      BY <2>3 DEF CatchUp
    <3>2. CASE b = a
      <4>1. top'[b] = n /\ (m = n \/ m \in 0 .. n - 1)
        BY <1>1, <3>1, <3>2
      <4>2. lease'[c] = n
        BY <3>1
      <4> QED
        BY <1>3, <3>1, <3>2, <4>1, <4>2
    <3>3. CASE b # a
      BY <1>1, <1>2, <1>3, <3>1, <3>3
    <3> QED
      BY <3>2, <3>3
  <2>4. CASE Return(c, a)
    BY <1>1, <1>2, <1>3, <2>4 DEF Return
  <2>5. CASE Lose(c)
    BY <2>5 DEF Lose
  <2>6. CASE Spend(c, a)
    BY <1>1, <1>2, <1>3, <2>6 DEF Spend
  <2> QED
    BY <1>3, <2>1, <2>2, <2>3, <2>4, <2>5, <2>6 DEF Serve
<1>4. ASSUME NEW a \in Accounts, Arrive(a) PROVE Kept(b, m)'
  BY <1>1, <1>2, <1>4 DEF Arrive
<1>5. CASE Close \/ UNCHANGED deskVars
  BY <1>1, <1>2, <1>5 DEF Close, deskVars
<1> QED
  BY <1>3, <1>4, <1>5 DEF Next

(* With careful holders no nonce below the highest is forgotten, so that   *)
(* no transaction waits at the node for one that nobody will send.         *)
THEOREM DeskForgetsNothing ==
  Account \in [Holders -> Accounts] /\ Careless = {} /\ Spec => []NothingMissing
<1>1. SUFFICES ASSUME Account \in [Holders -> Accounts], Careless = {}
               PROVE Spec => []NothingMissing
  OBVIOUS
<1>2. Init => NothingMissing
  BY DEF Init, NothingMissing, None
<1>3. NothingMissing /\ DeskInv /\ [Next]_deskVars => (NothingMissing /\ DeskInv)'
  BY <1>1, MissingStep, DeskStep
<1> QED
  BY <1>2, <1>3, DeskInit, PTL DEF Spec
=============================================================================
