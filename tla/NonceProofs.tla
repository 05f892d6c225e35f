---------------------------- MODULE NonceProofs -----------------------------
(***************************************************************************)
(* Proofs about NonceManager: type correctness and the mutex for every     *)
(* set of calls; and, when no user brings a nonce of his own, that no      *)
(* nonce is in two places, none is forgotten, and only strays are reused.  *)
(***************************************************************************)
EXTENDS NonceManager, TLAPS

-----------------------------------------------------------------------------
(* Sequences of holes.                                                     *)

Elems(s) == {s[i] : i \in 1 .. Len(s)}
Injective(s) == \A i, j \in 1 .. Len(s) : s[i] = s[j] => i = j

LEMMA EmptyElems == <<>> \in Seq(Nat) /\ Elems(<<>>) = {} /\ Injective(<<>>)
BY DEF Elems, Injective

LEMMA AppendElems ==
  ASSUME NEW s \in Seq(Nat), NEW n \in Nat
  PROVE /\ Append(s, n) \in Seq(Nat)
        /\ Elems(Append(s, n)) = Elems(s) \cup {n}
        /\ n \notin Elems(s) /\ Injective(s) => Injective(Append(s, n))
<1> DEFINE t == Append(s, n)
<1>1. Append(s, n) \in Seq(Nat) /\ Len(t) = Len(s) + 1 /\ Len(s) \in Nat
  OBVIOUS
<1>2. \A i \in 1 .. Len(s) : t[i] = s[i]
  OBVIOUS
<1>3. t[Len(s) + 1] = n
  OBVIOUS
<1> HIDE DEF t
<1>4. 1 .. Len(t) = (1 .. Len(s)) \cup {Len(s) + 1}
  BY <1>1
<1>5. Elems(t) = Elems(s) \cup {n}
  BY <1>1, <1>2, <1>3, <1>4 DEF Elems
<1>6. n \notin Elems(s) /\ Injective(s) => Injective(t)
  <2>1. ASSUME n \notin Elems(s), Injective(s), NEW i \in 1 .. Len(t),
               NEW j \in 1 .. Len(t), t[i] = t[j]
        PROVE i = j
    <3>1. \A k \in 1 .. Len(s) : t[k] \in Elems(s)
      BY <1>2 DEF Elems
    <3>2. CASE i = Len(s) + 1 \/ j = Len(s) + 1
      BY <1>3, <1>4, <2>1, <3>1, <3>2
    <3>3. CASE i # Len(s) + 1 /\ j # Len(s) + 1
      <4>1. i \in 1 .. Len(s) /\ j \in 1 .. Len(s)
        BY <1>4, <2>1, <3>3
      <4>2. s[i] = s[j]
        BY <1>2, <2>1, <4>1
      <4> QED
        BY <2>1, <4>1, <4>2 DEF Injective
    <3> QED
      BY <3>2, <3>3
  <2> QED
    BY <2>1 DEF Injective
<1> QED
  BY <1>1, <1>5, <1>6 DEF t

LEMMA TailElems ==
  ASSUME NEW s \in Seq(Nat), s # <<>>
  PROVE /\ Tail(s) \in Seq(Nat) /\ Head(s) \in Elems(s) /\ Head(s) \in Nat
        /\ Elems(s) = Elems(Tail(s)) \cup {Head(s)}
        /\ Injective(s) => Injective(Tail(s)) /\ Head(s) \notin Elems(Tail(s))
<1> DEFINE t == Tail(s)
<1>1. /\ Tail(s) \in Seq(Nat) /\ Head(s) = s[1] /\ Head(s) \in Nat
      /\ Len(s) \in Nat \ {0} /\ Len(t) = Len(s) - 1
  OBVIOUS
<1>2. \A i \in 1 .. Len(t) : t[i] = s[i + 1]
  OBVIOUS
<1> HIDE DEF t
<1>3. \A i \in 2 .. Len(s) : i - 1 \in 1 .. Len(t) /\ s[i] = t[i - 1]
  BY <1>1, <1>2
<1>4. Elems(s) = Elems(t) \cup {s[1]}
  <2>1. ASSUME NEW x \in Elems(s) PROVE x \in Elems(t) \cup {s[1]}
    <3>1. PICK i \in 1 .. Len(s) : x = s[i]
      BY <2>1 DEF Elems
    <3>2. CASE i = 1
      BY <3>1, <3>2
    <3>3. CASE i # 1
      <4>1. i \in 2 .. Len(s)
        BY <1>1, <3>3
      <4>2. i - 1 \in 1 .. Len(t) /\ x = t[i - 1]
        BY <1>3, <3>1, <4>1
      <4> QED
        BY <4>2 DEF Elems
    <3> QED
      BY <3>2, <3>3
  <2>2. ASSUME NEW x \in Elems(t) \cup {s[1]} PROVE x \in Elems(s)
    <3>1. CASE x = s[1]
      BY <1>1, <3>1 DEF Elems
    <3>2. CASE x \in Elems(t)
      <4>1. PICK i \in 1 .. Len(t) : x = t[i]
        BY <3>2 DEF Elems
      <4>2. i + 1 \in 1 .. Len(s) /\ x = s[i + 1]
        BY <1>1, <1>2, <4>1
      <4> QED
        BY <4>2 DEF Elems
    <3> QED
      BY <2>2, <3>1, <3>2
  <2> QED
    BY <2>1, <2>2
<1>5. \A i \in 1 .. Len(t) : i + 1 \in 1 .. Len(s) /\ i + 1 # 1
  BY <1>1
<1>6. Injective(s) => Injective(t)
  <2>1. ASSUME Injective(s), NEW i \in 1 .. Len(t), NEW j \in 1 .. Len(t), t[i] = t[j]
        PROVE i = j
    <3>1. s[i + 1] = s[j + 1]
      BY <1>1, <1>2, <2>1
    <3>2. i + 1 \in 1 .. Len(s) /\ j + 1 \in 1 .. Len(s)
      BY <1>5, <2>1
    <3>3. i + 1 = j + 1
      BY <2>1, <3>1, <3>2 DEF Injective
    <3> QED
      BY <2>1, <3>3
  <2> QED
    BY <2>1 DEF Injective
<1>7. Injective(s) => s[1] \notin Elems(t)
  <2>1. ASSUME Injective(s), NEW i \in 1 .. Len(t), t[i] = s[1] PROVE FALSE
    <3>1. s[i + 1] = s[1] /\ 1 \in 1 .. Len(s)
      BY <1>1, <1>2, <2>1
    <3> QED
      BY <1>5, <2>1, <3>1 DEF Injective
  <2> QED
    BY <2>1 DEF Elems
<1> QED
  BY <1>1, <1>4, <1>6, <1>7 DEF t, Elems

-----------------------------------------------------------------------------
(* Type correctness and the mutex.                                         *)

(* A call that holds a nonce, waits with the server's answer or may still  *)
(* land has a number for it.                                               *)
NonceTyped ==
  /\ \A c \in Calls : call[c].pc \in Holding \cup {"answered"} => call[c].nonce \in Nat
  /\ \A c \in wire : /\ call[c].pc \in {"giveback", "failed", "dead"}
                     /\ call[c].nonce \in Nat

Basic == TypeOK /\ NonceTyped /\ MutexIsHeldByOne

LEMMA BasicInit == Init => Basic
<1>1. SUFFICES ASSUME Init PROVE Basic
  OBVIOUS
<1>2. TypeOK
  <2>1. holes \in [Accounts -> Seq(Nat)]
    BY <1>1, EmptyElems DEF Init
  <2>2. used \in [Accounts -> Nat \cup {Unknown}]
    BY <1>1 DEF Init
  <2>3. call \in [Calls -> [pc: {"idle", "wait"} \cup Asking \cup Holding \cup Ended,
                           nonce: Nat \cup {Unknown}]]
    BY <1>1 DEF Init
  <2>4. accepted \in [Accounts -> SUBSET Nat] /\ stray \in [Accounts -> SUBSET Nat]
    BY <1>1 DEF Init
  <2>5. mutex \in BOOLEAN /\ wire \subseteq Calls
    BY <1>1 DEF Init
  <2>6. outside \in 0 .. MaxOutside /\ crashes \in 0 .. MaxCrashes
    BY <1>1, NonceAssumption DEF Init
  <2> QED
    BY <2>1, <2>2, <2>3, <2>4, <2>5, <2>6 DEF TypeOK
<1>3. NonceTyped /\ MutexIsHeldByOne
  BY <1>1 DEF Init, NonceTyped, MutexIsHeldByOne, Asking, Holding
<1> QED
  BY <1>2, <1>3 DEF Basic

LEMMA BasicStep == Basic /\ [Next]_vars => Basic'
<1>1. SUFFICES ASSUME Basic, [Next]_vars PROVE Basic'
  OBVIOUS
<1> USE <1>1, NonceAssumption
    DEF Basic, TypeOK, NonceTyped, MutexIsHeldByOne, Unknown, Asking, Holding, Ended,
        managerVars, nodeVars, At, Goto, GotoWith, Lands, Strays
<1>2. ASSUME NEW c \in Calls, Ask(c) PROVE Basic'
  BY <1>2 DEF Ask
<1>3. ASSUME NEW c \in Calls, OwnNonce(c) PROVE Basic'
  BY <1>3 DEF OwnNonce
<1>4. ASSUME NEW c \in Calls, LockMutex(c) PROVE Basic'
  BY <1>4 DEF LockMutex
<1>5. ASSUME NEW c \in Calls, ReadPending(c) PROVE Basic'
  BY <1>5 DEF ReadPending, IsPending
<1>6. ASSUME NEW c \in Calls, RpcFails(c) PROVE Basic'
  <2>1. call' = [call EXCEPT ![c] = [pc |-> "failed", nonce |-> Unknown]]
    BY <1>6 DEF RpcFails
  <2>2. TypeOK'
    <3>1. [pc |-> "failed", nonce |-> Unknown]
            \in [pc: {"idle", "wait"} \cup Asking \cup Holding \cup Ended,
                nonce: Nat \cup {Unknown}]
      OBVIOUS
    <3>2. call' \in [Calls -> [pc: {"idle", "wait"} \cup Asking \cup Holding \cup Ended,
                              nonce: Nat \cup {Unknown}]]
      BY <2>1, <3>1
    <3>3. /\ mutex' = FALSE
          /\ UNCHANGED <<used, holes, accepted, wire, stray, outside, crashes>>
      BY <1>6 DEF RpcFails
    <3> QED
      BY <3>2, <3>3
  <2>3. NonceTyped'
    BY <1>6, <2>1 DEF RpcFails
  <2>4. MutexIsHeldByOne'
    BY <1>6, <2>1 DEF RpcFails
  <2> QED
    BY <2>2, <2>3, <2>4
<1>7. ASSUME NEW c \in Calls, TakePending(c) PROVE Basic'
  <2>1. TypeOK'
    <3>1. holes' \in [Accounts -> Seq(Nat)]
      BY <1>7, EmptyElems DEF TakePending
    <3>2. used' \in [Accounts -> Nat \cup {Unknown}]
      BY <1>7 DEF TakePending
    <3>3. call' \in [Calls -> [pc: {"idle", "wait"} \cup Asking \cup Holding \cup Ended,
                              nonce: Nat \cup {Unknown}]]
      BY <1>7 DEF TakePending
    <3>4. UNCHANGED <<accepted, wire, stray, outside, crashes>> /\ mutex' = FALSE
      BY <1>7 DEF TakePending
    <3> QED
      BY <3>1, <3>2, <3>3, <3>4
  <2>2. NonceTyped'
    BY <1>7 DEF TakePending
  <2>3. MutexIsHeldByOne'
    BY <1>7 DEF TakePending
  <2> QED
    BY <2>1, <2>2, <2>3
<1>8. ASSUME NEW c \in Calls, TakeHole(c) PROVE Basic'
  <2>1. Account[c] \in Accounts /\ holes[Account[c]] \in Seq(Nat)
    OBVIOUS
  <2>2. Tail(holes[Account[c]]) \in Seq(Nat) /\ Head(holes[Account[c]]) \in Nat
    BY <1>8, <2>1, TailElems DEF TakeHole
  <2>4. call' = [call EXCEPT ![c] = [pc |-> "hold", nonce |-> Head(holes[Account[c]])]]
    BY <1>8 DEF TakeHole
  <2>5. TypeOK'
    <3>1. holes' = [holes EXCEPT ![Account[c]] = Tail(@)]
      BY <1>8 DEF TakeHole
    <3>2. holes' \in [Accounts -> Seq(Nat)]
      BY <2>1, <2>2, <3>1
    <3>3. call' \in [Calls -> [pc: {"idle", "wait"} \cup Asking \cup Holding \cup Ended,
                              nonce: Nat \cup {Unknown}]]
      BY <2>2, <2>4
    <3>4. UNCHANGED <<used, accepted, wire, stray, outside, crashes>> /\ mutex' = FALSE
      BY <1>8 DEF TakeHole
    <3> QED
      BY <3>2, <3>3, <3>4
  <2>6. NonceTyped'
    <3>1. call'[c].nonce \in Nat /\ \A d \in Calls \ {c} : call'[d] = call[d]
      BY <2>2, <2>4
    <3> QED
      BY <1>8, <3>1 DEF TakeHole
  <2>3. MutexIsHeldByOne'
    BY <1>8 DEF TakeHole
  <2> QED
    BY <2>3, <2>5, <2>6
<1>9. ASSUME NEW c \in Calls, TakeNext(c) PROVE Basic'
  <2>1. TypeOK'
    <3>1. used[Account[c]] \in Nat
      BY <1>9 DEF TakeNext, Ahead
    <3>2. used' \in [Accounts -> Nat \cup {Unknown}]
      BY <1>9, <3>1 DEF TakeNext
    <3> QED
      BY <1>9, <3>1, <3>2 DEF TakeNext
  <2>2. NonceTyped'
    BY <1>9 DEF TakeNext, Ahead
  <2>3. MutexIsHeldByOne'
    BY <1>9 DEF TakeNext, Ahead
  <2> QED
    BY <2>1, <2>2, <2>3
<1>10. ASSUME NEW c \in Calls, Sent(c) PROVE Basic'
  BY <1>10 DEF Sent
<1>11. ASSUME NEW c \in Calls, GivesUp(c) PROVE Basic'
  BY <1>11 DEF GivesUp
<1>12. ASSUME NEW c \in Calls, AddHole(c) PROVE Basic'
  BY <1>12, AppendElems DEF AddHole
<1>13. ASSUME NEW c \in Calls, LandsLate(c) PROVE Basic'
  BY <1>13 DEF LandsLate
<1>14. ASSUME NEW a \in Accounts, Outsider(a) PROVE Basic'
  BY <1>14 DEF Outsider, IsPending
<1>15. CASE Restart
  <2>1. TypeOK'
    <3>1. holes' \in [Accounts -> Seq(Nat)]
      BY <1>15, EmptyElems DEF Restart
    <3>2. used' \in [Accounts -> Nat \cup {Unknown}]
      BY <1>15 DEF Restart
    <3>3. call' \in [Calls -> [pc: {"idle", "wait"} \cup Asking \cup Holding \cup Ended,
                              nonce: Nat \cup {Unknown}]]
      <4>1. ASSUME NEW c \in Calls
            PROVE /\ call'[c].pc \in {"idle", "dead"} \cup Ended
                  /\ call'[c] = [pc |-> call'[c].pc, nonce |-> call[c].nonce]
        BY <1>15 DEF Restart
      <4>2. call' = [c \in Calls |-> call'[c]]
        BY <1>15 DEF Restart
      <4> QED
        BY <4>1, <4>2
    <3>4. accepted' \in [Accounts -> SUBSET Nat] /\ stray' \in [Accounts -> SUBSET Nat]
      BY <1>15 DEF Restart
    <3>5. mutex' \in BOOLEAN /\ wire' \subseteq Calls
      BY <1>15 DEF Restart
    <3>6. outside' \in 0 .. MaxOutside /\ crashes' \in 0 .. MaxCrashes
      BY <1>15 DEF Restart
    <3> QED
      BY <3>1, <3>2, <3>3, <3>4, <3>5, <3>6
  <2>2. NonceTyped' /\ MutexIsHeldByOne'
    BY <1>15 DEF Restart
  <2> QED
    BY <2>1, <2>2
<1>16. CASE UNCHANGED vars
  BY <1>16 DEF vars
<1> QED
  BY <1>2, <1>3, <1>4, <1>5, <1>6, <1>7, <1>8, <1>9, <1>10, <1>11, <1>12, <1>13,
     <1>14, <1>15, <1>16 DEF Next, CallStep

(* The variables keep their types, for every set of calls and accounts.    *)
THEOREM NonceTypes == Spec => []TypeOK
<1> QED
  BY BasicInit, BasicStep, PTL DEF Spec, Basic

(* The mutex is taken exactly while one call talks to the server.          *)
THEOREM MutexExclusion == Spec => []MutexIsHeldByOne
<1> QED
  BY BasicInit, BasicStep, PTL DEF Spec, Basic
-----------------------------------------------------------------------------
(* Where the nonces are.                                                   *)

(* What is held or a hole was handed out; what is beyond the last nonce    *)
(* handed out and yet at the node is a stray; below an answer of the       *)
(* server everything has been accepted.                                    *)
Bounds ==
  /\ \A c \in Calls : call[c].pc \in Holding =>
       used[Account[c]] \in Nat /\ call[c].nonce <= used[Account[c]]
  /\ \A a \in Accounts : \A n \in Elems(holes[a]) : used[a] \in Nat /\ n <= used[a]
  /\ \A c \in Calls : At(c, "answered") =>
       \A k \in 0 .. call[c].nonce - 1 : k \in accepted[Account[c]]
  /\ \A a \in Accounts : \A n \in accepted[a] :
       used[a] = Unknown \/ n > used[a] => n \in stray[a]

OnePlace ==
  /\ \A c, d \in Calls :
       /\ call[c].pc \in Holding /\ call[d].pc \in Holding
       /\ Account[c] = Account[d] /\ call[c].nonce = call[d].nonce
       => c = d
  /\ \A c \in Calls : call[c].pc \in Holding => call[c].nonce \notin Elems(holes[Account[c]])
  /\ \A a \in Accounts : Injective(holes[a])

Cover(a, n) ==
  \/ n \in accepted[a] \cup Elems(holes[a])
  \/ \E c \in BtcRedeems : Account[c] = a /\ At(c, "failed") /\ call[c].nonce = n
  \/ \E c \in Calls : Has(c, a, n)

Covered == \A a \in Accounts : used[a] # Unknown => \A n \in 0 .. used[a] : Cover(a, n)

ReusedStray ==
  /\ \A a \in Accounts : \A n \in accepted[a] : n \in Elems(holes[a]) => n \in stray[a]
  /\ \A c \in Calls : call[c].pc \in Holding /\ call[c].nonce \in accepted[Account[c]]
       => call[c].nonce \in stray[Account[c]]

Places == Basic /\ Bounds /\ OnePlace /\ Covered /\ ReusedStray

LEMMA PlacesInit == Init => Places
<1>1. SUFFICES ASSUME Init PROVE Places
  OBVIOUS
<1> QED
  BY <1>1, BasicInit, EmptyElems, NonceAssumption
     DEF Init, Places, Bounds, OnePlace, Covered, ReusedStray, At, Has, Holding

(* A nonce stays covered when the holes and the holders are looked after.   *)
LEMMA CoverKept ==
  ASSUME NEW a \in Accounts, NEW n, Cover(a, n),
         accepted[a] \subseteq accepted'[a],
         n \in Elems(holes[a]) => Cover(a, n)',
         \A c \in Calls : Has(c, a, n) => Cover(a, n)',
         \A c \in Calls : At(c, "failed") => call'[c] = call[c]
  PROVE Cover(a, n)'
<1>1. CASE n \in accepted[a] \cup Elems(holes[a])
  BY <1>1 DEF Cover
<1>2. ASSUME NEW c \in BtcRedeems, Account[c] = a, At(c, "failed"), call[c].nonce = n
      PROVE Cover(a, n)'
  BY <1>2, NonceAssumption DEF BtcRedeems, Cover, At
<1> QED
  BY <1>1, <1>2 DEF Cover

LEMMA PlacesStep ==
  ASSUME \A c \in Calls : ~ OwnNonce(c), Places, [Next]_vars
  PROVE  Places'
<1>1. Places /\ [Next]_vars
  OBVIOUS
<1> USE <1>1, NonceAssumption
    DEF Places, Basic, TypeOK, NonceTyped, Unknown, Asking, Holding, Ended, managerVars,
        nodeVars, At, Goto, GotoWith, Lands, Strays, Has
<1>2. Basic'
  BY BasicStep
<1>3. ASSUME NEW c \in Calls, Ask(c) PROVE Places'
  <2>2. Bounds'
    BY <1>3 DEF Ask, Bounds
  <2>3. OnePlace'
    BY <1>3 DEF Ask, OnePlace, Bounds
  <2>4. Covered'
    <3>1. SUFFICES ASSUME NEW b \in Accounts, used'[b] # Unknown, NEW n \in 0 .. used'[b]
                   PROVE Cover(b, n)'
      BY DEF Covered
    <3>2. CASE n \in 0 .. used[b] /\ used[b] # Unknown
      <4>1. Cover(b, n) /\ accepted[b] \subseteq accepted'[b]
        BY <1>3, <3>2 DEF Ask, Covered
      <4>2. n \in Elems(holes[b]) => Cover(b, n)'
        BY <1>3, <3>2 DEF Ask, Cover, Bounds
      <4>3. ASSUME NEW d \in Calls, Has(d, b, n) PROVE Cover(b, n)'
        BY <1>3, <3>2, <4>3 DEF Ask, Cover
      <4>4. \A d \in Calls : At(d, "failed") => call'[d] = call[d]
        BY <1>3 DEF Ask
      <4> QED
        BY <4>1, <4>2, <4>3, <4>4, CoverKept
    <3>3. CASE ~ (n \in 0 .. used[b] /\ used[b] # Unknown)
      BY <1>3, <3>1, <3>3 DEF Ask, Cover, Bounds
    <3> QED
      BY <3>2, <3>3
  <2>5. ReusedStray'
    BY <1>3 DEF Ask, ReusedStray, Bounds
  <2> QED
    BY <1>2, <2>2, <2>3, <2>4, <2>5
<1>4. ASSUME NEW c \in Calls, LockMutex(c) PROVE Places'
  <2>2. Bounds'
    BY <1>4 DEF LockMutex, Bounds
  <2>3. OnePlace'
    BY <1>4 DEF LockMutex, OnePlace, Bounds
  <2>4. Covered'
    <3>1. SUFFICES ASSUME NEW b \in Accounts, used'[b] # Unknown, NEW n \in 0 .. used'[b]
                   PROVE Cover(b, n)'
      BY DEF Covered
    <3>2. CASE n \in 0 .. used[b] /\ used[b] # Unknown
      <4>1. Cover(b, n) /\ accepted[b] \subseteq accepted'[b]
        BY <1>4, <3>2 DEF LockMutex, Covered
      <4>2. n \in Elems(holes[b]) => Cover(b, n)'
        BY <1>4, <3>2 DEF LockMutex, Cover, Bounds
      <4>3. ASSUME NEW d \in Calls, Has(d, b, n) PROVE Cover(b, n)'
        BY <1>4, <3>2, <4>3 DEF LockMutex, Cover
      <4>4. \A d \in Calls : At(d, "failed") => call'[d] = call[d]
        BY <1>4 DEF LockMutex
      <4> QED
        BY <4>1, <4>2, <4>3, <4>4, CoverKept
    <3>3. CASE ~ (n \in 0 .. used[b] /\ used[b] # Unknown)
      BY <1>4, <3>1, <3>3 DEF LockMutex, Cover, Bounds
    <3> QED
      BY <3>2, <3>3
  <2>5. ReusedStray'
    BY <1>4 DEF LockMutex, ReusedStray, Bounds
  <2> QED
    BY <1>2, <2>2, <2>3, <2>4, <2>5
<1>5. ASSUME NEW c \in Calls, RpcFails(c) PROVE Places'
  <2>2. Bounds'
    BY <1>5 DEF RpcFails, Bounds
  <2>3. OnePlace'
    BY <1>5 DEF RpcFails, OnePlace, Bounds
  <2>4. Covered'
    <3>1. SUFFICES ASSUME NEW b \in Accounts, used'[b] # Unknown, NEW n \in 0 .. used'[b]
                   PROVE Cover(b, n)'
      BY DEF Covered
    <3>2. CASE n \in 0 .. used[b] /\ used[b] # Unknown
      <4>1. Cover(b, n) /\ accepted[b] \subseteq accepted'[b]
        BY <1>5, <3>2 DEF RpcFails, Covered
      <4>2. n \in Elems(holes[b]) => Cover(b, n)'
        BY <1>5, <3>2 DEF RpcFails, Cover, Bounds
      <4>3. ASSUME NEW d \in Calls, Has(d, b, n) PROVE Cover(b, n)'
        BY <1>5, <3>2, <4>3 DEF RpcFails, Cover
      <4>4. \A d \in Calls : At(d, "failed") => call'[d] = call[d]
        BY <1>5 DEF RpcFails
      <4> QED
        BY <4>1, <4>2, <4>3, <4>4, CoverKept
    <3>3. CASE ~ (n \in 0 .. used[b] /\ used[b] # Unknown)
      BY <1>5, <3>1, <3>3 DEF RpcFails, Cover, Bounds
    <3> QED
      BY <3>2, <3>3
  <2>5. ReusedStray'
    BY <1>5 DEF RpcFails, ReusedStray, Bounds
  <2> QED
    BY <1>2, <2>2, <2>3, <2>4, <2>5
<1>6. ASSUME NEW c \in Calls, ReadPending(c) PROVE Places'
  <2>2. Bounds'
    BY <1>6 DEF ReadPending, IsPending, Bounds
  <2>3. OnePlace'
    BY <1>6 DEF ReadPending, IsPending, OnePlace, Bounds
  <2>4. Covered'
    <3>1. SUFFICES ASSUME NEW b \in Accounts, used'[b] # Unknown, NEW n \in 0 .. used'[b]
                   PROVE Cover(b, n)'
      BY DEF Covered
    <3>2. CASE n \in 0 .. used[b] /\ used[b] # Unknown
      <4>1. Cover(b, n) /\ accepted[b] \subseteq accepted'[b]
        BY <1>6, <3>2 DEF ReadPending, IsPending, Covered
      <4>2. n \in Elems(holes[b]) => Cover(b, n)'
        BY <1>6, <3>2 DEF ReadPending, IsPending, Cover, Bounds
      <4>3. ASSUME NEW d \in Calls, Has(d, b, n) PROVE Cover(b, n)'
        BY <1>6, <3>2, <4>3 DEF ReadPending, IsPending, Cover
      <4>4. \A d \in Calls : At(d, "failed") => call'[d] = call[d]
        BY <1>6 DEF ReadPending, IsPending
      <4> QED
        BY <4>1, <4>2, <4>3, <4>4, CoverKept
    <3>3. CASE ~ (n \in 0 .. used[b] /\ used[b] # Unknown)
      BY <1>6, <3>1, <3>3 DEF ReadPending, IsPending, Cover, Bounds
    <3> QED
      BY <3>2, <3>3
  <2>5. ReusedStray'
    BY <1>6 DEF ReadPending, IsPending, ReusedStray, Bounds
  <2> QED
    BY <1>2, <2>2, <2>3, <2>4, <2>5
<1>7. ASSUME NEW c \in Calls, TakePending(c) PROVE Places'
  <2>2. Bounds'
    BY <1>7, EmptyElems DEF TakePending, Ahead, Bounds
  <2>3. OnePlace'
    BY <1>7, EmptyElems DEF TakePending, Ahead, OnePlace, Bounds
  <2>4. Covered'
    <3>1. SUFFICES ASSUME NEW b \in Accounts, used'[b] # Unknown, NEW n \in 0 .. used'[b]
                   PROVE Cover(b, n)'
      BY DEF Covered
    <3>2. CASE n \in 0 .. used[b] /\ used[b] # Unknown
      <4>1. Cover(b, n) /\ accepted[b] \subseteq accepted'[b]
        BY <1>7, <3>2 DEF TakePending, Ahead, Covered
      <4>2. n \in Elems(holes[b]) => Cover(b, n)'
        BY <1>7, <3>2, EmptyElems DEF TakePending, Ahead, Cover, Bounds
      <4>3. ASSUME NEW d \in Calls, Has(d, b, n) PROVE Cover(b, n)'
        BY <1>7, <3>2, <4>3, EmptyElems DEF TakePending, Ahead, Cover
      <4>4. \A d \in Calls : At(d, "failed") => call'[d] = call[d]
        BY <1>7 DEF TakePending, Ahead
      <4> QED
        BY <4>1, <4>2, <4>3, <4>4, CoverKept
    <3>3. CASE ~ (n \in 0 .. used[b] /\ used[b] # Unknown)
      BY <1>7, <3>1, <3>3 DEF TakePending, Ahead, Cover, Bounds
    <3> QED
      BY <3>2, <3>3
  <2>5. ReusedStray'
    <3>1. ASSUME NEW d \in Calls, d # c, call'[d].pc \in Holding,
                 call'[d].nonce \in accepted'[Account[d]]
          PROVE call'[d].nonce \in stray'[Account[d]]
      BY <1>7, <3>1 DEF TakePending, Ahead, ReusedStray
    <3>2. call'[c].nonce \in accepted'[Account[c]] => call'[c].nonce \in stray'[Account[c]]
      BY <1>7 DEF TakePending, Ahead, Bounds
    <3>3. ASSUME NEW b \in Accounts, NEW n \in accepted'[b], n \in Elems(holes'[b])
          PROVE n \in stray'[b]
      BY <1>7, <3>3, EmptyElems DEF TakePending, Ahead, ReusedStray
    <3> QED
      BY <3>1, <3>2, <3>3 DEF ReusedStray
  <2> QED
    BY <1>2, <2>2, <2>3, <2>4, <2>5
<1>8. ASSUME NEW c \in Calls, TakeHole(c) PROVE Places'
  <2>1. LET s == holes[Account[c]] IN
          /\ Tail(s) \in Seq(Nat) /\ Head(s) \in Elems(s) /\ Head(s) \in Nat
          /\ Elems(s) = Elems(Tail(s)) \cup {Head(s)}
          /\ Injective(s) => Injective(Tail(s)) /\ Head(s) \notin Elems(Tail(s))
    BY <1>8, TailElems DEF TakeHole
  <2>2. Bounds'
    BY <1>8, <2>1 DEF TakeHole, Ahead, Bounds
  <2>3. OnePlace'
    BY <1>8, <2>1 DEF TakeHole, Ahead, OnePlace, Bounds
  <2>4. Covered'
    <3>1. SUFFICES ASSUME NEW b \in Accounts, used'[b] # Unknown, NEW n \in 0 .. used'[b]
                   PROVE Cover(b, n)'
      BY DEF Covered
    <3>2. CASE n \in 0 .. used[b] /\ used[b] # Unknown
      <4>1. Cover(b, n) /\ accepted[b] \subseteq accepted'[b]
        BY <1>8, <3>2 DEF TakeHole, Ahead, Covered
      <4>2. n \in Elems(holes[b]) => Cover(b, n)'
        BY <1>8, <3>2, <2>1 DEF TakeHole, Ahead, Cover, Bounds
      <4>3. ASSUME NEW d \in Calls, Has(d, b, n) PROVE Cover(b, n)'
        BY <1>8, <3>2, <4>3, <2>1 DEF TakeHole, Ahead, Cover
      <4>4. \A d \in Calls : At(d, "failed") => call'[d] = call[d]
        BY <1>8 DEF TakeHole, Ahead
      <4> QED
        BY <4>1, <4>2, <4>3, <4>4, CoverKept
    <3>3. CASE ~ (n \in 0 .. used[b] /\ used[b] # Unknown)
      BY <1>8, <3>1, <3>3 DEF TakeHole, Ahead, Cover, Bounds
    <3> QED
      BY <3>2, <3>3
  <2>5. ReusedStray'
    BY <1>8, <2>1 DEF TakeHole, Ahead, ReusedStray, Bounds
  <2> QED
    BY <1>2, <2>2, <2>3, <2>4, <2>5
<1>9. ASSUME NEW c \in Calls, TakeNext(c) PROVE Places'
  <2>2. Bounds'
    BY <1>9, EmptyElems DEF TakeNext, Ahead, Bounds
  <2>3. OnePlace'
    BY <1>9, EmptyElems DEF TakeNext, Ahead, OnePlace, Bounds
  <2>4. Covered'
    <3>1. SUFFICES ASSUME NEW b \in Accounts, used'[b] # Unknown, NEW n \in 0 .. used'[b]
                   PROVE Cover(b, n)'
      BY DEF Covered
    <3>2. CASE n \in 0 .. used[b] /\ used[b] # Unknown
      <4>1. Cover(b, n) /\ accepted[b] \subseteq accepted'[b]
        BY <1>9, <3>2 DEF TakeNext, Ahead, Covered
      <4>2. n \in Elems(holes[b]) => Cover(b, n)'
        BY <1>9, <3>2, EmptyElems DEF TakeNext, Ahead, Cover, Bounds
      <4>3. ASSUME NEW d \in Calls, Has(d, b, n) PROVE Cover(b, n)'
        BY <1>9, <3>2, <4>3, EmptyElems DEF TakeNext, Ahead, Cover
      <4>4. \A d \in Calls : At(d, "failed") => call'[d] = call[d]
        BY <1>9 DEF TakeNext, Ahead
      <4> QED
        BY <4>1, <4>2, <4>3, <4>4, CoverKept
    <3>3. CASE ~ (n \in 0 .. used[b] /\ used[b] # Unknown)
      BY <1>9, <3>1, <3>3 DEF TakeNext, Ahead, Cover, Bounds
    <3> QED
      BY <3>2, <3>3
  <2>5. ReusedStray'
    <3>1. ASSUME NEW d \in Calls, d # c, call'[d].pc \in Holding,
                 call'[d].nonce \in accepted'[Account[d]]
          PROVE call'[d].nonce \in stray'[Account[d]]
      BY <1>9, <3>1 DEF TakeNext, Ahead, ReusedStray
    <3>2. call'[c].nonce \in accepted'[Account[c]] => call'[c].nonce \in stray'[Account[c]]
      BY <1>9 DEF TakeNext, Ahead, Bounds
    <3>3. ASSUME NEW b \in Accounts, NEW n \in accepted'[b], n \in Elems(holes'[b])
          PROVE n \in stray'[b]
      BY <1>9, <3>3, EmptyElems DEF TakeNext, Ahead, ReusedStray
    <3> QED
      BY <3>1, <3>2, <3>3 DEF ReusedStray
  <2> QED
    BY <1>2, <2>2, <2>3, <2>4, <2>5
<1>10. ASSUME NEW c \in Calls, Sent(c) PROVE Places'
  <2>2. Bounds'
    BY <1>10 DEF Sent, Bounds
  <2>3. OnePlace'
    BY <1>10 DEF Sent, OnePlace, Bounds
  <2>4. Covered'
    <3>1. SUFFICES ASSUME NEW b \in Accounts, used'[b] # Unknown, NEW n \in 0 .. used'[b]
                   PROVE Cover(b, n)'
      BY DEF Covered
    <3>2. CASE n \in 0 .. used[b] /\ used[b] # Unknown
      <4>1. Cover(b, n) /\ accepted[b] \subseteq accepted'[b]
        BY <1>10, <3>2 DEF Sent, Covered
      <4>2. n \in Elems(holes[b]) => Cover(b, n)'
        BY <1>10, <3>2 DEF Sent, Cover, Bounds
      <4>3. ASSUME NEW d \in Calls, Has(d, b, n) PROVE Cover(b, n)'
        BY <1>10, <3>2, <4>3 DEF Sent, Cover
      <4>4. \A d \in Calls : At(d, "failed") => call'[d] = call[d]
        BY <1>10 DEF Sent
      <4> QED
        BY <4>1, <4>2, <4>3, <4>4, CoverKept
    <3>3. CASE ~ (n \in 0 .. used[b] /\ used[b] # Unknown)
      BY <1>10, <3>1, <3>3 DEF Sent, Cover, Bounds
    <3> QED
      BY <3>2, <3>3
  <2>5. ReusedStray'
    <3>1. ASSUME NEW d \in Calls, call'[d].pc \in Holding,
                 call'[d].nonce \in accepted'[Account[d]]
          PROVE call'[d].nonce \in stray'[Account[d]]
      BY <1>10, <3>1 DEF Sent, ReusedStray, OnePlace
    <3>2. ASSUME NEW b \in Accounts, NEW n \in accepted'[b], n \in Elems(holes'[b])
          PROVE n \in stray'[b]
      BY <1>10, <3>2 DEF Sent, ReusedStray, OnePlace
    <3> QED
      BY <3>1, <3>2 DEF ReusedStray
  <2> QED
    BY <1>2, <2>2, <2>3, <2>4, <2>5
<1>11. ASSUME NEW c \in Calls, GivesUp(c) PROVE Places'
  <2>2. Bounds'
    BY <1>11 DEF GivesUp, Bounds
  <2>3. OnePlace'
    BY <1>11 DEF GivesUp, OnePlace, Bounds
  <2>4. Covered'
    <3>1. SUFFICES ASSUME NEW b \in Accounts, used'[b] # Unknown, NEW n \in 0 .. used'[b]
                   PROVE Cover(b, n)'
      BY DEF Covered
    <3>2. CASE n \in 0 .. used[b] /\ used[b] # Unknown
      <4>1. Cover(b, n) /\ accepted[b] \subseteq accepted'[b]
        BY <1>11, <3>2 DEF GivesUp, Covered
      <4>2. n \in Elems(holes[b]) => Cover(b, n)'
        BY <1>11, <3>2 DEF GivesUp, Cover, Bounds
      <4>3. ASSUME NEW d \in Calls, Has(d, b, n) PROVE Cover(b, n)'
        BY <1>11, <3>2, <4>3 DEF GivesUp, Cover
      <4>4. \A d \in Calls : At(d, "failed") => call'[d] = call[d]
        BY <1>11 DEF GivesUp
      <4> QED
        BY <4>1, <4>2, <4>3, <4>4, CoverKept
    <3>3. CASE ~ (n \in 0 .. used[b] /\ used[b] # Unknown)
      BY <1>11, <3>1, <3>3 DEF GivesUp, Cover, Bounds
    <3> QED
      BY <3>2, <3>3
  <2>5. ReusedStray'
    BY <1>11 DEF GivesUp, ReusedStray, Bounds
  <2> QED
    BY <1>2, <2>2, <2>3, <2>4, <2>5
<1>12. ASSUME NEW c \in Calls, AddHole(c) PROVE Places'
  <2>1. LET s == holes[Account[c]]
            n == call[c].nonce IN
          /\ Elems(Append(s, n)) = Elems(s) \cup {n}
          /\ n \notin Elems(s) /\ Injective(s) => Injective(Append(s, n))
    BY <1>12, AppendElems DEF AddHole
  <2>2. Bounds'
    BY <1>12, <2>1 DEF AddHole, HoleSet, Bounds
  <2>3. OnePlace'
    BY <1>12, <2>1 DEF AddHole, HoleSet, OnePlace, Bounds
  <2>4. Covered'
    <3>1. SUFFICES ASSUME NEW b \in Accounts, used'[b] # Unknown, NEW n \in 0 .. used'[b]
                   PROVE Cover(b, n)'
      BY DEF Covered
    <3>2. CASE n \in 0 .. used[b] /\ used[b] # Unknown
      <4>1. Cover(b, n) /\ accepted[b] \subseteq accepted'[b]
        BY <1>12, <3>2 DEF AddHole, HoleSet, Covered
      <4>2. n \in Elems(holes[b]) => Cover(b, n)'
        BY <1>12, <3>2, <2>1 DEF AddHole, HoleSet, Cover, Bounds
      <4>3. ASSUME NEW d \in Calls, Has(d, b, n) PROVE Cover(b, n)'
        <5>1. CASE d # c
          BY <1>12, <4>3, <5>1 DEF AddHole, Cover
        <5>2. CASE d = c /\ c \in BtcRedeems
          <6>1. Account[c] = b /\ call'[c].pc = "failed" /\ call'[c].nonce = n
            BY <1>12, <4>3, <5>2 DEF AddHole
          <6> QED
            BY <5>2, <6>1 DEF Cover
        <5>3. CASE d = c /\ c \notin BtcRedeems
          <6>1. Account[c] = b /\ call[c].nonce = n
            BY <4>3, <5>3
          <6>2. HoleSet(b) = Elems(holes[b])
            BY DEF HoleSet, Elems
          <6>3. holes'[b] = IF n \notin Elems(holes[b]) THEN Append(holes[b], n) ELSE holes[b]
            BY <1>12, <3>2, <5>3, <6>1, <6>2 DEF AddHole
          <6>4. n \in Elems(holes'[b])
            BY <2>1, <6>1, <6>3
          <6> QED
            BY <6>4 DEF Cover
        <5> QED
          BY <5>1, <5>2, <5>3
      <4>4. \A d \in Calls : At(d, "failed") => call'[d] = call[d]
        BY <1>12 DEF AddHole, HoleSet
      <4> QED
        BY <4>1, <4>2, <4>3, <4>4, CoverKept
    <3>3. CASE ~ (n \in 0 .. used[b] /\ used[b] # Unknown)
      BY <1>12, <3>1, <3>3 DEF AddHole, HoleSet, Cover, Bounds
    <3> QED
      BY <3>2, <3>3
  <2>5. ReusedStray'
    BY <1>12, <2>1 DEF AddHole, HoleSet, ReusedStray, Bounds
  <2> QED
    BY <1>2, <2>2, <2>3, <2>4, <2>5
<1>13. ASSUME NEW c \in Calls, LandsLate(c) PROVE Places'
  <2>2. Bounds'
    BY <1>13 DEF LandsLate, Bounds
  <2>3. OnePlace'
    BY <1>13 DEF LandsLate, OnePlace, Bounds
  <2>4. Covered'
    <3>1. SUFFICES ASSUME NEW b \in Accounts, used'[b] # Unknown, NEW n \in 0 .. used'[b]
                   PROVE Cover(b, n)'
      BY DEF Covered
    <3>2. CASE n \in 0 .. used[b] /\ used[b] # Unknown
      <4>1. Cover(b, n) /\ accepted[b] \subseteq accepted'[b]
        BY <1>13, <3>2 DEF LandsLate, Covered
      <4>2. n \in Elems(holes[b]) => Cover(b, n)'
        BY <1>13, <3>2 DEF LandsLate, Cover, Bounds
      <4>3. ASSUME NEW d \in Calls, Has(d, b, n) PROVE Cover(b, n)'
        BY <1>13, <3>2, <4>3 DEF LandsLate, Cover
      <4>4. \A d \in Calls : At(d, "failed") => call'[d] = call[d]
        BY <1>13 DEF LandsLate
      <4> QED
        BY <4>1, <4>2, <4>3, <4>4, CoverKept
    <3>3. CASE ~ (n \in 0 .. used[b] /\ used[b] # Unknown)
      BY <1>13, <3>1, <3>3 DEF LandsLate, Cover, Bounds
    <3> QED
      BY <3>2, <3>3
  <2>5. ReusedStray'
    BY <1>13 DEF LandsLate, ReusedStray, Bounds
  <2> QED
    BY <1>2, <2>2, <2>3, <2>4, <2>5
<1>14. ASSUME NEW a \in Accounts, Outsider(a) PROVE Places'
  <2>2. Bounds'
    BY <1>14 DEF Outsider, IsPending, Bounds
  <2>3. OnePlace'
    BY <1>14 DEF Outsider, IsPending, OnePlace, Bounds
  <2>4. Covered'
    <3>1. SUFFICES ASSUME NEW b \in Accounts, used'[b] # Unknown, NEW n \in 0 .. used'[b]
                   PROVE Cover(b, n)'
      BY DEF Covered
    <3>2. CASE n \in 0 .. used[b] /\ used[b] # Unknown
      <4>1. Cover(b, n) /\ accepted[b] \subseteq accepted'[b]
        BY <1>14, <3>2 DEF Outsider, IsPending, Covered
      <4>2. n \in Elems(holes[b]) => Cover(b, n)'
        BY <1>14, <3>2 DEF Outsider, IsPending, Cover, Bounds
      <4>3. ASSUME NEW d \in Calls, Has(d, b, n) PROVE Cover(b, n)'
        BY <1>14, <3>2, <4>3 DEF Outsider, IsPending, Cover
      <4>4. \A d \in Calls : At(d, "failed") => call'[d] = call[d]
        BY <1>14 DEF Outsider, IsPending
      <4> QED
        BY <4>1, <4>2, <4>3, <4>4, CoverKept
    <3>3. CASE ~ (n \in 0 .. used[b] /\ used[b] # Unknown)
      BY <1>14, <3>1, <3>3 DEF Outsider, IsPending, Cover, Bounds
    <3> QED
      BY <3>2, <3>3
  <2>5. ReusedStray'
    <3>1. PICK n \in {0} \cup {k + 1 : k \in accepted[a]} : Lands(a, n) /\ Strays(a, {n})
      BY <1>14 DEF Outsider
    <3>2. ASSUME NEW d \in Calls, call'[d].pc \in Holding,
                 call'[d].nonce \in accepted'[Account[d]]
          PROVE call'[d].nonce \in stray'[Account[d]]
      BY <1>14, <3>1, <3>2 DEF Outsider, ReusedStray
    <3>3. ASSUME NEW b \in Accounts, NEW m \in accepted'[b], m \in Elems(holes'[b])
          PROVE m \in stray'[b]
      BY <1>14, <3>1, <3>3 DEF Outsider, ReusedStray
    <3> QED
      BY <3>2, <3>3 DEF ReusedStray
  <2> QED
    BY <1>2, <2>2, <2>3, <2>4, <2>5
<1>15. CASE Restart
  <2>2. Bounds'
    BY <1>15, EmptyElems DEF Restart, Bounds
  <2>3. OnePlace'
    BY <1>15, EmptyElems DEF Restart, OnePlace, Bounds
  <2>4. Covered'
    <3>1. SUFFICES ASSUME NEW b \in Accounts, used'[b] # Unknown, NEW n \in 0 .. used'[b]
                   PROVE Cover(b, n)'
      BY DEF Covered
    <3>2. CASE n \in 0 .. used[b] /\ used[b] # Unknown
      <4>1. Cover(b, n) /\ accepted[b] \subseteq accepted'[b]
        BY <1>15, <3>2 DEF Restart, Covered
      <4>2. n \in Elems(holes[b]) => Cover(b, n)'
        BY <1>15, <3>2, EmptyElems DEF Restart, Cover, Bounds
      <4>3. ASSUME NEW d \in Calls, Has(d, b, n) PROVE Cover(b, n)'
        BY <1>15, <3>2, <4>3, EmptyElems DEF Restart, Cover
      <4>4. \A d \in Calls : At(d, "failed") => call'[d] = call[d]
        BY <1>15 DEF Restart
      <4> QED
        BY <4>1, <4>2, <4>3, <4>4, CoverKept
    <3>3. CASE ~ (n \in 0 .. used[b] /\ used[b] # Unknown)
      BY <1>15, <3>1, <3>3 DEF Restart, Cover, Bounds
    <3> QED
      BY <3>2, <3>3
  <2>5. ReusedStray'
    BY <1>15, EmptyElems DEF Restart, ReusedStray, Bounds
  <2> QED
    BY <1>2, <2>2, <2>3, <2>4, <2>5
<1>16. CASE UNCHANGED vars
  <2>2. Bounds'
    BY <1>16 DEF vars, Bounds
  <2>3. OnePlace'
    BY <1>16 DEF vars, OnePlace, Bounds
  <2>4. Covered'
    <3>1. SUFFICES ASSUME NEW b \in Accounts, used'[b] # Unknown, NEW n \in 0 .. used'[b]
                   PROVE Cover(b, n)'
      BY DEF Covered
    <3>2. CASE n \in 0 .. used[b] /\ used[b] # Unknown
      <4>1. Cover(b, n) /\ accepted[b] \subseteq accepted'[b]
        BY <1>16, <3>2 DEF vars, Covered
      <4>2. n \in Elems(holes[b]) => Cover(b, n)'
        BY <1>16, <3>2 DEF vars, Cover, Bounds
      <4>3. ASSUME NEW d \in Calls, Has(d, b, n) PROVE Cover(b, n)'
        BY <1>16, <3>2, <4>3 DEF vars, Cover
      <4>4. \A d \in Calls : At(d, "failed") => call'[d] = call[d]
        BY <1>16 DEF vars
      <4> QED
        BY <4>1, <4>2, <4>3, <4>4, CoverKept
    <3>3. CASE ~ (n \in 0 .. used[b] /\ used[b] # Unknown)
      BY <1>16, <3>1, <3>3 DEF vars, Cover, Bounds
    <3> QED
      BY <3>2, <3>3
  <2>5. ReusedStray'
    BY <1>16 DEF vars, ReusedStray, Bounds
  <2> QED
    BY <1>2, <2>2, <2>3, <2>4, <2>5
<1>17. ASSUME NEW c \in Calls PROVE ~ OwnNonce(c)
  BY <1>17
<1> QED
  BY <1>3, <1>4, <1>5, <1>6, <1>7, <1>8, <1>9, <1>10, <1>11, <1>12, <1>13, <1>14, <1>15, <1>16, <1>17 DEF Next, CallStep

(* A call that brought its own nonce never becomes idle again.             *)
LEMMA OwnStays ==
  ASSUME Basic, [Next]_vars, NoOwnNonce'
  PROVE  NoOwnNonce /\ \A c \in Calls : ~ OwnNonce(c)
<1>0. DOMAIN call = Calls
  BY DEF Basic, TypeOK
<1>1. ASSUME NEW c \in Calls, call[c].pc # "idle" PROVE call'[c].pc # "idle"
  <2>1. ASSUME NEW d \in Calls, NEW pc, NEW n, pc # "idle", GotoWith(d, pc, n)
        PROVE  call'[c].pc # "idle"
    BY <1>0, <1>1, <2>1 DEF GotoWith
  <2>2. ASSUME NEW d \in Calls, NEW pc, pc # "idle", Goto(d, pc)
        PROVE  call'[c].pc # "idle"
    <3>1. CASE c = d
      <4>1. call'[c] = [call[c] EXCEPT !.pc = pc]
        BY <1>0, <2>2, <3>1 DEF Goto
      <4>2. DOMAIN call[c] = {"pc", "nonce"}
        BY DEF Basic, TypeOK
      <4> QED
        BY <2>2, <4>1, <4>2
    <3>2. CASE c # d
      BY <1>0, <1>1, <2>2, <3>2 DEF Goto
    <3> QED
      BY <3>1, <3>2
  <2>3. ASSUME NEW d \in Calls, Ask(d) \/ CallStep(d)
        PROVE  call'[c].pc # "idle"
    <3>1. CASE Ask(d) \/ LockMutex(d) \/ TakePending(d) \/ Sent(d) \/ GivesUp(d)
               \/ AddHole(d)
      BY <2>2, <3>1 DEF Ask, LockMutex, TakePending, Sent, GivesUp, AddHole
    <3>2. CASE ReadPending(d) \/ RpcFails(d) \/ TakeHole(d) \/ TakeNext(d)
      BY <2>1, <3>2 DEF ReadPending, RpcFails, TakeHole, TakeNext
    <3> QED
      BY <2>3, <3>1, <3>2 DEF CallStep
  <2>4. ASSUME NEW d \in Calls, OwnNonce(d) PROVE call'[c].pc # "idle"
    BY <2>1, <2>4 DEF OwnNonce
  <2>5. CASE Restart
    BY <1>1, <2>5 DEF Restart, Ended
  <2>6. ASSUME \/ UNCHANGED vars \/ \E d \in Calls : LandsLate(d)
               \/ \E a \in Accounts : Outsider(a)
        PROVE  call'[c].pc # "idle"
    BY <1>1, <2>6 DEF vars, Outsider, LandsLate
  <2> QED
    BY <2>3, <2>4, <2>5, <2>6 DEF Next
<1>2. ASSUME NEW c \in Calls, OwnNonce(c) PROVE FALSE
  <2>1. call'[c].pc = "hold" /\ c \in OwnCalls
    BY <1>0, <1>2 DEF OwnNonce, GotoWith
  <2> QED
    BY <2>1 DEF NoOwnNonce, At
<1>3. ASSUME NEW c \in OwnCalls PROVE At(c, "idle")
  BY <1>1, <1>3, NonceAssumption DEF OwnCalls, NoOwnNonce, At
<1> QED
  BY <1>2, <1>3 DEF NoOwnNonce

(* As long as no user brought a nonce, every part of Places holds.         *)
LEMMA PlacesAlways == Spec => [](Basic /\ (NoOwnNonce => Places))
<1>1. Basic /\ (NoOwnNonce => Places) /\ [Next]_vars
        => (Basic /\ (NoOwnNonce => Places))'
  BY BasicStep, OwnStays, PlacesStep
<1>2. Init => Basic /\ Places
  BY PlacesInit, BasicInit
<1> QED
  BY <1>1, <1>2, PTL DEF Spec

LEMMA PlacesImply ==
  Places => NonceIsInOnePlace /\ NoGap /\ OnlyStraysAreReused
<1> SUFFICES ASSUME Places PROVE NonceIsInOnePlace /\ NoGap /\ OnlyStraysAreReused
  OBVIOUS
<1> USE DEF Places
<1>1. \A a \in Accounts : HoleSet(a) = Elems(holes[a])
  BY DEF HoleSet, Elems
<1>2. NonceIsInOnePlace
  BY <1>1 DEF OnePlace, NonceIsInOnePlace, Has, Injective
<1>3. NoGap
  <2>1. \A a \in Accounts : \A n : Cover(a, n) =>
          \/ n \in accepted[a] \cup HoleSet(a) \cup Lost(a)
          \/ \E c \in Calls : Has(c, a, n)
    BY <1>1 DEF Cover, Lost
  <2> QED
    BY <2>1 DEF Covered, NoGap
<1>4. OnlyStraysAreReused
  BY <1>1 DEF ReusedStray, OnlyStraysAreReused, Has
<1> QED
  BY <1>2, <1>3, <1>4

(* A nonce is with one live call, or once in the list of holes.            *)
THEOREM OneHolder == Spec => []NonceIsInOnePlace
<1>1. (NoOwnNonce => Places) => NonceIsInOnePlace
  BY PlacesImply DEF NonceIsInOnePlace
<1> QED
  BY <1>1, PlacesAlways, PTL

(* No nonce that was handed out is forgotten, but by a BTC redeem.         *)
THEOREM NothingForgotten == Spec => []NoGap
<1>1. (NoOwnNonce => Places) => NoGap
  BY PlacesImply DEF NoGap
<1> QED
  BY <1>1, PlacesAlways, PTL

(* Only what reached the node behind the process's back is used twice.     *)
THEOREM ReuseIsStray == Spec => []OnlyStraysAreReused
<1>1. (NoOwnNonce => Places) => OnlyStraysAreReused
  BY PlacesImply DEF OnlyStraysAreReused
<1> QED
  BY <1>1, PlacesAlways, PTL
-----------------------------------------------------------------------------
(* The manager serves as NonceDesk promises.                               *)

Leases == [c \in Calls |-> LeaseOf(c)]
HoleSets == [a \in Accounts |-> HoleSet(a)]

(* A call that goes on changes its own lease only.                         *)
LEMMA LeaseChanges ==
  ASSUME Basic, NEW c \in Calls, NEW r, call' = [call EXCEPT ![c] = r]
  PROVE  Leases' = [Leases EXCEPT ![c] = IF r.pc \in Holding THEN r.nonce ELSE Unknown]
BY DEF Basic, TypeOK, Leases, LeaseOf

(* Goto keeps the nonce, so a lease only starts or ends.                   *)
LEMMA LeaseGoes ==
  ASSUME Basic, NEW c \in Calls, NEW pc, Goto(c, pc)
  PROVE  Leases' = [Leases EXCEPT ![c] = IF pc \in Holding THEN call[c].nonce ELSE Unknown]
<1> DEFINE r == [pc |-> pc, nonce |-> call[c].nonce]
<1>1. [call[c] EXCEPT !.pc = pc] = r
  BY DEF Basic, TypeOK
<1>2. call' = [call EXCEPT ![c] = r]
  BY <1>1 DEF Goto
<1>3. r.pc = pc /\ r.nonce = call[c].nonce
  OBVIOUS
<1> HIDE DEF r
<1> QED
  BY <1>2, <1>3, LeaseChanges

LEMMA HolesChange ==
  ASSUME Basic, NEW a \in Accounts, NEW s, holes' = [holes EXCEPT ![a] = s]
  PROVE  HoleSets' = [HoleSets EXCEPT ![a] = Elems(s)]
BY DEF Basic, TypeOK, HoleSets, HoleSet, Elems

(* What NonceDesk sees, before the first own nonce.                        *)
LEMMA OpenDesk ==
  ASSUME NoOwnNonce
  PROVE  /\ Opened(used, Unknown) = used
         /\ Opened([a \in Accounts |-> HoleSet(a)], {}) = HoleSets
         /\ Opened([c \in Calls |-> LeaseOf(c)], Unknown) = Leases
BY DEF Opened, HoleSets, Leases

LEMMA OpenDeskNext ==
  ASSUME NoOwnNonce'
  PROVE  /\ Opened(used, Unknown)' = used'
         /\ Opened([a \in Accounts |-> HoleSet(a)], {})' = HoleSets'
         /\ Opened([c \in Calls |-> LeaseOf(c)], Unknown)' = Leases'
BY DEF Opened, HoleSets, Leases

LEMMA ClosedDesk ==
  ASSUME Basic, ~ NoOwnNonce
  PROVE  /\ Opened(used, Unknown) = [a \in Accounts |-> Unknown]
         /\ Opened([a \in Accounts |-> HoleSet(a)], {}) = [a \in Accounts |-> {}]
         /\ Opened([c \in Calls |-> LeaseOf(c)], Unknown) = [c \in Calls |-> Unknown]
BY DEF Opened, Basic, TypeOK

(* A call that takes a nonce.                                              *)
LEMMA TakingServes ==
  ASSUME Places, NoOwnNonce, NoOwnNonce', NEW c \in Calls,
         TakePending(c) \/ TakeHole(c) \/ TakeNext(c)
  PROVE  Desk!Serve(c, Account[c])
<1> DEFINE a == Account[c]
<1>1. /\ Basic /\ a \in Accounts /\ call[c].nonce \in Nat
      /\ used[a] \in Nat \cup {Unknown} /\ holes[a] \in Seq(Nat)
      /\ DOMAIN used = Accounts /\ DOMAIN call = Calls
      /\ HoleSets[a] = Elems(holes[a])
  BY NonceAssumption DEF Places, Basic, TypeOK, NonceTyped, HoleSets, HoleSet, Elems,
     TakePending, TakeHole, TakeNext, At
<1>2. Leases[c] = Unknown
  BY DEF Leases, LeaseOf, Holding, At, TakePending, TakeHole, TakeNext
<1> USE OpenDesk, OpenDeskNext
<1>3. CASE TakePending(c)
  <2>1. Goto(c, "hold")
    BY <1>3 DEF TakePending
  <2>2. Leases' = [Leases EXCEPT ![c] = call[c].nonce] /\ Leases'[c] = call[c].nonce
    BY <1>1, <2>1, LeaseGoes DEF Holding, Leases
  <2>3. HoleSets' = [HoleSets EXCEPT ![a] = Elems(<<>>)]
    BY <1>1, <1>3, HolesChange DEF TakePending
  <2>4. HoleSets' = [HoleSets EXCEPT ![a] = {}]
    BY <2>3, EmptyElems
  <2>5. used' = [used EXCEPT ![a] = call[c].nonce] /\ UNCHANGED accepted
    BY <1>3 DEF TakePending, nodeVars
  <2>6. call[c].nonce > used[a]
    BY <1>1, <1>3 DEF TakePending, Ahead, Unknown
  <2>7. 0 .. call[c].nonce - 1 \subseteq accepted[a]
    BY <1>3 DEF TakePending, Places, Bounds
  <2>8. Desk!CatchUp(c, a)
    BY <1>1, <1>2, <2>2, <2>4, <2>5, <2>6, <2>7
       DEF Desk!CatchUp, Desk!Give, Desk!None, Unknown
  <2> QED
    BY <2>8 DEF Desk!Serve
<1>4. CASE TakeHole(c)
  <2>1. Leases' = [Leases EXCEPT ![c] = Head(holes[a])]
    BY <1>1, <1>4, LeaseChanges DEF TakeHole, GotoWith, Holding
  <2>2. HoleSets' = [HoleSets EXCEPT ![a] = Elems(Tail(holes[a]))]
    BY <1>1, <1>4, HolesChange DEF TakeHole
  <2>3. /\ Head(holes[a]) \in HoleSets[a]
        /\ Elems(Tail(holes[a])) = HoleSets[a] \ {Head(holes[a])}
    <3>1. Injective(holes[a]) /\ holes[a] # <<>>
      BY <1>1, <1>4 DEF Places, OnePlace, TakeHole
    <3> QED
      BY <1>1, <3>1, TailElems
  <2>4. UNCHANGED <<used, accepted>>
    BY <1>4 DEF TakeHole, nodeVars
  <2>5. Desk!Refill(c, a)
    <3> DEFINE n == Head(holes[a])
    <3>1. n \in HoleSets[a] /\ HoleSets' = [HoleSets EXCEPT ![a] = @ \ {n}]
      BY <2>2, <2>3
    <3>2. Leases' = [Leases EXCEPT ![c] = n]
      BY <2>1
    <3> HIDE DEF n
    <3> QED
      BY <1>2, <2>4, <3>1, <3>2 DEF Desk!Refill, Desk!Give, Desk!None, Unknown
  <2> QED
    BY <2>5 DEF Desk!Serve
<1>5. CASE TakeNext(c)
  <2>1. Leases' = [Leases EXCEPT ![c] = used[a] + 1]
    BY <1>1, <1>5, LeaseChanges DEF TakeNext, GotoWith, Holding
  <2>2. HoleSets[a] = {} /\ HoleSets' = HoleSets
    BY <1>1, <1>5, EmptyElems DEF TakeNext, HoleSets, HoleSet
  <2>3. used' = [used EXCEPT ![a] = @ + 1] /\ UNCHANGED accepted
    BY <1>5 DEF TakeNext, nodeVars
  <2>4. Desk!Issue(c, a)
    BY <1>1, <1>2, <2>1, <2>2, <2>3 DEF Desk!Issue, Desk!Give, Desk!None, Unknown
  <2> QED
    BY <2>4 DEF Desk!Serve
<1> QED
  BY <1>3, <1>4, <1>5

(* A call that sends with its nonce, or gives it back.                     *)
LEMMA EndingServes ==
  ASSUME Places, NoOwnNonce, NoOwnNonce', NEW c \in Calls, Sent(c) \/ AddHole(c)
  PROVE  Desk!Serve(c, Account[c])
<1> DEFINE a == Account[c]
<1>1. /\ Basic /\ a \in Accounts /\ call[c].nonce \in Nat /\ used[a] \in Nat
      /\ DOMAIN accepted = Accounts /\ holes[a] \in Seq(Nat)
      /\ HoleSets[a] = Elems(holes[a]) /\ Elems(holes[a]) = HoleSet(a)
  BY NonceAssumption DEF Places, Basic, Bounds, TypeOK, NonceTyped, HoleSets, HoleSet, Elems,
     Sent, AddHole, At, Holding
<1>2. Leases[c] = call[c].nonce /\ Leases[c] # Unknown
  BY <1>1 DEF Leases, LeaseOf, Holding, At, Sent, AddHole, Unknown
<1> USE OpenDesk, OpenDeskNext
<1>3. CASE Sent(c)
  <2>1. Leases' = [Leases EXCEPT ![c] = Unknown]
    BY <1>1, <1>3, LeaseGoes DEF Sent, Holding
  <2>2. UNCHANGED <<used, HoleSets>>
    BY <1>3 DEF Sent, managerVars, HoleSets, HoleSet
  <2>3. accepted' = [accepted EXCEPT ![a] = @ \cup {call[c].nonce}]
    BY <1>3 DEF Sent, Lands
  <2>4. Desk!Spend(c, a)
    BY <1>2, <2>1, <2>2, <2>3 DEF Desk!Spend, Desk!TakeBack, Desk!None, Unknown
  <2> QED
    BY <2>4 DEF Desk!Serve
<1>4. CASE AddHole(c)
  <2>1. Leases' = [Leases EXCEPT ![c] = Unknown] /\ UNCHANGED <<used, accepted>>
    BY <1>1, <1>4, LeaseGoes DEF AddHole, Holding, nodeVars
  <2>2. CASE c \in BtcRedeems
    <3>1. UNCHANGED HoleSets
      BY <1>4, <2>2 DEF AddHole, HoleSets, HoleSet
    <3>2. Desk!Lose(c)
      BY <1>2, <2>1, <2>2, <3>1 DEF Desk!Lose, Desk!TakeBack, Desk!None, Unknown
    <3> QED
      BY <3>2 DEF Desk!Serve
  <2>3. CASE c \notin BtcRedeems
    <3>1. call[c].nonce \notin HoleSet(a)
      BY <1>1, <1>4 DEF Places, OnePlace, AddHole, At, Holding
    <3>2. holes' = [holes EXCEPT ![a] = Append(@, call[c].nonce)]
      BY <1>1, <1>4, <2>3, <3>1 DEF AddHole, Unknown
    <3>3. holes' = [holes EXCEPT ![a] = Append(holes[a], call[c].nonce)]
      BY <3>2
    <3>4. Elems(Append(holes[a], call[c].nonce)) = HoleSets[a] \cup {call[c].nonce}
      BY <1>1, AppendElems
    <3>5. HoleSets' = [HoleSets EXCEPT ![a] = Elems(Append(holes[a], call[c].nonce))]
      BY <1>1, <3>3, HolesChange
    <3>6. HoleSets' = [HoleSets EXCEPT ![a] = @ \cup {call[c].nonce}]
      BY <3>4, <3>5
    <3>7. Desk!Return(c, a)
      BY <1>2, <2>1, <3>6 DEF Desk!Return, Desk!TakeBack, Desk!None, Unknown
    <3> QED
      BY <3>7 DEF Desk!Serve
  <2> QED
    BY <2>2, <2>3
<1> QED
  BY <1>3, <1>4

(* The node gets at most one nonce in a step, of one account.              *)
LEMMA NodeGrows ==
  ASSUME Basic, [Next]_vars
  PROVE  \/ UNCHANGED accepted
         \/ \E a \in Accounts : /\ accepted[a] \subseteq accepted'[a]
                               /\ accepted'[a] \subseteq Nat
                               /\ accepted' = [accepted EXCEPT ![a] = accepted'[a]]
<1>1. ASSUME NEW a \in Accounts, NEW n \in Nat, Lands(a, n)
      PROVE  /\ accepted[a] \subseteq accepted'[a] /\ accepted'[a] \subseteq Nat
             /\ accepted' = [accepted EXCEPT ![a] = accepted'[a]]
  BY <1>1 DEF Lands, Basic, TypeOK
<1>2. \A c \in Calls : Account[c] \in Accounts
  BY NonceAssumption
<1>3. ASSUME NEW c \in Calls, Sent(c) \/ LandsLate(c)
      PROVE  Lands(Account[c], call[c].nonce) /\ call[c].nonce \in Nat
  BY <1>3 DEF Sent, LandsLate, Basic, NonceTyped, At, Holding
<1>4. ASSUME NEW a \in Accounts, Outsider(a) PROVE \E n \in Nat : Lands(a, n)
  BY <1>4 DEF Outsider, Basic, TypeOK
<1>5. ASSUME NEW c \in Calls,
             \/ Ask(c) \/ OwnNonce(c) \/ LockMutex(c) \/ ReadPending(c) \/ RpcFails(c)
             \/ TakePending(c) \/ TakeHole(c) \/ TakeNext(c) \/ GivesUp(c) \/ AddHole(c)
      PROVE  UNCHANGED accepted
  BY <1>5 DEF Ask, OwnNonce, LockMutex, ReadPending, RpcFails, TakePending, TakeHole,
     TakeNext, GivesUp, AddHole, nodeVars
<1>6. CASE Restart \/ UNCHANGED vars
  BY <1>6 DEF Restart, vars, nodeVars
<1> QED
  BY <1>1, <1>2, <1>3, <1>4, <1>5, <1>6 DEF Next, CallStep

(* Only a call that brings its own nonce closes the desks.                 *)
LEMMA OpenStays ==
  ASSUME Basic, NoOwnNonce, [Next]_vars, \A c \in Calls : ~ OwnNonce(c)
  PROVE  NoOwnNonce'
<1>1. SUFFICES ASSUME NEW d \in OwnCalls PROVE call'[d].pc = "idle"
  BY DEF NoOwnNonce, At
<1>2. d \in Calls /\ call[d].pc = "idle" /\ DOMAIN call = Calls
  BY NonceAssumption DEF NoOwnNonce, At, Basic, TypeOK, OwnCalls
<1>3. ASSUME NEW c \in Calls, c # d,
             \/ \E pc : Goto(c, pc)
             \/ \E pc, n : GotoWith(c, pc, n)
      PROVE  call'[d] = call[d]
  BY <1>2, <1>3 DEF Goto, GotoWith
<1>4. ASSUME NEW c \in Calls, Ask(c) \/ CallStep(c) PROVE call'[d] = call[d]
  <2>1. c # d
    BY <1>2, <1>4 DEF Ask, CallStep, LockMutex, ReadPending, RpcFails, TakePending,
       TakeHole, TakeNext, Sent, GivesUp, AddHole, At, Asking
  <2>2. (\E pc : Goto(c, pc)) \/ \E pc, n : GotoWith(c, pc, n)
    BY <1>4 DEF Ask, CallStep, LockMutex, ReadPending, RpcFails, TakePending,
       TakeHole, TakeNext, Sent, GivesUp, AddHole
  <2> QED
    BY <1>3, <2>1, <2>2
<1>5. ASSUME (\E c \in Calls : LandsLate(c)) \/ (\E a \in Accounts : Outsider(a))
             \/ UNCHANGED vars
      PROVE  call'[d] = call[d]
  BY <1>5 DEF LandsLate, Outsider, vars
<1>6. CASE Restart
  BY <1>2, <1>6 DEF Restart
<1> QED
  BY <1>2, <1>4, <1>5, <1>6 DEF Next

(* Whatever else a call does, the desks do not notice.                     *)
LEMMA QuietSteps ==
  ASSUME Basic, NEW c \in Calls,
         Ask(c) \/ LockMutex(c) \/ ReadPending(c) \/ RpcFails(c) \/ GivesUp(c)
  PROVE  UNCHANGED <<used, HoleSets, Leases, accepted>>
<1>1. UNCHANGED <<used, HoleSets, accepted>>
  BY DEF Ask, LockMutex, ReadPending, RpcFails, GivesUp, managerVars, nodeVars,
     HoleSets, HoleSet
<1>2. CASE GivesUp(c)
  <2>1. Leases[c] = call[c].nonce
    BY <1>2 DEF GivesUp, At, Leases, LeaseOf, Holding
  <2>2. Leases' = [Leases EXCEPT ![c] = call[c].nonce]
    BY <1>2, LeaseGoes DEF GivesUp, Holding
  <2> QED
    BY <1>1, <2>1, <2>2 DEF Leases
<1>3. CASE ~ GivesUp(c)
  <2>1. Leases[c] = Unknown
    BY <1>3 DEF Ask, LockMutex, ReadPending, RpcFails, At, Asking, Leases, LeaseOf, Holding
  <2>2. CASE Ask(c) \/ LockMutex(c)
    <3>1. PICK pc \in {"wait", "asking"} : Goto(c, pc)
      BY <2>2 DEF Ask, LockMutex
    <3>2. pc \notin Holding
      BY <3>1 DEF Holding
    <3>3. Leases' = [Leases EXCEPT ![c] = Unknown]
      BY <3>1, <3>2, LeaseGoes
    <3> QED
      BY <1>1, <2>1, <3>3 DEF Leases
  <2>3. CASE ReadPending(c) \/ RpcFails(c)
    <3>1. PICK pc \in {"answered", "failed"} : \E n : GotoWith(c, pc, n)
      BY <2>3 DEF ReadPending, RpcFails
    <3>2. PICK n : call' = [call EXCEPT ![c] = [pc |-> pc, nonce |-> n]]
      BY <3>1 DEF GotoWith
    <3>3. [pc |-> pc, nonce |-> n].pc \notin Holding
      BY <3>1 DEF Holding
    <3>4. Leases' = [Leases EXCEPT ![c] = Unknown]
      BY <3>2, <3>3, LeaseChanges
    <3> QED
      BY <1>1, <2>1, <3>4 DEF Leases
  <2> QED
    BY <1>3, <2>2, <2>3
<1> QED
  BY <1>2, <1>3

(* A step of the manager is one of the desks, or they do not notice.       *)
LEMMA OpenDeskStep ==
  ASSUME Places, NoOwnNonce, NoOwnNonce', [Next]_vars
  PROVE  [Desk!Next]_(Desk!deskVars)
<1> USE OpenDesk, OpenDeskNext
<1>0. Basic
  BY DEF Places
<1>1. ASSUME UNCHANGED <<used, HoleSets, Leases, accepted>>
      PROVE  UNCHANGED Desk!deskVars
  BY <1>1 DEF Desk!deskVars
<1>2. ASSUME NEW c \in Calls, Desk!Serve(c, Account[c]) PROVE Desk!Next
  BY <1>2 DEF Desk!Next
<1>3. ASSUME NEW c \in Calls, Ask(c) \/ CallStep(c)
      PROVE  [Desk!Next]_(Desk!deskVars)
  BY <1>0, <1>1, <1>2, <1>3, QuietSteps, TakingServes, EndingServes DEF CallStep
<1>4. ASSUME UNCHANGED <<used, HoleSets, Leases>>
      PROVE  [Desk!Next]_(Desk!deskVars)
  <2>1. CASE UNCHANGED accepted
    BY <1>1, <1>4, <2>1
  <2>2. ASSUME NEW a \in Accounts, accepted[a] \subseteq accepted'[a],
               accepted'[a] \subseteq Nat, accepted' = [accepted EXCEPT ![a] = accepted'[a]]
        PROVE  Desk!Next
    <3>1. Desk!Arrive(a)
      BY <1>4, <2>2 DEF Desk!Arrive
    <3> QED
      BY <3>1 DEF Desk!Next
  <2> QED
    BY <1>0, <2>1, <2>2, NodeGrows
<1>5. ASSUME (\E c \in Calls : LandsLate(c)) \/ (\E a \in Accounts : Outsider(a))
             \/ UNCHANGED vars
      PROVE  UNCHANGED <<used, HoleSets, Leases>>
  <2>1. UNCHANGED <<used, holes, call>>
    BY <1>5 DEF LandsLate, Outsider, vars, managerVars
  <2> QED
    BY <2>1 DEF HoleSets, HoleSet, Leases, LeaseOf
<1>6. CASE Restart
  <2>1. used' = [a \in Accounts |-> Unknown] /\ UNCHANGED accepted
    BY <1>6 DEF Restart
  <2>2. HoleSets' = [a \in Accounts |-> {}]
    BY <1>6, EmptyElems DEF Restart, HoleSets, HoleSet, Elems
  <2>3. Leases' = [c \in Calls |-> Unknown]
    BY <1>0, <1>6 DEF Restart, Leases, LeaseOf, Basic, TypeOK, Holding, Asking, Ended
  <2>4. Desk!Close
    BY <2>1, <2>2, <2>3 DEF Desk!Close, Desk!None, Unknown
  <2> QED
    BY <2>4 DEF Desk!Next
<1>7. ~ \E c \in Calls : OwnNonce(c)
  BY <1>0, OwnStays
<1> QED
  BY <1>3, <1>4, <1>5, <1>6, <1>7 DEF Next

LEMMA ClosedDeskStep ==
  ASSUME Basic, Basic', ~ NoOwnNonce', [Next]_vars
  PROVE  [Desk!Next]_(Desk!deskVars)
<1>1. /\ Opened(used, Unknown)' = [a \in Accounts |-> Unknown]
      /\ Opened([a \in Accounts |-> HoleSet(a)], {})' = [a \in Accounts |-> {}]
      /\ Opened([c \in Calls |-> LeaseOf(c)], Unknown)' = [c \in Calls |-> Unknown]
  BY DEF Opened, Basic, TypeOK
<1>2. CASE NoOwnNonce
  <2>1. PICK c \in Calls : OwnNonce(c)
    BY <1>2, OpenStays
  <2>2. UNCHANGED accepted
    BY <2>1 DEF OwnNonce, nodeVars
  <2>3. Desk!Close
    BY <1>1, <2>2 DEF Desk!Close, Desk!None, Unknown
  <2> QED
    BY <2>3 DEF Desk!Next
<1>3. CASE ~ NoOwnNonce
  <2>1. CASE UNCHANGED accepted
    BY <1>1, <1>3, <2>1, ClosedDesk DEF Desk!deskVars
  <2>2. ASSUME NEW a \in Accounts, accepted[a] \subseteq accepted'[a],
               accepted'[a] \subseteq Nat, accepted' = [accepted EXCEPT ![a] = accepted'[a]]
        PROVE  Desk!Next
    <3>1. Desk!Arrive(a)
      BY <1>1, <1>3, <2>2, ClosedDesk DEF Desk!Arrive
    <3> QED
      BY <3>1 DEF Desk!Next
  <2> QED
    BY <2>1, <2>2, NodeGrows
<1> QED
  BY <1>2, <1>3

(* The manager implements NonceDesk: a nonce has one holder, what is       *)
(* brought back is handed out before a new one, and the count only jumps   *)
(* when the node already has everything below.                             *)
THEOREM ManagerServesAsDesk == Spec => ServesAsDesk
<1>1. Init => Desk!Init
  <2>1. SUFFICES ASSUME Init PROVE Desk!Init
    OBVIOUS
  <2>2. NoOwnNonce
    BY <2>1, NonceAssumption DEF Init, NoOwnNonce, OwnCalls, At
  <2>3. /\ used = [a \in Accounts |-> Unknown] /\ accepted = [a \in Accounts |-> {}]
        /\ HoleSets = [a \in Accounts |-> {}] /\ Leases = [c \in Calls |-> Unknown]
    BY <2>1 DEF Init, HoleSets, HoleSet, Leases, LeaseOf, Holding
  <2> QED
    BY <2>2, <2>3, OpenDesk DEF Desk!Init, Desk!None, Unknown
<1>2. /\ Basic /\ (NoOwnNonce => Places) /\ (Basic /\ (NoOwnNonce => Places))'
      /\ [Next]_vars
      => [Desk!Next]_(Desk!deskVars)
  BY OpenDeskStep, ClosedDeskStep, OwnStays
<1> QED
  BY <1>1, <1>2, PlacesAlways, PTL DEF Spec, ServesAsDesk, Desk!Spec
=============================================================================
