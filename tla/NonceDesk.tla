----------------------------- MODULE NonceDesk ------------------------------
(***************************************************************************)
(* What the handing out of nonces promises, whoever does it.  An account   *)
(* has a desk: it leases a nonce to one holder, which spends it or brings  *)
(* it back, and what was brought back is leased again before anything new. *)
(* Desks may close and open again, after which a desk begins with what the *)
(* node lacks.  NonceManager implements this, and ApproveLock, which has   *)
(* one account and neither a server nor restarts, does so too.             *)
(***************************************************************************)
EXTENDS Integers

CONSTANTS Accounts,
          Holders,   \* who asks for nonces
          Account,   \* the account of a holder
          Careless   \* holders that do not bring back what they do not spend

VARIABLES top,    \* the highest nonce handed out since the desk opened
          free,   \* the nonces brought back
          lease,  \* the nonce of each holder
          node    \* the nonces the node has

deskVars == <<top, free, lease, node>>

None == -1

TypeOK ==
  /\ top \in [Accounts -> Nat \cup {None}]
  /\ free \in [Accounts -> SUBSET Nat]
  /\ lease \in [Holders -> Nat \cup {None}]
  /\ node \in [Accounts -> SUBSET Nat]

Init ==
  /\ top = [a \in Accounts |-> None]
  /\ free = [a \in Accounts |-> {}]
  /\ lease = [c \in Holders |-> None]
  /\ node = [a \in Accounts |-> {}]

Give(c, n) == lease[c] = None /\ lease' = [lease EXCEPT ![c] = n]
TakeBack(c) == lease[c] # None /\ lease' = [lease EXCEPT ![c] = None]

Refill(c, a) ==
  /\ \E n \in free[a] : Give(c, n) /\ free' = [free EXCEPT ![a] = @ \ {n}]
  /\ UNCHANGED <<top, node>>

Issue(c, a) ==
  /\ free[a] = {} /\ Give(c, top[a] + 1)
  /\ top' = [top EXCEPT ![a] = @ + 1]
  /\ UNCHANGED <<free, node>>

(* The node is ahead and has everything below the new nonce: nothing that  *)
(* was brought back is of use any more.                                    *)
CatchUp(c, a) ==
  LET n == lease'[c] IN
  /\ n \in Nat /\ n > top[a] /\ 0 .. n - 1 \subseteq node[a]
  /\ Give(c, n)
  /\ top' = [top EXCEPT ![a] = n]
  /\ free' = [free EXCEPT ![a] = {}]
  /\ UNCHANGED node

Return(c, a) ==
  /\ TakeBack(c)
  /\ free' = [free EXCEPT ![a] = @ \cup {lease[c]}]
  /\ UNCHANGED <<top, node>>

Lose(c) ==
  /\ c \in Careless /\ TakeBack(c)
  /\ UNCHANGED <<top, free, node>>

Spend(c, a) ==
  /\ TakeBack(c)
  /\ node' = [node EXCEPT ![a] = @ \cup {lease[c]}]
  /\ UNCHANGED <<top, free>>

(* The node gets a transaction from elsewhere.                             *)
Arrive(a) ==
  /\ node[a] \subseteq node'[a] /\ node'[a] \subseteq Nat
  /\ node' = [node EXCEPT ![a] = node'[a]]
  /\ UNCHANGED <<top, free, lease>>

Close ==
  /\ top' = [a \in Accounts |-> None]
  /\ free' = [a \in Accounts |-> {}]
  /\ lease' = [c \in Holders |-> None]
  /\ UNCHANGED node

Serve(c, a) ==
  Refill(c, a) \/ Issue(c, a) \/ CatchUp(c, a) \/ Return(c, a) \/ Lose(c) \/ Spend(c, a)

Next ==
  \/ \E c \in Holders : Serve(c, Account[c])
  \/ \E a \in Accounts : Arrive(a)
  \/ Close

Spec == Init /\ [][Next]_deskVars
-----------------------------------------------------------------------------
(* Of a nonce there is one: with a holder of its account, or brought back. *)
Exclusive ==
  \A c \in Holders : lease[c] # None =>
    /\ lease[c] \notin free[Account[c]] /\ lease[c] <= top[Account[c]]
    /\ \A d \in Holders : Account[d] = Account[c] /\ lease[d] = lease[c] => d = c

(* With careful holders nothing that was handed out is missing: the node   *)
(* has it, a holder, or the desk.                                          *)
NothingMissing ==
  \A a \in Accounts : \A n \in 0 .. top[a] :
    n \in node[a] \cup free[a] \/ \E c \in Holders : Account[c] = a /\ lease[c] = n
=============================================================================
