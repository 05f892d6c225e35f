---------------------------- MODULE NonceManager ----------------------------
(***************************************************************************)
(* The nonces of ETH and WAN accounts: getNonceByLocal and                 *)
(* addNonceHoleToList of api/ccUtil.js and the calls that use them.  Each  *)
(* run() of a transaction takes a nonce, signs, sends, and gives the nonce *)
(* back when it fails; what is given back is a hole to fill, or the node   *)
(* would queue every later transaction of the account for ever.  One       *)
(* global mutex, polled every 3 ms, is held across the call to the API     *)
(* server.  An action is the code between two awaits.                      *)
(*                                                                         *)
(* The node, the server and other wallets are external: accepted, wire     *)
(* and stray.                                                              *)
(***************************************************************************)
EXTENDS Integers, Sequences

CONSTANTS Calls,       \* the calls of run() that need a nonce
          Accounts,    \* the pairs of a chain and an address
          Account,     \* the account a call sends from
          Creator,     \* the data creator of a call, one of Creators
          NonceGiven,  \* the calls whose input has a nonce
          OwnNonces,   \* the nonces users put into an input
          MaxOutside,  \* bound: transactions of other wallets
          MaxCrashes   \* bound: restarts of the wallet

(* createCommonData of the cross-chain calls: the input's own nonce first, *)
(* or always the manager's; a BTC redeem asks for a nonce of WAN, while    *)
(* its input says BTC.  (The EOS calls only need one on WAN.)              *)
LockTxEth == "ownFirst"
RedeemTxEth == "ownFirst"
RevokeTxEth == "ownFirst"
ApproveTxE20 == "manager"
LockTxE20 == "manager"
RedeemTxE20 == "manager"
RevokeTxE20 == "manager"
ApproveTxEos == "manager"
LockTxEos == "manager"
RedeemTxEos == "manager"
RevokeTxEos == "manager"
LockNotice == "manager"
RedeemTxBtc == "managerOfWan"
LockTxWbtc == "ownFirst"
RevokeTxWbtc == "manager"

Creators ==
  {LockTxEth, RedeemTxEth, RevokeTxEth,
   ApproveTxE20, LockTxE20, RedeemTxE20, RevokeTxE20,
   ApproveTxEos, LockTxEos, RedeemTxEos, RevokeTxEos,
   LockNotice, RedeemTxBtc, LockTxWbtc, RevokeTxWbtc}

(* `input.nonce ||`: 0 does not count.                                     *)
ASSUME NonceAssumption ==
  /\ Account \in [Calls -> Accounts]
  /\ Creator \in [Calls -> Creators]
  /\ NonceGiven \subseteq Calls
  /\ OwnNonces \subseteq Nat \ {0}
  /\ MaxOutside \in Nat /\ MaxCrashes \in Nat

OwnCalls == {c \in NonceGiven : Creator[c] = "ownFirst"}
BtcRedeems == {c \in Calls : Creator[c] = "managerOfWan"}

VARIABLES mutex,     \* global.mutexNonce
          used,      \* usedPendingNonce of an account, or Unknown
          holes,     \* nonceHoleList of an account
          call,      \* the calls: where they are, and their nonce
          accepted,  \* the nonces of an account the node has
          wire,      \* calls that ended whose transaction may still arrive
          stray,     \* nonces the node has and this process never saw accepted
          outside, crashes

managerVars == <<mutex, used, holes>>
nodeVars == <<accepted, wire, stray>>
vars == <<managerVars, call, nodeVars, outside, crashes>>

Unknown == -1

Asking == {"asking", "answered"}
Holding == {"hold", "giveback"}
Ended == {"done", "failed", "dead"}

(* Every variable keeps its type: no hole is the Number() of nothing.      *)
TypeOK ==
  /\ mutex \in BOOLEAN
  /\ used \in [Accounts -> Nat \cup {Unknown}]
  /\ holes \in [Accounts -> Seq(Nat)]
  /\ call \in [Calls -> [pc: {"idle", "wait"} \cup Asking \cup Holding \cup Ended,
                         nonce: Nat \cup {Unknown}]]
  /\ accepted \in [Accounts -> SUBSET Nat]
  /\ wire \subseteq Calls
  /\ stray \in [Accounts -> SUBSET Nat]
  /\ outside \in 0 .. MaxOutside /\ crashes \in 0 .. MaxCrashes

At(c, pc) == call[c].pc = pc
Goto(c, pc) == call' = [call EXCEPT ![c].pc = pc]
GotoWith(c, pc, n) == call' = [call EXCEPT ![c] = [pc |-> pc, nonce |-> n]]

HoleSet(a) == {holes[a][i] : i \in 1 .. Len(holes[a])}

(* The pending nonce of an account: the first one the node does not have.  *)
IsPending(a, n) ==
  /\ n \in {0} \cup {k + 1 : k \in accepted[a]}
  /\ n \notin accepted[a]
  /\ \A k \in 0 .. n - 1 : k \in accepted[a]

Lands(a, n) == accepted' = [accepted EXCEPT ![a] = @ \cup {n}]
Strays(a, S) == stray' = [stray EXCEPT ![a] = @ \cup S]

-----------------------------------------------------------------------------
(* getNonceByLocal.                                                        *)

Ask(c) ==
  /\ At(c, "idle") /\ c \notin OwnCalls
  /\ Goto(c, "wait")
  /\ UNCHANGED <<managerVars, nodeVars, outside, crashes>>

(* `input.nonce ||`: the manager is not asked.                             *)
OwnNonce(c) ==
  /\ At(c, "idle") /\ c \in OwnCalls
  /\ \E n \in OwnNonces : GotoWith(c, "hold", n)
  /\ UNCHANGED <<managerVars, nodeVars, outside, crashes>>

(* lockMutex: the test and the assignment are in one continuation.  The    *)
(* call to the server follows.                                             *)
LockMutex(c) ==
  /\ At(c, "wait") /\ ~ mutex
  /\ mutex' = TRUE
  /\ Goto(c, "asking")
  /\ UNCHANGED <<used, holes, nodeVars, outside, crashes>>

(* getNonceIncludePending at the server; the answer arrives later.         *)
ReadPending(c) ==
  /\ At(c, "asking")
  /\ \E n \in {0} \cup {k + 1 : k \in accepted[Account[c]]} :
       IsPending(Account[c], n) /\ GotoWith(c, "answered", n)
  /\ UNCHANGED <<managerVars, nodeVars, outside, crashes>>

RpcFailsLocked(c) ==
  /\ call[c].pc \in Asking
  /\ GotoWith(c, "failed", Unknown)
  /\ UNCHANGED <<managerVars, nodeVars, outside, crashes>>

RpcFailsGivesBack(c) ==
  /\ call[c].pc \in Asking
  /\ mutex' = FALSE
  /\ GotoWith(c, "giveback", Unknown)
  /\ UNCHANGED <<used, holes, nodeVars, outside, crashes>>

(* An error, or the timeout of 300 s: the call ends, and as it has no      *)
(* commonData yet there is no nonce to give back.                          *)
RpcFails(c) ==
  /\ call[c].pc \in Asking
  /\ mutex' = FALSE
  /\ GotoWith(c, "failed", Unknown)
  /\ UNCHANGED <<used, holes, nodeVars, outside, crashes>>

AheadOrEqual(a, n) == used[a] = Unknown \/ n >= used[a]

(* The node is ahead of what was handed out, or the account is new here.   *)
Ahead(a, n) == used[a] = Unknown \/ n >= used[a] + 1

TakePendingKeepsHoles(c) ==
  LET a == Account[c]
      n == call[c].nonce IN
  /\ At(c, "answered") /\ Ahead(a, n)
  /\ used' = [used EXCEPT ![a] = n]
  /\ mutex' = FALSE
  /\ Goto(c, "hold")
  /\ UNCHANGED <<holes, nodeVars, outside, crashes>>

TakePending(c) ==
  LET a == Account[c]
      n == call[c].nonce IN
  /\ At(c, "answered") /\ Ahead(a, n)
  /\ used' = [used EXCEPT ![a] = n]
  /\ holes' = [holes EXCEPT ![a] = <<>>]
  /\ mutex' = FALSE
  /\ Goto(c, "hold")
  /\ UNCHANGED <<nodeVars, outside, crashes>>

TakeHole(c) ==
  LET a == Account[c] IN
  /\ At(c, "answered") /\ ~ Ahead(a, call[c].nonce) /\ holes[a] # <<>>
  /\ GotoWith(c, "hold", Head(holes[a]))
  /\ holes' = [holes EXCEPT ![a] = Tail(@)]
  /\ mutex' = FALSE
  /\ UNCHANGED <<used, nodeVars, outside, crashes>>

TakeNext(c) ==
  LET a == Account[c] IN
  /\ At(c, "answered") /\ ~ Ahead(a, call[c].nonce) /\ holes[a] = <<>>
  /\ GotoWith(c, "hold", used[a] + 1)
  /\ used' = [used EXCEPT ![a] = @ + 1]
  /\ mutex' = FALSE
  /\ UNCHANGED <<holes, nodeVars, outside, crashes>>

-----------------------------------------------------------------------------
(* The call signs and sends: CrossChain.run().                             *)

Sent(c) ==
  /\ At(c, "hold")
  /\ Lands(Account[c], call[c].nonce)
  /\ Goto(c, "done")
  /\ UNCHANGED <<managerVars, wire, stray, outside, crashes>>

GivesUpSilently(c) ==
  /\ At(c, "hold")
  /\ Goto(c, "failed")
  /\ wire' \in {wire, wire \cup {c}}
  /\ UNCHANGED <<managerVars, accepted, stray, outside, crashes>>

(* A step before the sending fails, or every try of sendTrans rejects: then *)
(* a copy may still be on its way.                                         *)
GivesUp(c) ==
  /\ At(c, "hold")
  /\ Goto(c, "giveback")
  /\ wire' \in {wire, wire \cup {c}}
  /\ UNCHANGED <<managerVars, accepted, stray, outside, crashes>>

(* addNonceHoleToList: the mutex is only held within this continuation.  A *)
(* BTC redeem looks its account up under chainType BTC, where there is     *)
(* none: its nonce is lost.                                                *)
AddHole(c) ==
  LET a == Account[c]
      n == call[c].nonce IN
  /\ At(c, "giveback") /\ ~ mutex
  /\ holes' = IF c \notin BtcRedeems /\ used[a] # Unknown /\ n \notin HoleSet(a)
              THEN [holes EXCEPT ![a] = Append(@, n)]
              ELSE holes
  /\ Goto(c, "failed")
  /\ UNCHANGED <<mutex, used, nodeVars, outside, crashes>>

CallStep(c) ==
  \/ LockMutex(c) \/ ReadPending(c) \/ RpcFails(c)
  \/ TakePending(c) \/ TakeHole(c) \/ TakeNext(c)
  \/ Sent(c) \/ GivesUp(c) \/ AddHole(c)

-----------------------------------------------------------------------------
(* The world around.                                                       *)

(* A transaction arrives whose call has been told otherwise, or is dead.   *)
LandsLate(c) ==
  /\ c \in wire
  /\ wire' = wire \ {c}
  /\ Lands(Account[c], call[c].nonce)
  /\ Strays(Account[c], {call[c].nonce})
  /\ UNCHANGED <<managerVars, call, outside, crashes>>

(* Another wallet with the same key sends a transaction.                   *)
Outsider(a) ==
  /\ outside < MaxOutside
  /\ outside' = outside + 1
  /\ \E n \in {0} \cup {k + 1 : k \in accepted[a]} :
       IsPending(a, n) /\ Lands(a, n) /\ Strays(a, {n})
  /\ UNCHANGED <<managerVars, call, wire, crashes>>

(* WalletCore.init in a new process: the map is empty, the mutex free, and *)
(* nothing is known of what was sent.                                      *)
Restart ==
  /\ crashes < MaxCrashes
  /\ crashes' = crashes + 1
  /\ mutex' = FALSE
  /\ used' = [a \in Accounts |-> Unknown]
  /\ holes' = [a \in Accounts |-> <<>>]
  /\ call' = [c \in Calls |->
               IF call[c].pc \in {"idle"} \cup Ended THEN call[c]
               ELSE [call[c] EXCEPT !.pc = "dead"]]
  /\ wire' = wire \cup {c \in Calls : At(c, "hold")}
  /\ stray' = accepted
  /\ UNCHANGED <<accepted, outside>>

Init ==
  /\ mutex = FALSE
  /\ used = [a \in Accounts |-> Unknown]
  /\ holes = [a \in Accounts |-> <<>>]
  /\ call = [c \in Calls |-> [pc |-> "idle", nonce |-> Unknown]]
  /\ accepted = [a \in Accounts |-> {}]
  /\ wire = {}
  /\ stray = [a \in Accounts |-> {}]
  /\ outside = 0 /\ crashes = 0

Next ==
  \/ \E c \in Calls : Ask(c) \/ OwnNonce(c) \/ CallStep(c) \/ LandsLate(c)
  \/ \E a \in Accounts : Outsider(a)
  \/ Restart

Spec == Init /\ [][Next]_vars

(* The event loop runs every continuation and timer, and every call to the *)
(* server ends within its timeout.                                         *)
FairSpec == Spec /\ \A c \in Calls : WF_vars(CallStep(c))
-----------------------------------------------------------------------------
(* Properties.                                                             *)

(* The mutex is taken exactly while one call talks to the server: nobody   *)
(* releases it for another, and no error leaves it taken.                  *)
MutexIsHeldByOne ==
  /\ mutex <=> \E c \in Calls : call[c].pc \in Asking
  /\ \A c, d \in Calls : call[c].pc \in Asking /\ call[d].pc \in Asking => c = d

Has(c, a, n) == Account[c] = a /\ call[c].pc \in Holding /\ call[c].nonce = n

(* No input has brought its own nonce yet; then the list may hold anything. *)
NoOwnNonce == \A c \in OwnCalls : At(c, "idle")

(* A nonce is in one place: with one live call of its account, or once in  *)
(* the list of holes.                                                      *)
NonceIsInOnePlace ==
  NoOwnNonce =>
    \A a \in Accounts :
      /\ \A c, d \in Calls : Has(c, a, call[d].nonce) /\ Has(d, a, call[d].nonce) => c = d
      /\ \A c \in Calls : \A n \in HoleSet(a) : ~ Has(c, a, n)
      /\ \A i, j \in 1 .. Len(holes[a]) : holes[a][i] = holes[a][j] => i = j

(* The nonces a failed BTC redeem did not give back.                       *)
Lost(a) == {call[c].nonce : c \in {d \in BtcRedeems : Account[d] = a /\ At(d, "failed")}}

(* Every nonce up to the last one handed out has reached the node, or is   *)
(* with a live call, or is a hole that the next call fills; only a BTC     *)
(* redeem loses one.  A nonce missing from all of these would block the    *)
(* account until the wallet restarts.                                      *)
NoGap ==
  NoOwnNonce =>
    \A a \in Accounts : used[a] # Unknown =>
      \A n \in 0 .. used[a] :
        n \in accepted[a] \cup HoleSet(a) \cup Lost(a) \/ \E c \in Calls : Has(c, a, n)

(* A nonce that is handed out or waits to be is not one this process saw   *)
(* accepted: only what reached the node behind its back is used twice.     *)
OnlyStraysAreReused ==
  NoOwnNonce =>
    \A a \in Accounts :
      /\ HoleSet(a) \cap accepted[a] \subseteq stray[a]
      /\ \A c \in Calls : \A n \in accepted[a] : Has(c, a, n) => n \in stray[a]

(* As long as no input has brought its own nonce, the accounts are served  *)
(* by desks as NonceDesk has them; the first own nonce closes the desks.   *)
LeaseOf(c) == IF call[c].pc \in Holding THEN call[c].nonce ELSE Unknown

Opened(f, closed) == IF NoOwnNonce THEN f ELSE [x \in DOMAIN f |-> closed]

Desk == INSTANCE NonceDesk
          WITH Holders <- Calls, Careless <- BtcRedeems,
               top <- Opened(used, Unknown),
               free <- Opened([a \in Accounts |-> HoleSet(a)], {}),
               lease <- Opened([c \in Calls |-> LeaseOf(c)], Unknown),
               node <- accepted
ServesAsDesk == Desk!Spec

(* Whoever asks for a nonce or gives one back comes through, however the   *)
(* calls to the server end.                                                *)
MutexIsServed ==
  \A c \in Calls : call[c].pc \in {"wait", "giveback"}
                     ~> call[c].pc \notin {"wait", "giveback"}
=============================================================================
