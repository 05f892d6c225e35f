----------------------------- MODULE HtlcChains -----------------------------
(***************************************************************************)
(* The two chains and the storeman group of one cross-chain trade, as the  *)
(* SDK sees them: EXTERNAL to src/.  The user locks on the source chain    *)
(* with the hash of a secret x, the storeman group locks on the            *)
(* destination chain, the user redeems there by showing x, the storeman    *)
(* then claims the source lock; a lock that times out can be revoked.  The *)
(* transactions are those signed by the calls of CrossTx, one each, so a   *)
(* call names its own transaction.  Both chains and Date.now() of the SDK  *)
(* share the clock `now` (seconds in the code).                            *)
(***************************************************************************)
EXTENDS Integers

CONSTANTS LockCall,     \* the invoke(.., 'LOCK', ..) that begins the trade
          RedeemCalls,  \* the invoke(.., 'REDEEM', ..) the wallet may make
          RevokeCalls,  \* the invoke(.., 'REVOKE', ..) the wallet may make
          T,            \* global.lockedTime: one lock period
          MaxStart      \* bound: the source lock is mined at this time at most

ASSUME ChainAssumption ==
  /\ T \in Nat \ {0}
  /\ MaxStart \in Nat
  /\ LockCall \notin RedeemCalls \cup RevokeCalls
  /\ RedeemCalls \cap RevokeCalls = {}

Calls == {LockCall} \cup RedeemCalls \cup RevokeCalls

VARIABLES now,  \* the clock
          src,  \* the source chain's HTLC entry for the hash of x
          dst,  \* the destination chain's HTLC entry for the hash of x
          tx    \* what became of each call's signed transaction

chainVars == <<now, src, dst, tx>>

ChainTypeOK ==
  /\ now \in Nat
  /\ src \in [state: {"none", "locked", "claimed", "revoked"}, time: Nat]
  /\ dst \in [state: {"none", "locked", "redeemed", "revoked"}, time: Nat,
              equal: BOOLEAN]
  /\ tx \in [Calls -> {"unsent", "pending", "ok", "fail"}]

ChainInit ==
  /\ now = 0
  /\ src = [state |-> "none", time |-> 0]
  /\ dst = [state |-> "none", time |-> 0, equal |-> TRUE]
  /\ tx = [u \in Calls |-> "unsent"]

(* The first instant at which nothing of the protocol depends on the clock  *)
(* any more: the clock of the model stops there.                            *)
Horizon == IF src.state = "none" THEN MaxStart ELSE src.time + 2 * T + 1

Tick ==
  /\ now < Horizon
  /\ now' = now + 1
  /\ UNCHANGED <<src, dst, tx>>

(* A node that accepts a signed transaction keeps it; a second copy of it   *)
(* changes nothing.                                                         *)
Accepted(u) == [tx EXCEPT ![u] = IF @ = "unsent" THEN "pending" ELSE @]

MineLock ==
  /\ tx[LockCall] = "pending"
  /\ src' = [state |-> "locked", time |-> now]
  /\ tx' = [tx EXCEPT ![LockCall] = "ok"]
  /\ UNCHANGED <<now, dst>>

MineRedeem(u) ==
  /\ u \in RedeemCalls /\ tx[u] = "pending"
  /\ dst.state = "locked" /\ now < dst.time + T
  /\ dst' = [dst EXCEPT !.state = "redeemed"]
  /\ tx' = [tx EXCEPT ![u] = "ok"]
  /\ UNCHANGED <<now, src>>

MineRevoke(u) ==
  /\ u \in RevokeCalls /\ tx[u] = "pending"
  /\ src.state = "locked" /\ now >= src.time + 2 * T
  /\ src' = [src EXCEPT !.state = "revoked"]
  /\ tx' = [tx EXCEPT ![u] = "ok"]
  /\ UNCHANGED <<now, dst>>

(* Refused by the contract, or out of gas.                                  *)
MineFailed(u) ==
  /\ tx[u] = "pending"
  /\ tx' = [tx EXCEPT ![u] = "fail"]
  /\ UNCHANGED <<now, src, dst>>

Mine(u) == \/ u = LockCall /\ MineLock
           \/ MineRedeem(u)
           \/ MineRevoke(u)
           \/ MineFailed(u)

(* The storeman group answers a lock within its first period, with the      *)
(* locked value or, misbehaving, with another one.                          *)
StoremanLock(equal) ==
  /\ src.state = "locked" /\ dst.state = "none" /\ now <= src.time + T
  /\ dst' = [state |-> "locked", time |-> now, equal |-> equal]
  /\ UNCHANGED <<now, src, tx>>

StoremanClaim ==
  /\ dst.state = "redeemed" /\ src.state = "locked"
  /\ src' = [src EXCEPT !.state = "claimed"]
  /\ UNCHANGED <<now, dst, tx>>

StoremanRevoke ==
  /\ dst.state = "locked" /\ now >= dst.time + T
  /\ dst' = [dst EXCEPT !.state = "revoked"]
  /\ UNCHANGED <<now, src, tx>>

Chain == \/ Tick
         \/ \E u \in Calls : Mine(u)
         \/ \E equal \in BOOLEAN : StoremanLock(equal)
         \/ StoremanClaim
         \/ StoremanRevoke
=============================================================================
