------------------------------ MODULE CrossTx -------------------------------
(***************************************************************************)
(* One cross-chain trade of an ETH, ERC20 or EOS token: its record in the  *)
(* wallet's database, the calls CrossChain.run() of LOCK, REDEEM and       *)
(* REVOKE that write the record, and the checks of core/monitor.js that    *)
(* move it on.  Everything runs on one event loop: an action is the code   *)
(* between two awaits.  The monitor starts a check of the record every 13  *)
(* seconds and does not wait for it, so several checks and calls can hold  *)
(* the same record, each behind an answer of the API server that may come  *)
(* late or be an error.                                                    *)
(*                                                                         *)
(* getItem and filterNotContains return the live object of lowdb, so the   *)
(* code sets a field of `mem` at once, and `disk` follows when anything    *)
(* writes the database.  A restart reloads `disk`.                         *)
(***************************************************************************)
EXTENDS HtlcChains

CONSTANTS Checks,      \* bound: the monitor's checks in flight at once
          NoTx,        \* an empty transaction hash
          Standard,    \* tokenStand of the pair, one of TokenStandards
          Inbound,     \* the destination is Wanchain, or else the source
          TryTimes,    \* sdk:config:tryTimes
          MaxFaults,   \* bound: lost answers, refused calls, other errors
          MaxCrashes   \* bound: restarts of the wallet

TokenStandards == {"ETH", "E20", "EOS"}

ASSUME CrossAssumption ==
  /\ NoTx \notin Calls
  /\ Standard \in TokenStandards /\ Inbound \in BOOLEAN
  /\ TryTimes \in Nat \ {0}
  /\ MaxFaults \in Nat
  /\ MaxCrashes \in Nat

VARIABLES mem,      \* the record in lowdb's memory
          disk,     \* the record in the database file
          run,      \* the calls of CrossChain.run()
          check,    \* the checks of the monitor in flight
          faults, crashes

recordVars == <<mem, disk>>
vars == <<chainVars, recordVars, run, check, faults, crashes>>

-----------------------------------------------------------------------------
(* The record.                                                             *)

LockStatus == {"LockSending", "LockSent", "LockFail"}
RedeemStatus == {"RedeemSending", "RedeemSent", "RedeemFail"}
RevokeStatus == {"RevokeSending", "RevokeSent", "RevokeFail"}
Status == LockStatus \cup RedeemStatus \cup RevokeStatus
            \cup {"Locked", "BuddyLocked", "Redeemed", "Revoked"}

NoTime == -1  \* the empty string of htlcTimeOut and buddyLockedTimeOut

Record == [status: Status \cup {"absent"}, lockTx: Calls \cup {NoTx},
           redeemTx: Calls \cup {NoTx}, revokeTx: Calls \cup {NoTx},
           htlcTimeOut: Nat \cup {NoTime},
           buddyLockedTimeOut: Nat \cup {NoTime}]

NoRecord == [status |-> "absent", lockTx |-> NoTx, redeemTx |-> NoTx,
             revokeTx |-> NoTx, htlcTimeOut |-> NoTime,
             buddyLockedTimeOut |-> NoTime]

Exists == mem.status # "absent"

(* insertItem and updateItem: lowdb writes its whole memory to the file.   *)
Save(rec) == mem' = rec /\ disk' = rec

Number(t) == IF t = NoTime THEN 0 ELSE t

LockTimeOut(t) == t + 2 * T

BuddyTimeOut(t) == t + T

CanRedeem(rec) ==
  /\ rec.status \in {"BuddyLocked", "RedeemSent", "RedeemSending", "RedeemFail"}
  /\ now < Number(rec.buddyLockedTimeOut)

(* Two wrong status lists: one admits a lock that is only sent, one forgets *)
(* a failed redemption.                                                    *)
CanRevokeLockSent(rec) ==
  /\ rec.status \in {"BuddyLocked", "Locked", "RedeemSending", "RedeemSent",
                     "RevokeSent", "RevokeSending", "RevokeFail",
                     "RedeemFail", "LockSent"}
  /\ now > Number(rec.htlcTimeOut)

CanRevokeUnlessRedeemed(rec) ==
  /\ rec.status \in {"BuddyLocked", "Locked", "RevokeSent", "RevokeSending",
                     "RevokeFail"}
  /\ now > Number(rec.htlcTimeOut)

CanRevoke(rec) ==
  /\ rec.status \in {"BuddyLocked", "Locked", "RedeemSending", "RedeemSent",
                     "RevokeSent", "RevokeSending", "RevokeFail", "RedeemFail"}
  /\ now > Number(rec.htlcTimeOut)

-----------------------------------------------------------------------------
(* The classes of the calls: what checkPreCondition asks, and the status   *)
(* that preSendTrans, postSendTrans and transFailed write.  (EOS records a *)
(* block number besides, which nothing reads.)                             *)

Class(asks, sending, sent, failed) ==
  [asks |-> asks, sending |-> sending, sent |-> sent, failed |-> failed]

LockClass == Class("nothing", "LockSending", "LockSent", "LockFail")
RedeemClass(asks) ==
  Class(asks, "RedeemSending", "RedeemSent", "RedeemFail")
RevokeClass(asks) ==
  Class(asks, "RevokeSending", "RevokeSent", "RevokeFail")

CrossChainEthLock == LockClass
CrossChainE20Lock == LockClass
CrossChainEosLock == LockClass
CrossChainEthRedeem == RedeemClass("nothing")
CrossChainE20Redeem == RedeemClass("canRedeem")
CrossChainEosRedeem == RedeemClass("canRedeem")
CrossChainEthRevoke == RevokeClass("nothing")
CrossChainE20Revoke == RevokeClass("canRevoke")
CrossChainEosRevoke == RevokeClass("canRevoke")

(* The invoker's tables, by the token's standard, and what it looks up.    *)
Classes(lock, redeem, revoke) ==
  [lock |-> lock, redeem |-> redeem, revoke |-> revoke]

SrcChains ==
  CASE Standard = "ETH" ->
         Classes(CrossChainEthLock, CrossChainEthRedeem, CrossChainEthRevoke)
    [] Standard = "E20" ->
         Classes(CrossChainE20Lock, CrossChainE20Redeem, CrossChainE20Revoke)
    [] Standard = "EOS" ->
         Classes(CrossChainEosLock, CrossChainEosRedeem, CrossChainEosRevoke)

DstChains ==
  CASE Standard = "ETH" ->
         Classes(CrossChainEthLock, CrossChainEthRedeem, CrossChainEthRevoke)
    [] Standard = "E20" ->
         Classes(CrossChainE20Lock, CrossChainE20Redeem, CrossChainE20Revoke)
    [] Standard = "EOS" ->
         Classes(CrossChainEosLock, CrossChainEosRedeem, CrossChainEosRevoke)

Config == IF Inbound THEN SrcChains ELSE DstChains

(* invoke(): the class of the action.                                      *)
ClassOf(u) ==
  CASE u = LockCall -> Config.lock
    [] u \in RedeemCalls -> Config.redeem
    [] u \in RevokeCalls -> Config.revoke

Prechecked ==
  Config.redeem.asks = "canRedeem" /\ Config.revoke.asks = "canRevoke"

-----------------------------------------------------------------------------
(* The calls: CrossChain.run().                                            *)

Active == {"prepare", "send", "failing"}
Ended == {"done", "dead"}

RunTypeOK ==
  /\ run \in [Calls -> [pc: Active \cup Ended \cup {"idle"}, tries: 0 .. TryTimes]]
  /\ \A u \in Calls : run[u].pc \in {"idle", "prepare", "send"} => run[u].tries < TryTimes

(* step0: the E20 and EOS calls refuse an early or late REDEEM or REVOKE,  *)
(* the ETH calls do not look.                                              *)
CheckPreCondition(u) ==
  /\ ClassOf(u).asks = "canRedeem" => CanRedeem(mem)
  /\ ClassOf(u).asks = "canRevoke" => CanRevoke(mem)

(* invoke(): x and its hash are fresh for a LOCK; a REDEEM and a REVOKE    *)
(* take them from the record.                                              *)
Invoke(u) ==
  /\ run[u].pc = "idle"
  /\ u # LockCall => Exists
  /\ CheckPreCondition(u)
  /\ run' = [run EXCEPT ![u].pc = "prepare"]
  /\ UNCHANGED <<chainVars, recordVars, check, faults, crashes>>

(* steps 1 to 3: the nonce, the contract data or the signature fail.       *)
PrepareFails(u) ==
  /\ run[u].pc = "prepare" /\ faults < MaxFaults
  /\ run' = [run EXCEPT ![u].pc = "done"]
  /\ faults' = faults + 1
  /\ UNCHANGED <<chainVars, recordVars, check, crashes>>

LockPreSend == [NoRecord EXCEPT !.status = Config.lock.sending]
RedeemPreSend == [mem EXCEPT !.status = Config.redeem.sending]
RevokePreSend == [mem EXCEPT !.status = Config.revoke.sending]

(* step4.0: preSendTrans, in the continuation of the signature.            *)
PreSendTrans(u) ==
  /\ run[u].pc = "prepare"
  /\ Save(CASE u = LockCall -> LockPreSend
            [] u \in RedeemCalls -> RedeemPreSend
            [] u \in RevokeCalls -> RevokePreSend)
  /\ run' = [run EXCEPT ![u].pc = "send"]
  /\ UNCHANGED <<chainVars, check, faults, crashes>>

LockPostSend(u) ==
  [mem EXCEPT !.status = Config.lock.sent, !.lockTx = u]
RedeemPostSend(u) ==
  [mem EXCEPT !.status = Config.redeem.sent, !.redeemTx = u]
RevokePostSend(u) ==
  [mem EXCEPT !.status = Config.revoke.sent, !.revokeTx = u]

(* step4: the node takes the transaction, or answers "known transaction"   *)
(* to a copy of it; the hash is stored in the same continuation.           *)
SendAnswered(u) ==
  /\ run[u].pc = "send"
  /\ tx' = Accepted(u)
  /\ Save(CASE u = LockCall -> LockPostSend(u)
            [] u \in RedeemCalls -> RedeemPostSend(u)
            [] u \in RevokeCalls -> RevokePostSend(u))
  /\ run' = [run EXCEPT ![u].pc = "done"]
  /\ UNCHANGED <<now, src, dst, check, faults, crashes>>

RetryForever(r) == [pc |-> "send", tries |-> r.tries + 1]

(* The loop over tryTimes: out of tries, the call first awaits             *)
(* addNonceHoleToList.                                                     *)
NextTry(r) ==
  [pc |-> IF r.tries + 1 < TryTimes THEN "send" ELSE "failing",
   tries |-> r.tries + 1]

(* sendTrans rejects, whether or not the transaction reached the node.     *)
SendRejected(u) ==
  /\ run[u].pc = "send" /\ faults < MaxFaults
  /\ tx' \in {tx, Accepted(u)}
  /\ run' = [run EXCEPT ![u] = NextTry(@)]
  /\ faults' = faults + 1
  /\ UNCHANGED <<now, src, dst, recordVars, check, crashes>>

TransFailedUnsaid(u) ==
  /\ run[u].pc = "failing"
  /\ run' = [run EXCEPT ![u].pc = "done"]
  /\ UNCHANGED <<chainVars, recordVars, check, faults, crashes>>

TransFailed(u) ==
  /\ run[u].pc = "failing"
  /\ Save([mem EXCEPT !.status = ClassOf(u).failed])
  /\ run' = [run EXCEPT ![u].pc = "done"]
  /\ UNCHANGED <<chainVars, check, faults, crashes>>

RunStep(u) == \/ PrepareFails(u) \/ PreSendTrans(u) \/ SendAnswered(u)
              \/ SendRejected(u) \/ TransFailed(u)

-----------------------------------------------------------------------------
(* The checks of core/monitor.js.  check[c].tx is the hash the check was   *)
(* started with.                                                           *)

CheckPc == {"idle", "lockReceipt", "lockBlock", "buddyEvent", "buddyReceipt",
            "buddyBlock", "redeemReceipt", "redeemEvent", "redeemFound",
            "redeemAbsent", "revokeReceipt", "revokeEvent", "revokeFound",
            "revokeAbsent"}

Idle == [pc |-> "idle", tx |-> NoTx]

CheckTypeOK == check \in [Checks -> [pc: CheckPc, tx: Calls \cup {NoTx}]]

At(c, pc) == check[c].pc = pc
Receipt(c) == IF check[c].tx = NoTx THEN "unsent" ELSE tx[check[c].tx]
Goto(c, pc) == check' = [check EXCEPT ![c].pc = pc]
End(c) == check' = [check EXCEPT ![c] = Idle]
Quiet == UNCHANGED <<chainVars, run, faults, crashes>>

(* monitorTask and monitorRecord.                                          *)
StartCheck(c) ==
  /\ At(c, "idle")
  /\ \/ /\ mem.status = "LockSent"
        /\ check' = [check EXCEPT ![c] = [pc |-> "lockReceipt", tx |-> mem.lockTx]]
     \/ /\ mem.status = "Locked"
        /\ check' = [check EXCEPT ![c] = [pc |-> "buddyEvent", tx |-> NoTx]]
     \/ /\ mem.status = "RedeemSent"
        /\ check' = [check EXCEPT ![c] = [pc |-> "redeemReceipt", tx |-> mem.redeemTx]]
     \/ /\ mem.status = "RevokeSent"
        /\ check' = [check EXCEPT ![c] = [pc |-> "revokeReceipt", tx |-> mem.revokeTx]]
  /\ UNCHANGED recordVars /\ Quiet

(* waitLockConfirm: the receipt of lockTxHash, then the block's time.  The *)
(* status is not looked at again.                                          *)
LockReceiptImpatient(c) ==
  /\ At(c, "lockReceipt")
  /\ IF Receipt(c) = "ok"
     THEN Goto(c, "lockBlock") /\ UNCHANGED recordVars
     ELSE Save([mem EXCEPT !.status = "LockFail"]) /\ End(c)
  /\ Quiet

LockReceipt(c) ==
  /\ At(c, "lockReceipt")
  /\ \/ /\ Receipt(c) = "ok"
        /\ Goto(c, "lockBlock")
        /\ UNCHANGED recordVars
     \/ /\ Receipt(c) = "fail"
        /\ Save([mem EXCEPT !.status = "LockFail"])
        /\ End(c)
  /\ Quiet

LockBlockUnsaved(c) ==
  /\ At(c, "lockBlock")
  /\ mem' = [mem EXCEPT !.htlcTimeOut = LockTimeOut(src.time), !.status = "Locked"]
  /\ UNCHANGED disk
  /\ End(c)
  /\ Quiet

LockBlockUntimed(c) ==
  /\ At(c, "lockBlock")
  /\ Save([mem EXCEPT !.status = "Locked"])
  /\ End(c)
  /\ Quiet

LockBlock(c) ==
  /\ At(c, "lockBlock")
  /\ Save([mem EXCEPT !.htlcTimeOut = LockTimeOut(src.time), !.status = "Locked"])
  /\ End(c)
  /\ Quiet

(* waitBuddyLockConfirm: the storeman's lock event, its receipt, the       *)
(* second look at the status, and the block's time, in this order.         *)
BuddyEventAnyValue(c) ==
  /\ At(c, "buddyEvent") /\ dst.state # "none"
  /\ Goto(c, "buddyReceipt")
  /\ UNCHANGED recordVars /\ Quiet

BuddyEvent(c) ==
  /\ At(c, "buddyEvent") /\ dst.state # "none"
  /\ IF dst.equal THEN Goto(c, "buddyReceipt") ELSE End(c)
  /\ UNCHANGED recordVars /\ Quiet

BuddyReceiptUnlooked(c) ==
  /\ At(c, "buddyReceipt")
  /\ mem' = [mem EXCEPT !.status = "BuddyLocked"] /\ Goto(c, "buddyBlock")
  /\ UNCHANGED disk /\ Quiet

(* The mark BuddyLocked is set on the live record before the time is known *)
(* and is not written.                                                     *)
BuddyReceipt(c) ==
  /\ At(c, "buddyReceipt")
  /\ IF mem.status = "Locked"
     THEN mem' = [mem EXCEPT !.status = "BuddyLocked"] /\ Goto(c, "buddyBlock")
     ELSE UNCHANGED mem /\ End(c)
  /\ UNCHANGED disk /\ Quiet

BuddyBlock(c) ==
  /\ At(c, "buddyBlock")
  /\ Save([mem EXCEPT !.buddyLockedTimeOut = BuddyTimeOut(dst.time)])
  /\ End(c)
  /\ Quiet

(* waitRedeemConfirm: a failed receipt is no proof, another transaction of *)
(* the same x may have redeemed, so the event is looked for.  But          *)
(* checkCrossType answers for E20 and EOS only: for ETH, reading a field   *)
(* of its answer throws, and the check's catch logs it.                    *)
HasCrossType == Standard \in {"E20", "EOS"}

LookForEvent(c, pc) == IF HasCrossType THEN Goto(c, pc) ELSE End(c)

RedeemReceipt(c) ==
  /\ At(c, "redeemReceipt")
  /\ \/ /\ Receipt(c) = "ok"
        /\ Save([mem EXCEPT !.status = "Redeemed"])
        /\ End(c)
     \/ /\ Receipt(c) = "fail"
        /\ LookForEvent(c, "redeemEvent")
        /\ UNCHANGED recordVars
  /\ Quiet

(* The server reads its chain at one moment and the answer arrives at      *)
(* another.                                                                *)
RedeemEventRead(c) ==
  /\ At(c, "redeemEvent")
  /\ Goto(c, IF dst.state = "redeemed" THEN "redeemFound" ELSE "redeemAbsent")
  /\ UNCHANGED recordVars /\ Quiet

GetRedeemEventOrWait(c) ==
  /\ \/ /\ At(c, "redeemFound")
        /\ \E u \in RedeemCalls :
             /\ tx[u] = "ok"
             /\ Save([mem EXCEPT !.redeemTx = u, !.status = "Redeemed"])
     \/ At(c, "redeemAbsent") /\ UNCHANGED recordVars
  /\ End(c)
  /\ Quiet

GetRedeemEvent(c) ==
  /\ \/ /\ At(c, "redeemFound")
        /\ \E u \in RedeemCalls :
             /\ tx[u] = "ok"
             /\ Save([mem EXCEPT !.redeemTx = u, !.status = "Redeemed"])
     \/ /\ At(c, "redeemAbsent")
        /\ Save([mem EXCEPT !.status = "RedeemFail"])
  /\ End(c)
  /\ Quiet

(* waitRevokeConfirm.                                                      *)
RevokeReceiptTrusted(c) ==
  /\ At(c, "revokeReceipt") /\ Receipt(c) \in {"ok", "fail"}
  /\ Save([mem EXCEPT !.status = "Revoked"])
  /\ End(c)
  /\ Quiet

RevokeReceipt(c) ==
  /\ At(c, "revokeReceipt")
  /\ \/ /\ Receipt(c) = "ok"
        /\ Save([mem EXCEPT !.status = "Revoked"])
        /\ End(c)
     \/ /\ Receipt(c) = "fail"
        /\ LookForEvent(c, "revokeEvent")
        /\ UNCHANGED recordVars
  /\ Quiet

RevokeEventRead(c) ==
  /\ At(c, "revokeEvent")
  /\ Goto(c, IF src.state = "revoked" THEN "revokeFound" ELSE "revokeAbsent")
  /\ UNCHANGED recordVars /\ Quiet

GetRevokeEvent(c) ==
  /\ \/ /\ At(c, "revokeFound")
        /\ \E u \in RevokeCalls :
             /\ tx[u] = "ok"
             /\ Save([mem EXCEPT !.revokeTx = u, !.status = "Revoked"])
     \/ /\ At(c, "revokeAbsent")
        /\ Save([mem EXCEPT !.status = "RevokeFail"])
  /\ End(c)
  /\ Quiet

(* No receipt or no event yet: the check ends and a later one asks again.  *)
NotYet(c) ==
  /\ \/ check[c].pc \in {"lockReceipt", "redeemReceipt", "revokeReceipt"}
        /\ Receipt(c) \in {"unsent", "pending"}
     \/ At(c, "buddyEvent") /\ dst.state = "none"
  /\ End(c)
  /\ UNCHANGED recordVars /\ Quiet

(* An await rejects (an error of the server, the 300 s timeout of the call *)
(* or a lost connection): the check's catch logs it.                       *)
CheckRejected(c) ==
  /\ ~ At(c, "idle") /\ faults < MaxFaults
  /\ End(c)
  /\ faults' = faults + 1
  /\ UNCHANGED <<chainVars, recordVars, run, crashes>>

CheckStep(c) ==
  \/ LockReceipt(c) \/ LockBlock(c)
  \/ BuddyEvent(c) \/ BuddyReceipt(c) \/ BuddyBlock(c)
  \/ RedeemReceipt(c) \/ RedeemEventRead(c) \/ GetRedeemEvent(c)
  \/ RevokeReceipt(c) \/ RevokeEventRead(c) \/ GetRevokeEvent(c)
  \/ NotYet(c) \/ CheckRejected(c)

-----------------------------------------------------------------------------
(* Any other write of the database writes this record's live fields too.   *)
OtherWrite ==
  /\ mem # disk
  /\ disk' = mem
  /\ UNCHANGED <<chainVars, mem, run, check, faults, crashes>>

(* The wallet stops and starts again: calls and checks are gone.           *)
Restart ==
  /\ crashes < MaxCrashes
  /\ mem' = disk
  /\ run' = [u \in Calls |->
               IF run[u].pc \in Active THEN [run[u] EXCEPT !.pc = "dead"]
               ELSE run[u]]
  /\ check' = [c \in Checks |-> Idle]
  /\ crashes' = crashes + 1
  /\ UNCHANGED <<chainVars, disk, faults>>

Init ==
  /\ ChainInit
  /\ mem = NoRecord /\ disk = NoRecord
  /\ run = [u \in Calls |-> [pc |-> "idle", tries |-> 0]]
  /\ check = [c \in Checks |-> Idle]
  /\ faults = 0 /\ crashes = 0

ChainStep == Chain /\ UNCHANGED <<recordVars, run, check, faults, crashes>>

Next ==
  \/ \E u \in Calls : Invoke(u) \/ RunStep(u)
  \/ \E c \in Checks : StartCheck(c) \/ CheckStep(c)
  \/ ChainStep
  \/ OtherWrite
  \/ Restart

Spec == Init /\ [][Next]_vars

(* The event loop runs every continuation, every API call ends within its  *)
(* 300 s timeout, the monitor's timer fires again and again, and a chain   *)
(* settles what a node accepted; users and storemen owe nothing.           *)
Fairness ==
  /\ \A u \in Calls : WF_vars(RunStep(u))
  /\ \A c \in Checks : WF_vars(CheckStep(c))
  /\ WF_vars(\E c \in Checks : StartCheck(c))
  /\ \A u \in Calls : WF_vars(Mine(u) /\ UNCHANGED <<recordVars, run, check, faults, crashes>>)
  /\ WF_vars(Tick /\ UNCHANGED <<recordVars, run, check, faults, crashes>>)

FairSpec == Spec /\ Fairness
-----------------------------------------------------------------------------
(* Properties.                                                             *)

(* Every variable keeps its type: in particular a call never tries more    *)
(* than tryTimes, and no check outlives a restart.                         *)
TypeOK ==
  /\ ChainTypeOK
  /\ mem \in Record /\ disk \in Record
  /\ RunTypeOK /\ CheckTypeOK
  /\ faults \in 0 .. MaxFaults /\ crashes \in 0 .. MaxCrashes

(* A record that says Redeemed or Revoked is right, although a receipt may *)
(* be that of a retry which failed because an earlier transaction did it   *)
(* (the workaround in waitRedeemConfirm and waitRevokeConfirm).            *)
SettledIsOnChain ==
  /\ mem.status = "Redeemed" => dst.state = "redeemed"
  /\ mem.status = "Revoked" => src.state = "revoked"

(* LockFail, which neither canRedeem nor canRevoke accepts, is never the   *)
(* status of a lock whose hash the record has and which took the funds.    *)
LockFailKeepsNoFunds ==
  mem.status = "LockFail" /\ mem.lockTx # NoTx => src.state = "none"

(* The only thing a restart can take back is the mark BuddyLocked, which   *)
(* waitBuddyLockConfirm sets before it awaits the block and writes after:  *)
(* everything else of the record is in the file whenever it is in memory.  *)
RestartLosesOnlyBuddyMark ==
  \/ mem = disk
  \/ disk.status = "Locked" /\ mem = [disk EXCEPT !.status = "BuddyLocked"]

(* A REDEEM that canRedeem lets through has a storeman's lock of the right *)
(* value to take, which has not timed out.                                 *)
RedeemOfferIsGood ==
  CanRedeem(mem) => /\ dst.state \in {"locked", "redeemed"} /\ dst.equal
                    /\ now < dst.time + T

(* A REVOKE that canRevoke lets through is never before the time-out of    *)
(* the source lock, although a missing htlcTimeOut reads as 0; this rests  *)
(* on the calls of the token checking their precondition (E20).            *)
RevokeOfferIsGood ==
  Prechecked /\ CanRevoke(mem) => src.state # "none" /\ now > src.time + 2 * T

(* There is no moment at which both REDEEM and REVOKE are offered (the     *)
(* time line above canRedeem).                                             *)
OffersExclude == Prechecked => ~ (CanRedeem(mem) /\ CanRevoke(mem))

(* The monitor decides every transaction that was sent, however many of    *)
(* its checks fail or come late: a failed one by the event of the swap,    *)
(* not to "run into loop for one step crosschain" (waitRedeemConfirm).     *)
SentIsDecided ==
  /\ mem.status = "LockSent" ~> mem.status # "LockSent"
  /\ mem.status = "RedeemSent" ~> mem.status # "RedeemSent"
  /\ mem.status = "RevokeSent" ~> mem.status # "RevokeSent"

(* Funds the user locked with a lock whose hash was stored do not stay     *)
(* locked without the SDK offering REVOKE, unless the user has redeemed on *)
(* the other chain.                                                        *)
LockedIsRecoverable ==
  src.state = "locked" /\ mem.lockTx # NoTx
    ~> src.state # "locked" \/ dst.state = "redeemed" \/ CanRevoke(mem)

(* A record that is settled stays so: no check that a REDEEM, a REVOKE or  *)
(* a restart overtook writes over Redeemed or Revoked.  Two things do, and *)
(* are excepted: a second REDEEM or REVOKE, and a check of the lock, which *)
(* does not look at the status again after its awaits.                     *)
OneCall ==
  \A u, w \in RedeemCalls \cup RevokeCalls :
    run[u].pc # "idle" /\ run[w].pc # "idle" => u = w

LockIsOver ==
  /\ run[LockCall].pc \notin Active
  /\ \A c \in Checks : check[c].pc \notin {"lockReceipt", "lockBlock"}

Settled(rec) == rec.status \in {"Redeemed", "Revoked"}

SettledStays ==
  [][Settled(mem) /\ OneCall /\ LockIsOver => mem'.status = mem.status]_vars

(* A call that wrote ..Sending to the record ends in ..Sent or ..Fail, as  *)
(* long as the wallet runs, whatever the tries do.                         *)
SendingIsResolvedByRun ==
  \A s \in {"LockSending", "RedeemSending", "RevokeSending"} :
    mem.status = s ~> mem.status # s \/ crashes > 0

(* The record is BuddyLocked and the storeman's lock has not timed out:    *)
(* then canRedeem says yes (test/inboundETH.js asserts it).                *)
BuddyLockedCanRedeem ==
  mem.status = "BuddyLocked" /\ now < dst.time + T => CanRedeem(mem)

(* The record only tells what has happened, see HtlcReport.                *)
ChainFacts ==
  {f \in {"locked", "answered", "redeemed", "claimed", "revoked"} :
     \/ f = "locked" /\ src.state # "none"
     \/ f = "answered" /\ dst.state # "none"
     \/ f = "redeemed" /\ dst.state = "redeemed"
     \/ f = "claimed" /\ src.state = "claimed"
     \/ f = "revoked" /\ src.state = "revoked"}

Told == CASE mem.status = "Locked" -> "locked"
          [] mem.status = "BuddyLocked" -> "answered"
          [] mem.status = "Redeemed" -> "redeemed"
          [] mem.status = "Revoked" -> "revoked"
          [] OTHER -> "nothing"

Report == INSTANCE HtlcReport WITH facts <- ChainFacts, told <- Told
TellsWhatHappened == Report!Spec
=============================================================================
