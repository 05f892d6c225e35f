-------------------------------- MODULE BtcTx --------------------------------
(***************************************************************************)
(* One cross-chain trade between Bitcoin and Wanchain: its record, the     *)
(* calls of CrossChainBtcLock, LockNotice, Redeem and Revoke, and the      *)
(* monitor of core/monitorBtc.js.  It differs from CrossTx in every part:  *)
(* an inbound lock is two transactions, one on each chain; a REDEEM and a  *)
(* REVOKE write the record only when the node has answered; the monitor    *)
(* counts confirmations; and one entry of handlingList keeps a second      *)
(* check away until the first ends or 300 seconds have passed.             *)
(*                                                                         *)
(* The clock is the order of the instants the code compares with:          *)
(*   0  canRedeem may say yes (until buddyLockedTimeOut)                   *)
(*   1  the storeman's lock has not timed out                              *)
(*   2  it has                                                             *)
(*   3  the user's lock has timed out                                      *)
(*   4  canRevoke may say yes (htlcTimeOut has passed)                     *)
(***************************************************************************)
EXTENDS Naturals, FiniteSets

CONSTANTS LockCall,    \* the invoke(.., 'LOCK', ..) that begins the trade
          NoticeCall,  \* the notice on Wanchain that an inbound LOCK sends
          RedeemCalls, RevokeCalls,
          Checks,      \* bound: the monitor's checks in flight at once
          NoTx,        \* an empty transaction hash
          WalletAsks,  \* the wallet asks canRedeem and canRevoke first
          MaxFaults,   \* bound: lost answers, refused calls, other errors
          MaxExpiries, \* bound: checks that take longer than 300 seconds
          MaxCrashes   \* bound: restarts of the wallet

Calls == {LockCall, NoticeCall} \cup RedeemCalls \cup RevokeCalls

ASSUME BtcAssumption ==
  /\ WalletAsks \in BOOLEAN
  /\ LockCall # NoticeCall /\ NoTx \notin Calls
  /\ {LockCall, NoticeCall} \cap (RedeemCalls \cup RevokeCalls) = {}
  /\ RedeemCalls \cap RevokeCalls = {}
  /\ MaxFaults \in Nat /\ MaxExpiries \in Nat /\ MaxCrashes \in Nat

VARIABLES inbound,   \* the trade locks BTC (record.chain = "BTC") or WBTC
          phase,     \* the clock
          src, dst,  \* the hash time locks of the user and of the storeman
          tx,        \* what became of each call's signed transaction
          rec, file, \* the record in lowdb's memory and in its file
          run,       \* the calls of CrossChain.run()
          check,     \* the checks of the monitor in flight
          handling,  \* handlingList has an entry for the record
          faults, expiries, crashes

chainVars == <<inbound, phase, src, dst, tx>>
bounds == <<faults, expiries, crashes>>
vars == <<chainVars, rec, file, run, check, handling, bounds>>

-----------------------------------------------------------------------------
(* The chains, EXTERNAL to src/.                                           *)

OnWan(u) == \/ u = NoticeCall
            \/ u \in RedeemCalls /\ inbound
            \/ u \in {LockCall} \cup RevokeCalls /\ ~ inbound

Mined == {"mined", "deep"}

(* A Bitcoin node refuses an input that is spent, also by a transaction    *)
(* that waits, and a refund before its lock time; Wanchain takes anything. *)
NodeTakes(u) ==
  \/ OnWan(u) \/ u = LockCall
  \/ /\ u \in RedeemCalls /\ dst.state = "locked"
     /\ \A w \in RedeemCalls : tx[w] = "unsent"
  \/ /\ u \in RevokeCalls /\ src = "locked" /\ phase >= 3
     /\ \A w \in RevokeCalls : tx[w] = "unsent"

Accepted(u) == [tx EXCEPT ![u] = IF @ = "unsent" THEN "pending" ELSE @]

Mine(u) ==
  /\ tx[u] = "pending"
  /\ tx' = [tx EXCEPT ![u] = "mined"]
  /\ \/ u = LockCall /\ src' = "locked" /\ UNCHANGED dst
     \/ u = NoticeCall /\ UNCHANGED <<src, dst>>
     \/ /\ u \in RedeemCalls /\ dst.state = "locked" /\ (inbound => phase <= 1)
        /\ dst' = [dst EXCEPT !.state = "redeemed"]
        /\ UNCHANGED src
     \/ /\ u \in RevokeCalls /\ src = "locked" /\ phase >= 3
        /\ src' = "revoked"
        /\ UNCHANGED dst
  /\ UNCHANGED <<inbound, phase>>

MineFailed(u) ==
  /\ OnWan(u) /\ tx[u] = "pending"
  /\ tx' = [tx EXCEPT ![u] = "fail"]
  /\ UNCHANGED <<inbound, phase, src, dst>>

(* The blocks the SDK waits for have been built on top.                    *)
Deepen(u) ==
  /\ tx[u] = "mined"
  /\ tx' = [tx EXCEPT ![u] = "deep"]
  /\ UNCHANGED <<inbound, phase, src, dst>>

(* The storeman answers a lock it can see, inbound only with the notice,   *)
(* and with the agreed value or, misbehaving, with another contract.       *)
StoremanLock(equal) ==
  /\ src = "locked" /\ dst.state = "none" /\ phase <= 1
  /\ inbound => tx[NoticeCall] \in Mined
  /\ dst' = [state |-> "locked", equal |-> equal, deep |-> FALSE]
  /\ UNCHANGED <<inbound, phase, src, tx>>

StoremanDeepens ==
  /\ dst.state # "none" /\ ~ dst.deep
  /\ dst' = [dst EXCEPT !.deep = TRUE]
  /\ UNCHANGED <<inbound, phase, src, tx>>

StoremanClaim ==
  /\ dst.state = "redeemed" /\ src = "locked"
  /\ src' = "claimed"
  /\ UNCHANGED <<inbound, phase, dst, tx>>

StoremanRevoke ==
  /\ dst.state = "locked" /\ phase >= 2
  /\ dst' = [dst EXCEPT !.state = "revoked"]
  /\ UNCHANGED <<inbound, phase, src, tx>>

(* The times count from preSendTrans of the LOCK.                          *)
Tick ==
  /\ rec.status # "absent" /\ phase < 4
  /\ phase' = phase + 1
  /\ UNCHANGED <<inbound, src, dst, tx>>

Chain == \/ \E u \in Calls : Mine(u) \/ MineFailed(u) \/ Deepen(u)
         \/ \E equal \in BOOLEAN : StoremanLock(equal)
         \/ StoremanDeepens \/ StoremanClaim \/ StoremanRevoke \/ Tick

-----------------------------------------------------------------------------
(* The record.  storemanKnown stands for StoremanBtcH160 and the other     *)
(* fields an outbound REDEEM needs, noticeTx for crossAddress and          *)
(* wanAddress, which an inbound one needs and which are stored with it.    *)

Status == {"LockSending", "LockSent", "Locked", "BuddyLocked", "sentHashFailed",
           "RedeemSending", "RedeemSent", "RedeemSendFail", "Redeemed",
           "RevokeSending", "RevokeSent", "RevokeSendFail", "Revoked"}

ConfirmBlocks == 2

Hash == Calls \cup {NoTx}
Count == 0 .. ConfirmBlocks

Record == [status: Status \cup {"absent"}, lockTx: Hash, noticeTx: Hash,
           redeemTx: Hash, revokeTx: Hash, storemanKnown: BOOLEAN,
           lockConfirmed: Count, refundConfirmed: Count, revokeConfirmed: Count]

NoRecord == [status |-> "absent", lockTx |-> NoTx, noticeTx |-> NoTx,
             redeemTx |-> NoTx, revokeTx |-> NoTx, storemanKnown |-> FALSE,
             lockConfirmed |-> 0, refundConfirmed |-> 0, revokeConfirmed |-> 0]

Save(r) == rec' = r /\ file' = r

CanRedeem(r) ==
  /\ r.status \in {"BuddyLocked", "RedeemSent", "RedeemSending"}
  /\ phase = 0

CanRevokeUnlessRedeeming(r) ==
  /\ r.status \in {"BuddyLocked", "Locked", "RevokeSent", "RevokeSending",
                   "RevokeSendFail"}
  /\ phase = 4

CanRevoke(r) ==
  /\ r.status \in {"BuddyLocked", "Locked", "RedeemSending", "RedeemSent",
                   "RedeemSendFail", "RevokeSent", "RevokeSending", "RevokeSendFail"}
  /\ phase = 4

(* What the data creators read of the record: wanAddress inbound, the      *)
(* storeman's lock outbound; the refund of a BTC lock spends its hash.     *)
CanBuildRedeem(r) == IF inbound THEN r.noticeTx # NoTx ELSE r.storemanKnown
CanBuildRevoke(r) == r.status # "absent" /\ (inbound => r.lockTx # NoTx)

-----------------------------------------------------------------------------
(* The calls.  Before sendTrans only a LOCK writes anything, in the same   *)
(* continuation: what comes before, and the loop over tryTimes, is part of *)
(* "send" here (CrossTx has them apart).                                   *)

Active == {"send", "failing"}

Started(u) == [run EXCEPT ![u] = "send"]

(* preSendTrans inserts the record.                                        *)
Lock ==
  /\ run[LockCall] = "idle" /\ rec.status = "absent"
  /\ Save([NoRecord EXCEPT !.status = "LockSending"])
  /\ run' = Started(LockCall)
  /\ UNCHANGED <<chainVars, check, handling, bounds>>

Redeem(u) ==
  /\ run[u] = "idle" /\ u \in RedeemCalls
  /\ CanBuildRedeem(rec) /\ (WalletAsks => CanRedeem(rec))
  /\ run' = Started(u)
  /\ UNCHANGED <<chainVars, rec, file, check, handling, bounds>>

Revoke(u) ==
  /\ run[u] = "idle" /\ u \in RevokeCalls
  /\ CanBuildRevoke(rec) /\ (WalletAsks => CanRevoke(rec))
  /\ run' = Started(u)
  /\ UNCHANGED <<chainVars, rec, file, check, handling, bounds>>

(* postSendTrans.  The notice, whose LOCK the monitor may have seen by     *)
(* then, takes the status back.                                            *)
LockPostSend(u) == [rec EXCEPT !.lockTx = u]
NoticePostSend(u) == [rec EXCEPT !.noticeTx = u, !.status = "LockSending"]
RedeemPostSend(u) == [rec EXCEPT !.redeemTx = u, !.status = "RedeemSending"]
RevokePostSend(u) == [rec EXCEPT !.revokeTx = u, !.status = "RevokeSending"]

(* The node takes the transaction.  An inbound LOCK goes on to run the     *)
(* notice.                                                                 *)
SendAnswered(u) ==
  /\ run[u] = "send" /\ NodeTakes(u)
  /\ tx' = Accepted(u)
  /\ Save(CASE u = LockCall -> LockPostSend(u)
            [] u = NoticeCall -> NoticePostSend(u)
            [] u \in RedeemCalls -> RedeemPostSend(u)
            [] u \in RevokeCalls -> RevokePostSend(u))
  /\ run' = IF u = LockCall /\ inbound
            THEN [run EXCEPT ![u] = "done", ![NoticeCall] = "send"]
            ELSE [run EXCEPT ![u] = "done"]
  /\ UNCHANGED <<inbound, phase, src, dst, check, handling, bounds>>

(* The call fails before or in sendTrans, although the transaction may     *)
(* have reached the node; or the node refuses it.                          *)
SendFails(u) ==
  /\ run[u] = "send"
  /\ \/ /\ faults < MaxFaults /\ faults' = faults + 1
        /\ tx' \in {tx} \cup {Accepted(w) : w \in {w \in {u} : NodeTakes(w)}}
     \/ ~ NodeTakes(u) /\ UNCHANGED <<faults, tx>>
  /\ run' = [run EXCEPT ![u] = "failing"]
  /\ UNCHANGED <<inbound, phase, src, dst, rec, file, check, handling, expiries, crashes>>

TransFailedEthStatus(u) ==
  /\ run[u] = "failing"
  /\ IF u = LockCall THEN Save([rec EXCEPT !.status = "LockFail"])
     ELSE UNCHANGED <<rec, file>>
  /\ run' = [run EXCEPT ![u] = "done"]
  /\ UNCHANGED <<chainVars, check, handling, bounds>>

(* After the await of addNonceHoleToList: only a LOCK notes the failure.   *)
TransFailed(u) ==
  /\ run[u] = "failing"
  /\ IF u = LockCall THEN Save([rec EXCEPT !.status = "sentHashFailed"])
     ELSE UNCHANGED <<rec, file>>
  /\ run' = [run EXCEPT ![u] = "done"]
  /\ UNCHANGED <<chainVars, check, handling, bounds>>

RunStep(u) == SendAnswered(u) \/ SendFails(u) \/ TransFailed(u)

-----------------------------------------------------------------------------
(* The checks.  check[c].tx is the hash the check asks for, and wait the   *)
(* number of blocks; a "cross" check asks with crossAddress, which an      *)
(* inbound record may lack.                                                *)

CheckPc == {"idle", "lockOnline", "lockBlock", "lockConfirm", "cross",
            "crossConfirm", "redeemOnline", "redeemConfirm", "revokeOnline",
            "revokeConfirm"}

Idle == [pc |-> "idle", tx |-> NoTx, wait |-> 0]

At(c, pc) == check[c].pc = pc
Sought(c) == IF check[c].tx = NoTx THEN "unsent" ELSE tx[check[c].tx]
Goto(c, pc) == check' = [check EXCEPT ![c].pc = pc] /\ UNCHANGED handling
Quiet == UNCHANGED <<chainVars, run, bounds>>

(* The end of monitorRecord deletes the record's entry, whichever check    *)
(* made it.                                                                *)
End(c) == check' = [check EXCEPT ![c] = Idle] /\ handling' = FALSE

Asks(pc, hash, wait) == [pc |-> pc, tx |-> hash, wait |-> wait]

FirstAsk ==
  CASE rec.status = "LockSending" -> Asks("lockOnline", rec.lockTx, 0)
    [] rec.status = "LockSent" ->
         Asks("lockConfirm", rec.lockTx, IF inbound THEN 0 ELSE rec.lockConfirmed)
    [] rec.status = "Locked" ->
         Asks("cross", IF inbound THEN rec.noticeTx ELSE rec.lockTx, 0)
    [] rec.status = "RedeemSending" -> Asks("redeemOnline", rec.redeemTx, 0)
    [] rec.status = "RedeemSent" ->
         Asks("redeemConfirm", rec.redeemTx, IF inbound THEN rec.refundConfirmed ELSE 0)
    [] rec.status = "RevokeSending" -> Asks("revokeOnline", rec.revokeTx, 0)
    [] rec.status = "RevokeSent" ->
         Asks("revokeConfirm", rec.revokeTx, IF inbound THEN 0 ELSE rec.revokeConfirmed)

WatchedUntilRedeemSent == {"LockSending", "LockSent", "Locked", "RedeemSending",
                           "RevokeSending", "RevokeSent"}

Watched == {"LockSending", "LockSent", "Locked", "RedeemSending", "RedeemSent",
            "RevokeSending", "RevokeSent"}

StartCheckUnlisted(c) ==
  /\ At(c, "idle")
  /\ rec.status \in Watched
  /\ check' = [check EXCEPT ![c] = FirstAsk]
  /\ handling' = TRUE
  /\ UNCHANGED <<rec, file>> /\ Quiet

(* monitorTaskBtc and monitorRecord; in the other statuses monitorRecord   *)
(* ends at once.                                                           *)
StartCheck(c) ==
  /\ At(c, "idle") /\ ~ handling
  /\ rec.status \in Watched
  /\ check' = [check EXCEPT ![c] = FirstAsk]
  /\ handling' = TRUE
  /\ UNCHANGED <<rec, file>> /\ Quiet

(* The entry is older than 300 seconds, which is also the time-out of one  *)
(* call of the server: the check is past its first await.                  *)
Expire ==
  /\ handling /\ expiries < MaxExpiries
  /\ \E c \in Checks : \/ check[c].pc \in {"lockBlock", "crossConfirm"}
                       \/ At(c, "cross") /\ ~ inbound
  /\ handling' = FALSE
  /\ expiries' = expiries + 1
  /\ UNCHANGED <<chainVars, rec, file, run, check, faults, crashes>>

(* checkHashReceiptOnlineBtc takes a transaction that waits to be mined;   *)
(* checkHashReceiptOnlineWan awaits the block of the receipt.              *)
LockOnlineImpatient(c) ==
  /\ At(c, "lockOnline")
  /\ IF Sought(c) \in Mined
     THEN Save([rec EXCEPT !.status = "LockSent"])
     ELSE Save([rec EXCEPT !.status = "sentHashFailed"])
  /\ End(c) /\ Quiet

LockOnline(c) ==
  /\ At(c, "lockOnline")
  /\ \/ /\ inbound /\ Sought(c) \in Mined \cup {"pending"}
        /\ Save([rec EXCEPT !.status = "LockSent"]) /\ End(c)
     \/ /\ ~ inbound /\ Sought(c) \in Mined
        /\ Goto(c, "lockBlock") /\ UNCHANGED <<rec, file>>
     \/ /\ ~ inbound /\ Sought(c) = "fail"
        /\ Save([rec EXCEPT !.status = "sentHashFailed"]) /\ End(c)
  /\ Quiet

LockBlock(c) ==
  /\ At(c, "lockBlock")
  /\ Save([rec EXCEPT !.status = "LockSent"]) /\ End(c)
  /\ Quiet

(* waitConfirm has answered.  The receipt of a failed transaction does too *)
(* and its status is not looked at; its depth is left open.                *)
Waited(c) == Sought(c) \in IF check[c].wait = 0 THEN Mined \cup {"fail"} ELSE {"deep", "fail"}

(* The counters of Wanchain's confirmations: round i waits for i blocks.   *)
(* A counter stops at ConfirmBlocks here, above which it tells nothing.    *)
CountedOnce(counter, status) ==
  IF rec[counter] + 1 >= 1
  THEN [rec EXCEPT ![counter] = ConfirmBlocks, !.status = status]
  ELSE rec

Counted(counter, status) ==
  IF rec[counter] + 1 >= ConfirmBlocks
  THEN [rec EXCEPT ![counter] = ConfirmBlocks, !.status = status]
  ELSE [rec EXCEPT ![counter] = @ + 1]

(* checkHashConfirmBtc and checkHashConfirmWan.                            *)
LockConfirm(c) ==
  /\ At(c, "lockConfirm")
  /\ IF inbound THEN Sought(c) = "deep" /\ Save([rec EXCEPT !.status = "Locked"])
     ELSE Waited(c) /\ Save(Counted("lockConfirmed", "Locked"))
  /\ End(c) /\ Quiet

(* checkCrossHashOnline, whose outbound fields are set and not written; a  *)
(* record with a refundTxHash (inbound) goes back to RedeemSending.        *)
CrossOnlineAnyValue(c) ==
  /\ At(c, "cross") /\ check[c].tx # NoTx /\ dst.state # "none"
  /\ rec' = [rec EXCEPT !.storemanKnown = ~ inbound \/ @]
  /\ UNCHANGED file
  /\ Goto(c, "crossConfirm") /\ Quiet

CrossOnline(c) ==
  /\ At(c, "cross") /\ check[c].tx # NoTx /\ dst.state # "none"
  /\ CASE ~ dst.equal -> UNCHANGED <<rec, file>> /\ End(c)
       [] dst.equal /\ inbound /\ rec.redeemTx # NoTx ->
            Save([rec EXCEPT !.status = "RedeemSending"]) /\ End(c)
       [] OTHER ->
            /\ rec' = [rec EXCEPT !.storemanKnown = ~ inbound \/ @]
            /\ UNCHANGED file
            /\ Goto(c, "crossConfirm")
  /\ Quiet

(* checkCrossHashConfirmDeposit and checkCrossHashConfirmWithdraw: the     *)
(* status is not looked at again.                                          *)
CrossConfirm(c) ==
  /\ At(c, "crossConfirm") /\ dst.deep
  /\ Save([rec EXCEPT !.status = "BuddyLocked"]) /\ End(c)
  /\ Quiet

(* checkXOnlineWan and checkXOnlineBtc.                                    *)
RedeemOnline(c) ==
  /\ At(c, "redeemOnline")
  /\ \/ Sought(c) \in Mined /\ Save([rec EXCEPT !.status = "RedeemSent"])
     \/ Sought(c) = "fail" /\ Save([rec EXCEPT !.status = "RedeemSendFail"])
  /\ End(c) /\ Quiet

(* checkXConfirm.                                                          *)
RedeemConfirm(c) ==
  /\ At(c, "redeemConfirm")
  /\ IF inbound THEN Waited(c) /\ Save(Counted("refundConfirmed", "Redeemed"))
     ELSE Sought(c) = "deep" /\ Save([rec EXCEPT !.status = "Redeemed"])
  /\ End(c) /\ Quiet

(* checkRevokeOnlineWan and checkRevokeOnlineBtc.                          *)
RevokeOnlineTrusted(c) ==
  /\ At(c, "revokeOnline") /\ Sought(c) \in Mined \cup {"fail"}
  /\ Save([rec EXCEPT !.status = "RevokeSent"])
  /\ End(c) /\ Quiet

RevokeOnline(c) ==
  /\ At(c, "revokeOnline")
  /\ \/ Sought(c) \in Mined /\ Save([rec EXCEPT !.status = "RevokeSent"])
     \/ Sought(c) = "fail" /\ Save([rec EXCEPT !.status = "RevokeSendFail"])
  /\ End(c) /\ Quiet

(* checkRevokeConfirm.                                                     *)
RevokeConfirm(c) ==
  /\ At(c, "revokeConfirm")
  /\ IF inbound THEN Sought(c) = "deep" /\ Save([rec EXCEPT !.status = "Revoked"])
     ELSE Waited(c) /\ Save(Counted("revokeConfirmed", "Revoked"))
  /\ End(c) /\ Quiet

(* The server has nothing to say yet: a later check asks again.            *)
NotYet(c) ==
  /\ CASE At(c, "lockOnline") ->
            Sought(c) \in IF inbound THEN {"unsent"} ELSE {"unsent", "pending"}
       [] At(c, "cross") -> check[c].tx = NoTx \/ dst.state = "none"
       [] At(c, "crossConfirm") -> ~ dst.deep
       [] check[c].pc \in {"redeemOnline", "revokeOnline"} ->
            Sought(c) \in {"unsent", "pending"}
       [] check[c].pc \in {"lockConfirm", "redeemConfirm", "revokeConfirm"} ->
            Sought(c) \in {"unsent", "pending", "mined"}
       [] OTHER -> FALSE
  /\ End(c)
  /\ UNCHANGED <<rec, file>> /\ Quiet

(* An await rejects: every check catches it, and monitorRecord goes on to  *)
(* its end.                                                                *)
CheckRejected(c) ==
  /\ ~ At(c, "idle") /\ faults < MaxFaults
  /\ End(c)
  /\ faults' = faults + 1
  /\ UNCHANGED <<chainVars, rec, file, run, expiries, crashes>>

CheckStep(c) ==
  \/ LockOnline(c) \/ LockBlock(c) \/ LockConfirm(c)
  \/ CrossOnline(c) \/ CrossConfirm(c)
  \/ RedeemOnline(c) \/ RedeemConfirm(c)
  \/ RevokeOnline(c) \/ RevokeConfirm(c)
  \/ NotYet(c) \/ CheckRejected(c)

-----------------------------------------------------------------------------
(* Any other write of the database writes this record's live fields too.   *)
OtherWrite ==
  /\ rec # file
  /\ file' = rec
  /\ UNCHANGED <<chainVars, rec, run, check, handling, bounds>>

(* The wallet stops and starts again: calls, checks and handlingList are   *)
(* gone, a notice that was not sent included.                              *)
Restart ==
  /\ crashes < MaxCrashes
  /\ rec' = file
  /\ run' = [u \in Calls |-> IF run[u] \in Active THEN "dead" ELSE run[u]]
  /\ check' = [c \in Checks |-> Idle]
  /\ handling' = FALSE
  /\ crashes' = crashes + 1
  /\ UNCHANGED <<chainVars, file, faults, expiries>>

Init ==
  /\ inbound \in BOOLEAN
  /\ phase = 0 /\ src = "none"
  /\ dst = [state |-> "none", equal |-> TRUE, deep |-> FALSE]
  /\ tx = [u \in Calls |-> "unsent"]
  /\ rec = NoRecord /\ file = NoRecord
  /\ run = [u \in Calls |-> "idle"]
  /\ check = [c \in Checks |-> Idle]
  /\ handling = FALSE
  /\ faults = 0 /\ expiries = 0 /\ crashes = 0

Wallet == UNCHANGED <<rec, file, run, check, handling, bounds>>

Next ==
  \/ Chain /\ Wallet
  \/ Lock
  \/ \E u \in Calls : Redeem(u) \/ Revoke(u) \/ RunStep(u)
  \/ \E c \in Checks : StartCheck(c) \/ CheckStep(c)
  \/ Expire \/ OtherWrite \/ Restart

Spec == Init /\ [][Next]_vars

(* As in CrossTx: the event loop, the time-outs of the API and the timer   *)
(* of the monitor run, and the chains settle and bury what they accepted.  *)
(* Users and storemen owe nothing.                                         *)
Fairness ==
  /\ \A u \in Calls : /\ WF_vars(RunStep(u))
                      /\ WF_vars((Mine(u) \/ MineFailed(u) \/ Deepen(u)) /\ Wallet)
  /\ \A c \in Checks : WF_vars(CheckStep(c))
  /\ WF_vars(\E c \in Checks : StartCheck(c))
  /\ WF_vars(StoremanDeepens /\ Wallet)
  /\ WF_vars(Tick /\ Wallet)

FairSpec == Spec /\ Fairness
-----------------------------------------------------------------------------
(* Properties.                                                             *)

(* Every variable keeps its type: in particular the record only has the    *)
(* statuses of a BTC trade, which the monitor's lists name.                *)
TypeOK ==
  /\ inbound \in BOOLEAN /\ phase \in 0 .. 4
  /\ src \in {"none", "locked", "claimed", "revoked"}
  /\ dst \in [state: {"none", "locked", "redeemed", "revoked"},
              equal: BOOLEAN, deep: BOOLEAN]
  /\ tx \in [Calls -> {"unsent", "pending", "fail"} \cup Mined]
  /\ rec \in Record /\ file \in Record
  /\ run \in [Calls -> Active \cup {"idle", "done", "dead"}]
  /\ check \in [Checks -> [pc: CheckPc, tx: Hash, wait: Count]]
  /\ handling \in BOOLEAN
  /\ faults \in 0 .. MaxFaults /\ expiries \in 0 .. MaxExpiries
  /\ crashes \in 0 .. MaxCrashes

(* Without an expiry handlingList admits one check at a time.              *)
OneCheckAtATime ==
  expiries = 0 =>
    /\ \A c, d \in Checks : ~ At(c, "idle") /\ ~ At(d, "idle") => c = d
    /\ \A c \in Checks : handling \/ At(c, "idle")

(* sentHashFailed, which the monitor skips and which neither canRedeem nor *)
(* canRevoke accepts, is never the status of a lock whose hash the record  *)
(* has and which took the funds.                                           *)
FailedKeepsNoFunds ==
  rec.status = "sentHashFailed" /\ rec.lockTx # NoTx => src = "none"

(* The statuses the user acts on rest on confirmations: Locked on the      *)
(* whole depth of the user's lock as long as no check expires, although a  *)
(* counter is kept over restarts, lost answers and a second LockSending,   *)
(* and BuddyLocked on that of the storeman's always.                       *)
ConfirmedIsDeep ==
  /\ rec.status = "Locked" /\ expiries = 0 => tx[LockCall] = "deep"
  /\ rec.status = "BuddyLocked" => dst.deep

(* A REDEEM the SDK offers can be taken: the storeman's lock is there with *)
(* the agreed value, and the record has what the data creator reads, also  *)
(* after a restart.  A REVOKE it offers has a lock to take back.           *)
OfferCanBeTaken ==
  WalletAsks =>
    /\ CanRedeem(rec) => dst.state \in {"locked", "redeemed"} /\ dst.equal
    /\ \A r \in {rec, file} : CanRedeem(r) => CanBuildRedeem(r)
    /\ CanRevoke(rec) => src # "none"

(* A restart loses nothing but what checkCrossHashOnline noted of the      *)
(* storeman's lock, and that only while the status is one that asks again. *)
RestartLosesOnlyStoremanLock ==
  \/ rec = file
  \/ ~ file.storemanKnown /\ rec = [file EXCEPT !.storemanKnown = TRUE]

(* The monitor loses no funds: a lock whose hash was stored does not stay  *)
(* locked without the SDK offering REVOKE, unless the user has redeemed.   *)
LockedIsRecoverable ==
  src = "locked" /\ rec.lockTx # NoTx
    ~> src # "locked" \/ dst.state = "redeemed" \/ CanRevoke(rec)

(* The one redemption of a wallet that asked first comes to be told,       *)
(* whatever answers of the checks are lost: nothing overwrites             *)
(* RedeemSending for good, but a REVOKE or a check that had expired.       *)
RedeemIsTold ==
  dst.state = "redeemed" /\ rec.redeemTx # NoTx
    ~> \/ rec.status = "Redeemed" \/ expiries > 0
       \/ \E u \in RevokeCalls : run[u] # "idle"

(* A record that is settled stays so, with lost answers and restarts, as   *)
(* long as no check expires: the awaits of a check are apart from those of *)
(* any other.  A second REDEEM or REVOKE may write over it, and a LOCK or  *)
(* a notice that is still being sent.                                      *)
OneCall ==
  \A u, w \in RedeemCalls \cup RevokeCalls :
    run[u] # "idle" /\ run[w] # "idle" => u = w

LockIsOver == run[LockCall] \notin Active /\ run[NoticeCall] \notin Active

Settled(r) == r.status \in {"Redeemed", "Revoked"}

SettledStays ==
  [][Settled(rec) /\ OneCall /\ LockIsOver /\ expiries = 0
       => rec'.status = rec.status]_vars

(* The record only tells what has happened, see HtlcReport.                *)
ChainFacts ==
  {f \in {"locked", "answered", "redeemed", "claimed", "revoked"} :
     \/ f = "locked" /\ src # "none"
     \/ f = "answered" /\ dst.state # "none"
     \/ f = "redeemed" /\ dst.state = "redeemed"
     \/ f = "claimed" /\ src = "claimed"
     \/ f = "revoked" /\ src = "revoked"}

Told == CASE rec.status = "Locked" -> "locked"
          [] rec.status = "BuddyLocked" -> "answered"
          [] rec.status \in {"RedeemSent", "Redeemed"} -> "redeemed"
          [] rec.status \in {"RevokeSent", "Revoked"} -> "revoked"
          [] OTHER -> "nothing"

Report == INSTANCE HtlcReport WITH facts <- ChainFacts, told <- Told
TellsWhatHappened == Report!Spec
=============================================================================
