------------------------------ MODULE NormalTx ------------------------------
(***************************************************************************)
(* Transactions that stay on one chain: NormalChain.run and its classes    *)
(* (transfers, private transactions and the staking calls of Wanchain),    *)
(* their records in normalCollection, and monitorNormal, which settles     *)
(* them.  A private refund spends a one-time address (OTA), whose state in *)
(* usrOTA is set by the monitor or by a refused sending.                   *)
(*                                                                         *)
(* The monitor does not wait for its checks, so several checks of one      *)
(* record may be under way.  A record is a live object of the database:    *)
(* what an action assigns is in the file only after the next write, of any *)
(* record.  An action is the code between two awaits.                      *)
(***************************************************************************)
EXTENDS Integers, FiniteSets

CONSTANTS Calls,      \* the calls of run()
          Kind,       \* their class, one of Classes
          OtaTx,      \* the OTA (otaTxHash) a private refund spends
          Otas,
          TryTimes,   \* sdk:config:tryTimes
          MaxTroubles \* bound: rejected calls, crashes and closings together

VARIABLES open,     \* global.wanDb is there
          call,     \* the calls: where they are, and how often they tried
          mem,      \* the records in memory: their status and successTime
          file,     \* the records in the file
          checks,   \* the checks of a record under way
          given,    \* calls that gave their nonce back
          ota,      \* the state of an OTA in usrOTA
          chain,    \* the transaction at the node and on the chain
          spent,    \* OTAs spent on the chain
          lost,     \* history: calls that lost an answer of the node
          unread,   \* history: calls whose block was not read after a receipt
          troubles

runVars == <<call, given>>
recordVars == <<mem, file>>
nodeVars == <<chain, spent, lost>>
vars == <<open, runVars, recordVars, checks, ota, nodeVars, unread, troubles>>

-----------------------------------------------------------------------------
(* The classes, by what the run and the monitor make of them: where the    *)
(* nonce comes from (an input.nonce first, the manager, or nowhere), what  *)
(* the record is annotated with, and its status after the sending.         *)

NormalTxEth == "ownFirst"
NormalTxE20 == "manager"
NormalTxEos == "none"
NormalTxBtc == "none"
PrivateSendTxWan == "ownFirst"
PrivateRefundTxWan == "ownFirst"
Delegate == "manager"
StakeIn == "manager"
StakeAppend == "manager"
StakeUpdate == "manager"
StakeUpdateFeeRate == "manager"
StakeRegister == "manager"

Class(nonce, annotate, after) ==
  [nonce |-> nonce, annotate |-> annotate, after |-> after]

NormalChainEth == Class(NormalTxEth, "", "Sent")
NormalChainE20 == Class(NormalTxE20, "", "Sent")
NormalChainEos == Class(NormalTxEos, "", "Sent")
NormalChainBtc == Class(NormalTxBtc, "", "Success")
PrivateChainWanSend == Class(PrivateSendTxWan, "PrivateSend", "Sent")
PrivateChainWanRefund == Class(PrivateRefundTxWan, "PrivateRefund", "Sent")
PosDelegateIn == Class(Delegate, "DelegateIn", "Sent")
PosDelegateOut == Class(Delegate, "DelegateOut", "Sent")
PosStakeIn == Class(StakeIn, "StakeIn", "Sent")
PosStakeAppend == Class(StakeAppend, "StakeAppend", "Sent")
PosStakeUpdate == Class(StakeUpdate, "StakeUpdate", "Sent")
PosStakeUpdateFeeRate ==
  Class(StakeUpdateFeeRate, "StakeUpdateFeeRate", "Sent")
PosStakeRegister == Class(StakeRegister, "StakeRegister", "Sent")

Classes ==
  {NormalChainEth, NormalChainE20, NormalChainEos, NormalChainBtc,
   PrivateChainWanSend, PrivateChainWanRefund, PosDelegateIn, PosDelegateOut,
   PosStakeIn, PosStakeAppend, PosStakeUpdate, PosStakeUpdateFeeRate,
   PosStakeRegister}

ASSUME NormalAssumption ==
  /\ Kind \in [Calls -> Classes]
  /\ OtaTx \in [Calls -> Otas]
  /\ TryTimes \in Nat \ {0} /\ MaxTroubles \in Nat

IsRefund(c) == Kind[c].annotate = "PrivateRefund"
HasNonce(c) == Kind[c].nonce # "none"

-----------------------------------------------------------------------------
Statuses == {"none", "Sending", "Sent", "Success", "Failed"}
Record(st, time) == [status |-> st, time |-> time]
Records == [status: Statuses, time: BOOLEAN]

(* The stages of a check: it waits for the receipt, or, with the status    *)
(* already set, for the block; old when its record is an object of a       *)
(* database that was closed since.                                         *)
Check(stage, old) == [stage |-> stage, old |-> old]
Checks == [stage: {"receipt", "block"}, old: BOOLEAN]

Pcs == {"idle", "ready", "sending", "taken", "failing", "ok", "error", "dead"}

(* Every variable keeps its type.                                          *)
TypeOK ==
  /\ open \in BOOLEAN
  /\ call \in [Calls -> [pc: Pcs, tries: 0 .. TryTimes]]
  /\ given \subseteq Calls
  /\ mem \in [Calls -> Records] /\ file \in [Calls -> Records]
  /\ checks \in [Calls -> SUBSET Checks]
  /\ ota \in [Otas -> {"Found", "Refund"}]
  /\ chain \in [Calls -> {"none", "pool", "mined", "reverted"}]
  /\ spent \subseteq Otas /\ lost \subseteq Calls /\ unread \subseteq Calls
  /\ troubles \in 0 .. MaxTroubles

At(c, pc) == call[c].pc = pc
Goto(c, pc) == call' = [call EXCEPT ![c].pc = pc]
Trouble == troubles < MaxTroubles /\ troubles' = troubles + 1

(* updateItem and insertItem write the whole database.                     *)
Write(c, rec) ==
  /\ mem' = [mem EXCEPT ![c] = rec]
  /\ file' = mem'
GiveBack(c) == given' = IF HasNonce(c) THEN given \cup {c} ELSE given

-----------------------------------------------------------------------------
(* run().                                                                  *)

(* checkPreCondition refuses: no nonce was taken.                          *)
Refused(c) ==
  /\ At(c, "idle")
  /\ Goto(c, "error")
  /\ UNCHANGED <<open, given, recordVars, checks, ota, nodeVars, unread,
                 troubles>>

(* Common data, contract data and signature are there, a nonce is taken.   *)
Prepare(c) ==
  /\ At(c, "idle")
  /\ Goto(c, "ready")
  /\ UNCHANGED <<open, given, recordVars, checks, ota, nodeVars, unread,
                 troubles>>

(* One of them fails: a missing mix set, a wrong password, a rejected call.*)
PrepareFails(c) ==
  /\ At(c, "idle")
  /\ Goto(c, "error")
  /\ GiveBack(c)
  /\ UNCHANGED <<open, recordVars, checks, ota, nodeVars, unread, troubles>>

(* preSendTrans; without a database it throws, which is caught.            *)
PreSendTrans(c) ==
  /\ At(c, "ready")
  /\ IF open
     THEN /\ Write(c, Record("Sending", FALSE))
          /\ Goto(c, "sending")
          /\ UNCHANGED given
     ELSE Goto(c, "error") /\ GiveBack(c) /\ UNCHANGED recordVars
  /\ UNCHANGED <<open, checks, ota, nodeVars, unread, troubles>>

RetryOnceMore(c) ==
  call' = [call EXCEPT ![c] =
             [pc |-> IF @.tries < TryTimes THEN "sending" ELSE "failing",
              tries |-> @.tries + 1]]

(* The next of the tries, or the end of the loop.                          *)
Retry(c) ==
  call' = [call EXCEPT ![c] =
             [pc |-> IF @.tries + 1 < TryTimes THEN "sending" ELSE "failing",
              tries |-> @.tries + 1]]

OtaReused(c) == IsRefund(c) /\ OtaTx[c] \in spent

(* The node takes the transaction; its answer is under way.                *)
NodeTakes(c) ==
  /\ At(c, "sending") /\ chain[c] = "none" /\ ~ OtaReused(c)
  /\ chain' = [chain EXCEPT ![c] = "pool"]
  /\ Goto(c, "taken")
  /\ UNCHANGED <<open, given, recordVars, checks, ota, spent, lost, unread,
                 troubles>>

(* The node knows the transaction already: an error like any other.        *)
NodeKnows(c) ==
  /\ At(c, "sending") /\ chain[c] # "none" /\ ~ OtaReused(c)
  /\ Retry(c)
  /\ UNCHANGED <<open, given, recordVars, checks, ota, nodeVars, unread,
                 troubles>>

(* handleSendTranError of a refund: the OTA is spent, the loop ends.       *)
SendRefused(c) ==
  /\ At(c, "sending") /\ OtaReused(c)
  /\ ota' = [ota EXCEPT ![OtaTx[c]] = "Refund"]
  /\ Goto(c, "failing")
  /\ UNCHANGED <<open, given, recordVars, checks, nodeVars, unread, troubles>>

(* A call that is rejected or times out, before the node took the          *)
(* transaction or after; the request may still be under way.               *)
SendLost(c) ==
  /\ call[c].pc \in {"sending", "taken"} /\ Trouble
  /\ lost' = lost \cup {c}
  /\ Retry(c)
  /\ UNCHANGED <<open, given, recordVars, checks, ota, chain, spent, unread>>

PostMarksOta(c) ==
  /\ At(c, "taken")
  /\ IF open THEN Write(c, Record(Kind[c].after, FALSE)) /\ Goto(c, "ok")
             ELSE Goto(c, "error") /\ UNCHANGED recordVars
  /\ ota' = IF IsRefund(c) THEN [ota EXCEPT ![OtaTx[c]] = "Refund"] ELSE ota
  /\ UNCHANGED <<open, given, checks, nodeVars, unread, troubles>>

PostGivesBack(c) ==
  /\ At(c, "taken")
  /\ IF open THEN Write(c, Record(Kind[c].after, FALSE)) /\ Goto(c, "ok")
                  /\ UNCHANGED given
             ELSE Goto(c, "error") /\ GiveBack(c) /\ UNCHANGED recordVars
  /\ UNCHANGED <<open, checks, ota, nodeVars, unread, troubles>>

(* postSendTrans; without a database it throws: the call returns an error, *)
(* the transaction is sent.                                                *)
PostSendTrans(c) ==
  /\ At(c, "taken")
  /\ IF open THEN Write(c, Record(Kind[c].after, FALSE)) /\ Goto(c, "ok")
             ELSE Goto(c, "error") /\ UNCHANGED recordVars
  /\ UNCHANGED <<open, given, checks, ota, nodeVars, unread, troubles>>

(* The tries are used up: the nonce goes back, then transFailed, which is  *)
(* outside of any try and throws without a database.                       *)
TransFailed(c) ==
  /\ At(c, "failing")
  /\ GiveBack(c)
  /\ IF open THEN Write(c, [mem[c] EXCEPT !.status = "Failed"])
             ELSE UNCHANGED recordVars
  /\ Goto(c, "error")
  /\ UNCHANGED <<open, checks, ota, nodeVars, unread, troubles>>

-----------------------------------------------------------------------------
(* monitorNormal.                                                          *)

(* monitorRecord starts a check of a Sent record and does not wait for it. *)
StartCheck(c) ==
  /\ open /\ mem[c].status = "Sent"
  /\ checks' = [checks EXCEPT ![c] = @ \cup {Check("receipt", FALSE)}]
  /\ UNCHANGED <<open, runVars, recordVars, ota, nodeVars, unread, troubles>>

Move(c, k, S) == checks' = [checks EXCEPT ![c] = (@ \ {k}) \cup S]

ReceiptOfAnyStatus(c, k) ==
  /\ k \in checks[c] /\ k.stage = "receipt" /\ chain[c] \in {"mined", "reverted"}
  /\ mem' = IF k.old THEN mem ELSE [mem EXCEPT ![c].status = "Success"]
  /\ Move(c, k, {Check("block", k.old)})
  /\ UNCHANGED <<open, runVars, file, ota, nodeVars, unread, troubles>>

(* waitNormalConfirm, a receipt of success: the status of the live object  *)
(* is set before the block is asked for.                                   *)
ReceiptSuccess(c, k) ==
  /\ k \in checks[c] /\ k.stage = "receipt" /\ chain[c] = "mined"
  /\ mem' = IF k.old THEN mem ELSE [mem EXCEPT ![c].status = "Success"]
  /\ Move(c, k, {Check("block", k.old)})
  /\ UNCHANGED <<open, runVars, file, ota, nodeVars, unread, troubles>>

ReceiptFailedKept(c, k) ==
  /\ k \in checks[c] /\ k.stage = "receipt" /\ chain[c] = "reverted"
  /\ Move(c, k, {})
  /\ UNCHANGED <<open, runVars, recordVars, ota, nodeVars, unread, troubles>>

ReceiptFailed(c, k) ==
  /\ k \in checks[c] /\ k.stage = "receipt" /\ chain[c] = "reverted"
  /\ IF open THEN Write(c, [mem[c] EXCEPT !.status = "Failed"])
             ELSE UNCHANGED recordVars
  /\ Move(c, k, {})
  /\ UNCHANGED <<open, runVars, ota, nodeVars, unread, troubles>>

BlockReadOnly(c, k) ==
  /\ k \in checks[c] /\ k.stage = "block"
  /\ IF open THEN Write(c, Record("Success", TRUE)) ELSE UNCHANGED recordVars
  /\ Move(c, k, {})
  /\ UNCHANGED <<open, runVars, ota, nodeVars, unread, troubles>>

(* The block is there: successTime, the write, and the OTA of a refund.    *)
(* Without a database the write throws, and the OTA is not reached.        *)
BlockRead(c, k) ==
  /\ k \in checks[c] /\ k.stage = "block"
  /\ IF open
     THEN /\ Write(c, Record("Success", TRUE))
          /\ ota' = IF IsRefund(c) THEN [ota EXCEPT ![OtaTx[c]] = "Refund"]
                                   ELSE ota
          /\ UNCHANGED unread
     ELSE UNCHANGED <<recordVars, ota>> /\ unread' = unread \cup {c}
  /\ Move(c, k, {})
  /\ UNCHANGED <<open, runVars, nodeVars, troubles>>

(* No receipt yet, or the call is rejected: the next round asks again.     *)
ReceiptMissing(c, k) ==
  /\ k \in checks[c] /\ k.stage = "receipt"
  /\ Move(c, k, {})
  /\ UNCHANGED <<open, runVars, recordVars, ota, nodeVars, unread, troubles>>

(* getBlockByNumber is rejected: the record stays Success in the memory,   *)
(* where no round looks at it again.                                       *)
BlockRejected(c, k) ==
  /\ k \in checks[c] /\ k.stage = "block" /\ Trouble
  /\ unread' = unread \cup {c}
  /\ Move(c, k, {})
  /\ UNCHANGED <<open, runVars, recordVars, ota, nodeVars>>

-----------------------------------------------------------------------------
(* The chain: a refund of an OTA that is spent reverts.                    *)

Mine(c) ==
  /\ chain[c] = "pool"
  /\ \/ /\ ~ OtaReused(c)
        /\ chain' = [chain EXCEPT ![c] = "mined"]
        /\ spent' = IF IsRefund(c) THEN spent \cup {OtaTx[c]} ELSE spent
     \/ chain' = [chain EXCEPT ![c] = "reverted"] /\ UNCHANGED spent
  /\ UNCHANGED <<open, runVars, recordVars, checks, ota, lost, unread,
                 troubles>>

(* A request whose answer was lost reaches the node late.                  *)
LandsLate(c) ==
  /\ c \in lost /\ chain[c] = "none" /\ ~ OtaReused(c)
  /\ chain' = [chain EXCEPT ![c] = "pool"]
  /\ UNCHANGED <<open, runVars, recordVars, checks, ota, spent, lost, unread,
                 troubles>>

-----------------------------------------------------------------------------
(* walletCore.close and init: the live objects are dropped and read from   *)
(* the file again; calls and checks under way go on.                       *)
HasBlockCheck(c) == \E k \in checks[c] : k.stage = "block"

Close ==
  /\ open /\ Trouble
  /\ open' = FALSE
  /\ mem' = file
  /\ checks' = [c \in Calls |-> {Check(k.stage, TRUE) : k \in checks[c]}]
  /\ UNCHANGED <<runVars, file, ota, nodeVars, unread>>

Open ==
  /\ ~ open
  /\ open' = TRUE
  /\ UNCHANGED <<runVars, recordVars, checks, ota, nodeVars, unread, troubles>>

(* The process ends; a request of a call under way may still arrive.       *)
Crash ==
  /\ Trouble
  /\ open' = TRUE
  /\ mem' = file
  /\ call' = [c \in Calls |->
                IF call[c].pc \in {"ready", "sending", "taken", "failing"}
                THEN [call[c] EXCEPT !.pc = "dead"] ELSE call[c]]
  /\ lost' = lost \cup {c \in Calls : call[c].pc \in {"sending", "taken"}}
  /\ unread' = unread \cup {c \in Calls : HasBlockCheck(c)}
  /\ checks' = [c \in Calls |-> {}]
  /\ UNCHANGED <<given, file, ota, chain, spent>>

Init ==
  /\ open = TRUE
  /\ call = [c \in Calls |-> [pc |-> "idle", tries |-> 0]]
  /\ given = {}
  /\ mem = [c \in Calls |-> Record("none", FALSE)] /\ file = mem
  /\ checks = [c \in Calls |-> {}]
  /\ ota = [o \in Otas |-> "Found"]
  /\ chain = [c \in Calls |-> "none"] /\ spent = {}
  /\ lost = {} /\ unread = {}
  /\ troubles = 0

RunStep(c) ==
  PreSendTrans(c) \/ NodeTakes(c) \/ NodeKnows(c) \/ SendRefused(c)
  \/ PostSendTrans(c) \/ TransFailed(c)
Answered(c, k) ==
  ReceiptSuccess(c, k) \/ ReceiptFailed(c, k) \/ BlockRead(c, k)

Next ==
  \/ \E c \in Calls :
       \/ Refused(c) \/ Prepare(c) \/ PrepareFails(c)
       \/ RunStep(c) \/ SendLost(c)
       \/ StartCheck(c) \/ Mine(c) \/ LandsLate(c)
       \/ \E k \in Checks :
            Answered(c, k) \/ ReceiptMissing(c, k) \/ BlockRejected(c, k)
  \/ Close \/ Open \/ Crash

Spec == Init /\ [][Next]_vars

(* The process runs what it has under way and its monitor goes round; the  *)
(* server answers a check infinitely often.  Users, miners, failures and   *)
(* who closes the wallet owe nothing.                                      *)
Fairness ==
  \A c \in Calls :
    /\ WF_vars(RunStep(c)) /\ WF_vars(StartCheck(c))
    /\ \A k \in Checks : SF_vars(Answered(c, k))

FairSpec == Spec /\ Fairness

-----------------------------------------------------------------------------
(* A transaction that is recorded as failed, or whose nonce was given to   *)
(* the next call, is not on the chain and not on its way there, unless an  *)
(* answer of the node was lost.                                            *)
FailedIsNotSent ==
  \A c \in Calls \ lost :
    /\ c \in given => chain[c] = "none"
    /\ mem[c].status = "Failed" => chain[c] \in {"none", "reverted"}

(* An OTA is marked as refunded only when it is spent on the chain, by     *)
(* this refund or by another: a refund that only was sent, or failed, can  *)
(* be done again.                                                          *)
RefundIsSpent == \A o \in Otas : ota[o] = "Refund" => o \in spent

(* The records only tell what has become of their transactions, as         *)
(* TxReport has it, whichever checks are under way when the wallet is      *)
(* closed, read again or restarted.  Of a Bitcoin transfer Success only    *)
(* means that it was sent.                                                 *)
Tale(c) ==
  CASE mem[c].status \in {"none", "Sending"} -> "nothing"
    [] mem[c].status = "Sent" -> "sent"
    [] mem[c].status = "Success" ->
         IF Kind[c].after = "Success" THEN "sent" ELSE "succeeded"
    [] mem[c].status = "Failed" -> "failed"

Fate(c) == IF chain[c] = "none" THEN "unsent" ELSE chain[c]

Report == INSTANCE TxReport
            WITH Txs <- Calls, doubt <- lost,
                 fate <- [c \in Calls |-> Fate(c)],
                 told <- [c \in Calls |-> Tale(c)]
TellsItsFate == Report!Spec

(* A record whose transaction is on the chain is settled, by a check of    *)
(* the monitor, as what the chain says; while the wallet is open.          *)
SentIsSettled ==
  \A c \in Calls :
    /\ mem[c].status = "Sent" /\ chain[c] = "mined"
         ~> mem[c].status = "Success" \/ ~ open
    /\ mem[c].status = "Sent" /\ chain[c] = "reverted"
         ~> mem[c].status = "Failed" \/ ~ open

(* The OTA of a refund that succeeded is marked in the end, unless a check *)
(* got the receipt and not the block: then nothing looks at the record     *)
(* again.                                                                  *)
RefundIsNoted ==
  \A c \in Calls :
    IsRefund(c) /\ mem[c].status = "Success"
      ~> ota[OtaTx[c]] = "Refund" \/ c \in unread \/ ~ open
=============================================================================
