--------------------------- MODULE CrossTxProofs ----------------------------
(***************************************************************************)
(* Proofs about CrossTx: type correctness, what a restart can take back,   *)
(* and that a record which says Redeemed or Revoked is right.              *)
(***************************************************************************)
EXTENDS CrossTx, TLAPS

USE DEF Active, Ended, Calls

-----------------------------------------------------------------------------
(* Whatever the standard of the token and the direction of the trade, the  *)
(* classes the invoker finds write the same statuses.                      *)

LEMMA ClassFacts ==
  /\ Config.lock.sending = "LockSending"
  /\ Config.lock.sent = "LockSent"
  /\ Config.lock.failed = "LockFail"
  /\ Config.redeem.sending = "RedeemSending"
  /\ Config.redeem.sent = "RedeemSent"
  /\ Config.redeem.failed = "RedeemFail"
  /\ Config.revoke.sending = "RevokeSending"
  /\ Config.revoke.sent = "RevokeSent"
  /\ Config.revoke.failed = "RevokeFail"
<1> DEFINE C(ask, askToo) == Classes(LockClass, RedeemClass(ask), RevokeClass(askToo))
<1>1. SrcChains = DstChains
  BY DEF SrcChains, DstChains
<1>2. \/ SrcChains = C("nothing", "nothing")
      \/ SrcChains = C("canRedeem", "canRevoke")
  <2>1. CASE Standard = "ETH"
    BY <2>1 DEF SrcChains, CrossChainEthLock, CrossChainEthRedeem, CrossChainEthRevoke
  <2>2. CASE Standard = "E20"
    BY <2>2 DEF SrcChains, CrossChainE20Lock, CrossChainE20Redeem, CrossChainE20Revoke
  <2>3. CASE Standard = "EOS"
    BY <2>3 DEF SrcChains, CrossChainEosLock, CrossChainEosRedeem, CrossChainEosRevoke
  <2> QED
    BY <2>1, <2>2, <2>3, CrossAssumption DEF TokenStandards
<1>3. Config = SrcChains
  BY <1>1 DEF Config
<1> QED
  BY <1>2, <1>3 DEF Classes, LockClass, RedeemClass, RevokeClass, Class

LEMMA FailedStatus ==
  ASSUME NEW u \in Calls
  PROVE ClassOf(u).failed = CASE u = LockCall -> "LockFail"
                              [] u \in RedeemCalls -> "RedeemFail"
                              [] u \in RevokeCalls -> "RevokeFail"
BY ClassFacts, ChainAssumption DEF ClassOf

LEMMA CheckedCall ==
  ASSUME Prechecked, NEW u \in Calls, u # LockCall
  PROVE ClassOf(u).asks \in {"canRedeem", "canRevoke"}
BY ChainAssumption DEF Prechecked, ClassOf

(* Looking for the event moves the check on or ends it.                    *)
LEMMA LooksOrEnds ==
  ASSUME NEW c \in Checks, NEW pc, LookForEvent(c, pc)
  PROVE Goto(c, pc) \/ End(c)
BY DEF LookForEvent

-----------------------------------------------------------------------------
(* Type correctness, one lemma for each actor.                             *)

LEMMA TypeInit == Init => TypeOK
<1>1. SUFFICES ASSUME Init PROVE TypeOK
  OBVIOUS
<1>2. ChainTypeOK
  BY <1>1 DEF Init, ChainInit, ChainTypeOK
<1>3. mem \in Record /\ disk \in Record
  BY <1>1 DEF Init, Record, NoRecord, NoTime
<1>4. RunTypeOK /\ CheckTypeOK
  BY <1>1, CrossAssumption DEF Init, RunTypeOK, CheckTypeOK, Idle, CheckPc
<1>5. faults \in 0 .. MaxFaults /\ crashes \in 0 .. MaxCrashes
  BY <1>1, CrossAssumption DEF Init
<1> QED
  BY <1>2, <1>3, <1>4, <1>5 DEF TypeOK

LEMMA TypeChain == TypeOK /\ ChainStep => TypeOK'
<1>1. SUFFICES ASSUME TypeOK, ChainStep PROVE TypeOK'
  OBVIOUS
<1>2. ChainTypeOK'
  <2> USE DEF TypeOK, ChainTypeOK
  <2>1. CASE Tick
    BY <1>1, <2>1 DEF Tick
  <2>2. ASSUME NEW u \in Calls, Mine(u) PROVE ChainTypeOK'
    <3>1. CASE MineLock
      BY <1>1, <3>1 DEF MineLock
    <3>2. CASE MineRedeem(u)
      BY <1>1, <3>2 DEF MineRedeem
    <3>3. CASE MineRevoke(u)
      BY <1>1, <3>3 DEF MineRevoke
    <3>4. CASE MineFailed(u)
      BY <1>1, <3>4 DEF MineFailed
    <3> QED
      BY <2>2, <3>1, <3>2, <3>3, <3>4 DEF Mine
  <2>3. ASSUME NEW equal \in BOOLEAN, StoremanLock(equal) PROVE ChainTypeOK'
    BY <1>1, <2>3 DEF StoremanLock
  <2>4. CASE StoremanClaim
    BY <1>1, <2>4 DEF StoremanClaim
  <2>5. CASE StoremanRevoke
    BY <1>1, <2>5 DEF StoremanRevoke
  <2> QED
    BY <1>1, <2>1, <2>2, <2>3, <2>4, <2>5 DEF ChainStep, Chain
<1> QED
  BY <1>1, <1>2 DEF TypeOK, ChainStep, recordVars, RunTypeOK, CheckTypeOK

(* A call's step leaves the clock and the contracts alone, and gives every *)
(* other variable a value of its type.                                     *)
LEMMA TypeRun ==
  ASSUME TypeOK, NEW u \in Calls, Invoke(u) \/ RunStep(u)
  PROVE TypeOK'
<1> USE DEF TypeOK, RunTypeOK
<1>1. CASE Invoke(u)
  BY <1>1 DEF Invoke, chainVars, recordVars, ChainTypeOK, CheckTypeOK
<1>2. CASE PrepareFails(u)
  BY <1>2, CrossAssumption DEF PrepareFails, chainVars, recordVars, ChainTypeOK,
     CheckTypeOK
<1>3. CASE PreSendTrans(u)
  <2>1. mem' \in Record /\ disk' \in Record
    BY <1>3, ClassFacts DEF PreSendTrans, Save, LockPreSend, RedeemPreSend, RevokePreSend,
       NoRecord, Record, Status, LockStatus, RedeemStatus, RevokeStatus
  <2> QED
    BY <1>3, <2>1 DEF PreSendTrans, chainVars, ChainTypeOK, CheckTypeOK
<1>4. CASE SendAnswered(u)
  <2>1. mem' \in Record /\ disk' \in Record
    <3> USE DEF Record, Status, LockStatus, RedeemStatus, RevokeStatus
    <3>1. LockPostSend(u) \in Record
      BY ClassFacts DEF LockPostSend
    <3>2. RedeemPostSend(u) \in Record
      BY ClassFacts DEF RedeemPostSend
    <3>3. RevokePostSend(u) \in Record
      <4>1. RevokePostSend(u) = [mem EXCEPT !.status = "RevokeSent", !.revokeTx = u]
        BY ClassFacts DEF RevokePostSend
      <4>2. "RevokeSent" \in Status
        OBVIOUS
      <4> HIDE DEF Status
      <4> QED
        BY <4>1, <4>2
    <3> HIDE DEF Record, Status
    <3> QED
      BY <1>4, <3>1, <3>2, <3>3 DEF SendAnswered, Save
  <2>2. tx' \in [Calls -> {"unsent", "pending", "ok", "fail"}]
    BY <1>4 DEF SendAnswered, Accepted, ChainTypeOK
  <2> QED
    BY <1>4, <2>1, <2>2 DEF SendAnswered, ChainTypeOK, CheckTypeOK
<1>5. CASE SendRejected(u)
  <2>1. tx' \in [Calls -> {"unsent", "pending", "ok", "fail"}]
    BY <1>5 DEF SendRejected, Accepted, ChainTypeOK
  <2>2. RunTypeOK'
    BY <1>5, CrossAssumption DEF SendRejected, NextTry
  <2> QED
    BY <1>5, <2>1, <2>2, CrossAssumption
       DEF SendRejected, recordVars, ChainTypeOK, CheckTypeOK
<1>6. CASE TransFailed(u)
  <2>1. mem' \in Record /\ disk' \in Record
    BY <1>6, FailedStatus DEF TransFailed, Save, Record, Status, LockStatus, RedeemStatus,
       RevokeStatus
  <2> QED
    BY <1>6, <2>1 DEF TransFailed, chainVars, ChainTypeOK, CheckTypeOK
<1> QED
  BY <1>1, <1>2, <1>3, <1>4, <1>5, <1>6 DEF RunStep

(* A check only moves itself on, and saves the record with a status and    *)
(* times of their types.                                                   *)
LEMMA TypeCheckPc ==
  ASSUME CheckTypeOK, mem \in Record, NEW c \in Checks, StartCheck(c) \/ CheckStep(c)
  PROVE CheckTypeOK'
<1> USE DEF CheckTypeOK
<1>1. ASSUME NEW pc \in CheckPc, Goto(c, pc) PROVE CheckTypeOK'
  BY <1>1 DEF Goto
<1>2. ASSUME End(c) PROVE CheckTypeOK'
  BY <1>2 DEF End, Idle, CheckPc
<1>3. CASE StartCheck(c)
  BY <1>3 DEF StartCheck, Record, CheckPc
<1>4. CASE LockReceipt(c) \/ LockBlock(c)
  BY <1>1, <1>2, <1>4 DEF LockReceipt, LockBlock, CheckPc
<1>5. CASE BuddyEvent(c) \/ BuddyReceipt(c) \/ BuddyBlock(c)
  BY <1>1, <1>2, <1>5 DEF BuddyEvent, BuddyReceipt, BuddyBlock, CheckPc
<1>6. CASE RedeemReceipt(c) \/ RedeemEventRead(c) \/ GetRedeemEvent(c)
  BY <1>1, <1>2, <1>6, LooksOrEnds DEF RedeemReceipt, RedeemEventRead, GetRedeemEvent, CheckPc
<1>7. CASE RevokeReceipt(c) \/ RevokeEventRead(c) \/ GetRevokeEvent(c)
  BY <1>1, <1>2, <1>7, LooksOrEnds DEF RevokeReceipt, RevokeEventRead, GetRevokeEvent, CheckPc
<1>8. CASE NotYet(c) \/ CheckRejected(c)
  BY <1>2, <1>8 DEF NotYet, CheckRejected
<1> QED
  BY <1>3, <1>4, <1>5, <1>6, <1>7, <1>8 DEF CheckStep

LEMMA CheckFrame ==
  ASSUME TypeOK, NEW c \in Checks, StartCheck(c) \/ CheckStep(c)
  PROVE UNCHANGED <<now, src, dst, tx, run, crashes>> /\ faults' \in 0 .. MaxFaults
<1> USE DEF Quiet, TypeOK, chainVars
<1>1. CASE StartCheck(c)
  BY <1>1 DEF StartCheck
<1>2. CASE LockReceipt(c) \/ LockBlock(c)
  BY <1>2 DEF LockReceipt, LockBlock
<1>3. CASE BuddyEvent(c) \/ BuddyReceipt(c) \/ BuddyBlock(c)
  BY <1>3 DEF BuddyEvent, BuddyReceipt, BuddyBlock
<1>4. CASE RedeemReceipt(c) \/ RedeemEventRead(c) \/ GetRedeemEvent(c)
  BY <1>4 DEF RedeemReceipt, RedeemEventRead, GetRedeemEvent
<1>5. CASE RevokeReceipt(c) \/ RevokeEventRead(c) \/ GetRevokeEvent(c)
  BY <1>5 DEF RevokeReceipt, RevokeEventRead, GetRevokeEvent
<1>6. CASE NotYet(c)
  BY <1>6 DEF NotYet
<1>7. CASE CheckRejected(c)
  BY <1>7, CrossAssumption DEF CheckRejected
<1> QED
  BY <1>1, <1>2, <1>3, <1>4, <1>5, <1>6, <1>7 DEF CheckStep

LEMMA TypeCheck ==
  ASSUME TypeOK, NEW c \in Checks, StartCheck(c) \/ CheckStep(c)
  PROVE TypeOK'
<1>0. ASSUME NEW s \in Status PROVE [mem EXCEPT !.status = s] \in Record
  BY <1>0 DEF Record, TypeOK
<1>1. CheckTypeOK'
  BY TypeCheckPc DEF TypeOK
<1>2. mem' \in Record /\ disk' \in Record
  <2> USE DEF Save, recordVars
  <2>0. mem \in Record /\ disk \in Record /\ src.time \in Nat /\ dst.time \in Nat
    BY DEF TypeOK, ChainTypeOK
  <2>1. CASE StartCheck(c)
    BY <2>0, <2>1 DEF StartCheck
  <2>2. CASE LockReceipt(c)
    <3>1. "LockFail" \in Status
      BY DEF Status, LockStatus
    <3> QED
      BY <2>0, <2>2, <1>0, <3>1 DEF LockReceipt
  <2>3. CASE LockBlock(c)
    <3>1. LockTimeOut(src.time) \in Nat
      BY <2>0, ChainAssumption DEF LockTimeOut
    <3>2. [mem EXCEPT !.htlcTimeOut = LockTimeOut(src.time), !.status = "Locked"] \in Record
      BY <2>0, <3>1 DEF Record, Status
    <3> QED
      BY <2>3, <3>2 DEF LockBlock
  <2>4. CASE BuddyEvent(c)
    BY <2>0, <2>4 DEF BuddyEvent
  <2>5. CASE BuddyReceipt(c)
    BY <2>0, <2>5, <1>0 DEF BuddyReceipt, Status
  <2>6. CASE BuddyBlock(c)
    BY <2>0, <2>6, ChainAssumption DEF BuddyBlock, BuddyTimeOut, Record
  <2>7. CASE RedeemReceipt(c)
    BY <2>0, <2>7, <1>0 DEF RedeemReceipt, Status
  <2>8. CASE RedeemEventRead(c) \/ RevokeEventRead(c) \/ NotYet(c) \/ CheckRejected(c)
    BY <2>0, <2>8 DEF RedeemEventRead, RevokeEventRead, NotYet, CheckRejected
  <2>9. CASE GetRedeemEvent(c)
    <3>1. "Redeemed" \in Status /\ "RedeemFail" \in Status
      BY DEF Status, RedeemStatus
    <3>2. ASSUME NEW u \in RedeemCalls
          PROVE [mem EXCEPT !.redeemTx = u, !.status = "Redeemed"] \in Record
      BY <2>0, <3>1 DEF Record
    <3> QED
      <4>1. CASE At(c, "redeemFound")
        BY <2>9, <4>1, <3>2 DEF GetRedeemEvent, At
      <4>2. CASE At(c, "redeemAbsent")
        BY <2>9, <4>2, <1>0, <3>1 DEF GetRedeemEvent, At
      <4> QED
        BY <2>9, <4>1, <4>2 DEF GetRedeemEvent
  <2>10. CASE RevokeReceipt(c)
    BY <2>0, <2>10, <1>0 DEF RevokeReceipt, Status
  <2>11. CASE GetRevokeEvent(c)
    <3>1. "Revoked" \in Status /\ "RevokeFail" \in Status
      BY DEF Status, RevokeStatus
    <3>2. ASSUME NEW u \in RevokeCalls
          PROVE [mem EXCEPT !.revokeTx = u, !.status = "Revoked"] \in Record
      BY <2>0, <3>1 DEF Record
    <3> QED
      BY <2>11, <1>0, <3>1, <3>2 DEF GetRevokeEvent
  <2> QED
    BY <2>1, <2>2, <2>3, <2>4, <2>5, <2>6, <2>7, <2>8, <2>9, <2>10, <2>11 DEF CheckStep
<1> QED
  BY <1>1, <1>2, CheckFrame DEF TypeOK, ChainTypeOK, RunTypeOK

LEMMA TypeRestart == TypeOK /\ (OtherWrite \/ Restart) => TypeOK'
<1>1. SUFFICES ASSUME TypeOK, OtherWrite \/ Restart PROVE TypeOK'
  OBVIOUS
<1> USE DEF TypeOK, chainVars, ChainTypeOK, RunTypeOK, CheckTypeOK
<1>2. CASE OtherWrite
  BY <1>1, <1>2 DEF OtherWrite
<1>3. CASE Restart
  <2>1. RunTypeOK'
    BY <1>1, <1>3 DEF Restart
  <2>2. CheckTypeOK'
    BY <1>3 DEF Restart, Idle, CheckPc
  <2> QED
    BY <1>1, <1>3, <2>1, <2>2, CrossAssumption DEF Restart
<1> QED
  BY <1>1, <1>2, <1>3

LEMMA TypeNext == TypeOK /\ [Next]_vars => TypeOK'
<1>1. SUFFICES ASSUME TypeOK, [Next]_vars PROVE TypeOK'
  OBVIOUS
<1>2. CASE UNCHANGED vars
  BY <1>1, <1>2 DEF vars, chainVars, recordVars, TypeOK, ChainTypeOK, RunTypeOK,
     CheckTypeOK
<1>3. CASE Next
  BY <1>1, <1>3, TypeChain, TypeRun, TypeCheck, TypeRestart DEF Next
<1> QED
  BY <1>1, <1>2, <1>3

(* Every reachable state is well typed: a call never tries more often than *)
(* tryTimes, and the record's fields hold what their readers expect.       *)
THEOREM TypeCorrect == Spec => []TypeOK
BY TypeInit, TypeNext, PTL DEF Spec

-----------------------------------------------------------------------------
(* The inductive invariant.                                                *)

(* What the contracts guarantee between them.                              *)
ChainInv ==
  /\ tx[LockCall] = "ok" <=> src.state # "none"
  /\ \A u \in RedeemCalls : tx[u] = "ok" => dst.state = "redeemed"
  /\ \A u \in RevokeCalls : tx[u] = "ok" => src.state = "revoked"
  /\ dst.state # "none" => src.state # "none" /\ dst.time <= src.time + T
  /\ dst.state = "revoked" => now >= dst.time + T
  /\ src.state = "claimed" => dst.state = "redeemed"

OfferedToRevoke ==
  {"BuddyLocked", "Locked", "RedeemSending", "RedeemSent", "RevokeSent",
   "RevokeSending", "RevokeFail", "RedeemFail"}

(* What a record, in memory or in the file, says about the chains.         *)
RecordInv(r) ==
  /\ r.lockTx \in {LockCall, NoTx}
  /\ r.redeemTx \in RedeemCalls \cup {NoTx}
  /\ r.revokeTx \in RevokeCalls \cup {NoTx}
  /\ r.status \in {"Locked", "BuddyLocked"} => r.htlcTimeOut # NoTime
  /\ r.status = "BuddyLocked" => dst.state # "none"
  /\ r.status = "Redeemed" => dst.state = "redeemed"
  /\ r.status = "Revoked" => src.state = "revoked"
  /\ r.status = "LockFail" /\ r.lockTx # NoTx => tx[LockCall] = "fail"
  /\ r.htlcTimeOut # NoTime => src.state # "none" /\ r.htlcTimeOut = src.time + 2 * T
  /\ r.buddyLockedTimeOut # NoTime =>
       dst.state # "none" /\ dst.equal /\ r.buddyLockedTimeOut = dst.time + T
  /\ Prechecked /\ r.status \in OfferedToRevoke => r.htlcTimeOut # NoTime

(* What a check in flight has already learned.                             *)
CheckInv(k) ==
  /\ k.pc = "lockReceipt" => k.tx \in {LockCall, NoTx}
  /\ k.pc = "lockBlock" => src.state # "none"
  /\ k.pc \in {"buddyReceipt", "buddyBlock"} => dst.state # "none" /\ dst.equal
  /\ k.pc = "redeemReceipt" => k.tx \in RedeemCalls \cup {NoTx}
  /\ k.pc = "revokeReceipt" => k.tx \in RevokeCalls \cup {NoTx}

SettlingPc == {"redeemReceipt", "redeemEvent", "redeemFound", "redeemAbsent",
               "revokeReceipt", "revokeEvent", "revokeFound", "revokeAbsent"}

(* Where the calls and the checks are, against the record in memory.       *)
PhaseInv ==
  /\ run[LockCall].pc \in {"idle", "prepare"} => mem = NoRecord /\ disk = NoRecord
  /\ mem.lockTx # NoTx => run[LockCall].pc = "done"
  /\ \A u \in RedeemCalls \cup RevokeCalls :
       run[u].pc \in Active =>
         /\ run[LockCall].pc \notin {"idle", "prepare"}
         /\ Prechecked => mem.htlcTimeOut # NoTime
  /\ \A c \in Checks :
       /\ check[c].pc # "idle" => run[LockCall].pc \notin {"idle", "prepare"}
       /\ check[c].pc \in SettlingPc /\ Prechecked => mem.htlcTimeOut # NoTime

IInv ==
  /\ TypeOK
  /\ RestartLosesOnlyBuddyMark
  /\ ChainInv
  /\ RecordInv(mem) /\ RecordInv(disk)
  /\ \A c \in Checks : CheckInv(check[c])
  /\ PhaseInv

(* No step of any actor undoes what the chains have done.                  *)
Grows ==
  /\ src.state # "none" => src'.state # "none" /\ src'.time = src.time
  /\ src.state = "revoked" => src'.state = "revoked"
  /\ dst.state # "none" => /\ dst'.state # "none" /\ dst'.time = dst.time
                           /\ dst'.equal = dst.equal
  /\ dst.state = "redeemed" => dst'.state = "redeemed"
  /\ tx[LockCall] = "fail" => tx'[LockCall] = "fail"

LEMMA InitIInv == Init => IInv
<1>1. SUFFICES ASSUME Init PROVE IInv
  OBVIOUS
<1>2. TypeOK
  BY <1>1, TypeInit
<1>3. ChainInv
  BY <1>1 DEF Init, ChainInit, ChainInv
<1>4. RecordInv(mem) /\ RecordInv(disk)
  BY <1>1 DEF Init, RecordInv, NoRecord, NoTime, OfferedToRevoke
<1>5. (\A c \in Checks : CheckInv(check[c])) /\ PhaseInv
  BY <1>1 DEF Init, CheckInv, PhaseInv, Idle, NoRecord, SettlingPc
<1> QED
  BY <1>1, <1>2, <1>3, <1>4, <1>5 DEF IInv, RestartLosesOnlyBuddyMark, Init

LEMMA ChainGrows == TypeOK /\ ChainInv /\ Chain => ChainInv' /\ Grows
<1>1. SUFFICES ASSUME TypeOK, ChainInv, Chain PROVE ChainInv' /\ Grows
  OBVIOUS
<1> USE ChainAssumption DEF TypeOK, ChainTypeOK, ChainInv, Grows
<1>2. CASE Tick
  BY <1>1, <1>2 DEF Tick
<1>3. ASSUME NEW u \in Calls, Mine(u) PROVE ChainInv' /\ Grows
  <2>1. CASE MineLock
    BY <1>1, <2>1 DEF MineLock
  <2>2. CASE MineRedeem(u)
    BY <1>1, <2>2 DEF MineRedeem
  <2>3. CASE MineRevoke(u)
    BY <1>1, <2>3 DEF MineRevoke
  <2>4. CASE MineFailed(u)
    BY <1>1, <2>4 DEF MineFailed
  <2> QED
    BY <1>3, <2>1, <2>2, <2>3, <2>4 DEF Mine
<1>4. ASSUME NEW equal \in BOOLEAN, StoremanLock(equal) PROVE ChainInv' /\ Grows
  BY <1>1, <1>4 DEF StoremanLock
<1>5. CASE StoremanClaim
  BY <1>1, <1>5 DEF StoremanClaim
<1>6. CASE StoremanRevoke
  BY <1>1, <1>6 DEF StoremanRevoke
<1> QED
  BY <1>1, <1>2, <1>3, <1>4, <1>5, <1>6 DEF Chain

(* Sending a transaction hands it to the node and changes nothing else.    *)
LEMMA SendGrows ==
  ASSUME TypeOK, ChainInv, NEW u \in Calls, UNCHANGED <<now, src, dst>>,
         tx' \in {tx, Accepted(u)}
  PROVE  ChainInv' /\ Grows
BY DEF TypeOK, ChainTypeOK, ChainInv, Grows, Accepted

LEMMA StillGrows ==
  ChainInv /\ UNCHANGED <<now, src, dst, tx>> => ChainInv' /\ Grows
BY DEF ChainInv, Grows

(* What a record or a check knows stays true while the chains grow.        *)
LEMMA MemKept ==
  ASSUME mem \in Record, RecordInv(mem), Grows, mem' = mem PROVE RecordInv(mem)'
BY DEF RecordInv, Grows, Record

LEMMA DiskKept ==
  ASSUME disk \in Record, RecordInv(disk), Grows, disk' = disk PROVE RecordInv(disk)'
BY DEF RecordInv, Grows, Record

LEMMA Saved ==
  ASSUME RecordInv(mem)', disk' = mem' PROVE RecordInv(disk)'
BY DEF RecordInv

LEMMA ChecksKept ==
  ASSUME \A c \in Checks : CheckInv(check[c]), Grows, check' = check
  PROVE  \A c \in Checks : CheckInv(check[c])'
BY DEF CheckInv, Grows

LEMMA InvChain == IInv /\ ChainStep => IInv'
<1>1. SUFFICES ASSUME IInv, ChainStep PROVE IInv'
  OBVIOUS
<1> USE DEF IInv
<1>2. ChainInv' /\ Grows
  BY <1>1, ChainGrows DEF ChainStep
<1>3. TypeOK' /\ UNCHANGED <<mem, disk, run, check>>
  BY <1>1, TypeChain DEF ChainStep, recordVars
<1>4. mem \in Record /\ disk \in Record
  BY <1>1 DEF TypeOK
<1>5. RecordInv(mem)' /\ RecordInv(disk)'
  BY <1>1, <1>2, <1>3, <1>4, MemKept, DiskKept
<1>6. \A c \in Checks : CheckInv(check[c])'
  BY <1>1, <1>2, <1>3, ChecksKept
<1>7. RestartLosesOnlyBuddyMark' /\ PhaseInv'
  BY <1>1, <1>3 DEF RestartLosesOnlyBuddyMark, PhaseInv
<1> QED
  BY <1>2, <1>3, <1>5, <1>6, <1>7

(* The calls.                                                              *)
LEMMA InvInvoke ==
  ASSUME IInv, NEW u \in Calls, Invoke(u) PROVE IInv'
<1> USE DEF IInv
<1>1. TypeOK' /\ UNCHANGED <<now, src, dst, tx, mem, disk, check>>
  BY TypeRun DEF Invoke, chainVars, recordVars
<1>2. ChainInv' /\ Grows
  BY <1>1, StillGrows
<1>3. RecordInv(mem)' /\ RecordInv(disk)'
  BY <1>1, <1>2, MemKept, DiskKept DEF TypeOK
<1>4. \A c \in Checks : CheckInv(check[c])'
  BY <1>1, <1>2, ChecksKept
<1>5. RestartLosesOnlyBuddyMark'
  BY <1>1 DEF RestartLosesOnlyBuddyMark
<1>6. PhaseInv'
  <2>1. u # LockCall => run[LockCall].pc \notin {"idle", "prepare"}
    BY DEF Invoke, Exists, PhaseInv, NoRecord
  <2>2. u # LockCall /\ Prechecked => mem.htlcTimeOut # NoTime
    <3>1. CanRedeem(mem) \/ CanRevoke(mem) => mem.status \in OfferedToRevoke
      BY DEF CanRedeem, CanRevoke, OfferedToRevoke
    <3> QED
      BY <3>1, CheckedCall DEF Invoke, CheckPreCondition, RecordInv
  <2>3. run' = [run EXCEPT ![u].pc = "prepare"] /\ run[u].pc = "idle"
    BY DEF Invoke
  <2>4. run'[u].pc = "prepare" /\ \A v \in Calls \ {u} : run'[v] = run[v]
    BY <2>3 DEF TypeOK, RunTypeOK
  <2>5. CASE u = LockCall
    BY <1>1, <2>3, <2>4, <2>5, ChainAssumption DEF PhaseInv
  <2>6. CASE u # LockCall
    <3>1. run'[LockCall] = run[LockCall]
      BY <2>4, <2>6
    <3>2. ASSUME NEW v \in RedeemCalls \cup RevokeCalls, run'[v].pc \in Active
          PROVE  run[LockCall].pc \notin {"idle", "prepare"}
                   /\ (Prechecked => mem.htlcTimeOut # NoTime)
      <4>1. CASE v = u
        BY <2>1, <2>2, <2>6, <4>1
      <4>2. CASE v # u
        BY <2>4, <3>2, <4>2 DEF PhaseInv
      <4> QED
        BY <4>1, <4>2
    <3> QED
      BY <1>1, <3>1, <3>2 DEF PhaseInv
  <2> QED
    BY <2>5, <2>6
<1> QED
  BY <1>1, <1>2, <1>3, <1>4, <1>5, <1>6

LEMMA InvPrepareFails ==
  ASSUME IInv, NEW u \in Calls, PrepareFails(u) PROVE IInv'
<1> USE DEF IInv
<1>1. TypeOK' /\ UNCHANGED <<now, src, dst, tx, mem, disk, check>>
  BY TypeRun DEF RunStep, PrepareFails, chainVars, recordVars
<1>2. ChainInv' /\ Grows
  BY <1>1, StillGrows
<1>3. RecordInv(mem)' /\ RecordInv(disk)'
  BY <1>1, <1>2, MemKept, DiskKept DEF TypeOK
<1>4. \A c \in Checks : CheckInv(check[c])'
  BY <1>1, <1>2, ChecksKept
<1>5. RestartLosesOnlyBuddyMark'
  BY <1>1 DEF RestartLosesOnlyBuddyMark
<1>6. PhaseInv'
  <2>1. run[u].pc = "prepare" /\ run'[u].pc = "done" /\ \A v \in Calls \ {u} : run'[v] = run[v]
    BY DEF PrepareFails, TypeOK, RunTypeOK
  <2> QED
    BY <1>1, <2>1 DEF PhaseInv
<1> QED
  BY <1>1, <1>2, <1>3, <1>4, <1>5, <1>6

LEMMA InvPreSendTrans ==
  ASSUME IInv, NEW u \in Calls, PreSendTrans(u) PROVE IInv'
<1> USE DEF IInv
<1>1. TypeOK' /\ UNCHANGED <<now, src, dst, tx, check>>
  BY TypeRun DEF RunStep, PreSendTrans, chainVars
<1>2. ChainInv' /\ Grows
  BY <1>1, StillGrows
<1>3. /\ run[u].pc = "prepare" /\ run'[u].pc = "send"
      /\ \A v \in Calls \ {u} : run'[v] = run[v]
  BY DEF PreSendTrans, TypeOK, RunTypeOK
<1>4. CASE u = LockCall
  <2>1. mem' = [NoRecord EXCEPT !.status = "LockSending"] /\ disk' = mem'
    BY <1>4, ChainAssumption, ClassFacts DEF PreSendTrans, Save, LockPreSend
  <2>2. RecordInv(mem)'
    BY <2>1 DEF RecordInv, NoRecord, OfferedToRevoke
  <2>3. PhaseInv'
    BY <1>1, <1>3, <1>4, <2>1, ChainAssumption DEF PhaseInv, NoRecord
  <2> QED
    BY <1>1, <1>2, <2>1, <2>2, <2>3, Saved, ChecksKept DEF RestartLosesOnlyBuddyMark
<1>5. CASE u # LockCall
  <2>1. \E s \in {"RedeemSending", "RevokeSending"} : mem' = [mem EXCEPT !.status = s]
    BY <1>5, ChainAssumption, ClassFacts DEF PreSendTrans, Save, RedeemPreSend, RevokePreSend
  <2>2. disk' = mem'
    BY DEF PreSendTrans, Save
  <2>3. Prechecked => mem.htlcTimeOut # NoTime
    BY <1>3, <1>5 DEF PhaseInv
  <2>4. mem \in Record
    BY DEF TypeOK
  <2>5. RecordInv(mem)'
    BY <1>1, <2>1, <2>3, <2>4 DEF RecordInv, OfferedToRevoke, Record
  <2>6. PhaseInv'
    BY <1>1, <1>3, <1>5, <2>1, <2>4 DEF PhaseInv, Record
  <2> QED
    BY <1>1, <1>2, <2>2, <2>5, <2>6, Saved, ChecksKept DEF RestartLosesOnlyBuddyMark
<1> QED
  BY <1>4, <1>5

LEMMA InvSendAnswered ==
  ASSUME IInv, NEW u \in Calls, SendAnswered(u) PROVE IInv'
<1> USE DEF IInv
<1>1. TypeOK' /\ UNCHANGED <<now, src, dst, check>> /\ disk' = mem'
  BY TypeRun DEF RunStep, SendAnswered, Save
<1>2. ChainInv' /\ Grows
  BY <1>1, SendGrows DEF SendAnswered
<1>3. /\ run[u].pc = "send" /\ run'[u].pc = "done"
      /\ \A v \in Calls \ {u} : run'[v] = run[v]
  BY DEF SendAnswered, TypeOK, RunTypeOK
<1>4. mem \in Record
  BY DEF TypeOK
<1>5. CASE u = LockCall
  <2>1. mem' = [mem EXCEPT !.status = "LockSent", !.lockTx = u]
    BY <1>5, ChainAssumption, ClassFacts DEF SendAnswered, Save, LockPostSend
  <2>2. RecordInv(mem)'
    BY <1>1, <1>4, <1>5, <2>1 DEF RecordInv, OfferedToRevoke, Record
  <2>3. PhaseInv'
    BY <1>1, <1>3, <1>4, <1>5, <2>1 DEF PhaseInv, Record
  <2> QED
    BY <1>1, <1>2, <2>2, <2>3, Saved, ChecksKept DEF RestartLosesOnlyBuddyMark
<1>6. CASE u # LockCall
  <2>1. \/ u \in RedeemCalls /\ mem' = [mem EXCEPT !.status = "RedeemSent", !.redeemTx = u]
        \/ u \in RevokeCalls /\ mem' = [mem EXCEPT !.status = "RevokeSent", !.revokeTx = u]
    BY <1>6, ChainAssumption, ClassFacts DEF SendAnswered, Save, RedeemPostSend, RevokePostSend
  <2>2. Prechecked => mem.htlcTimeOut # NoTime
    BY <1>3, <1>6 DEF PhaseInv
  <2>3. RecordInv(mem)'
    <3>1. CASE u \in RedeemCalls /\ mem' = [mem EXCEPT !.status = "RedeemSent", !.redeemTx = u]
      BY <1>1, <1>4, <2>2, <3>1 DEF RecordInv, Record
    <3>2. CASE u \in RevokeCalls /\ mem' = [mem EXCEPT !.status = "RevokeSent", !.revokeTx = u]
      BY <1>1, <1>4, <2>2, <3>2 DEF RecordInv, Record
    <3> QED
      BY <2>1, <3>1, <3>2
  <2>4. PhaseInv'
    BY <1>1, <1>3, <1>4, <1>6, <2>1 DEF PhaseInv, Record
  <2> QED
    BY <1>1, <1>2, <2>3, <2>4, Saved, ChecksKept DEF RestartLosesOnlyBuddyMark
<1> QED
  BY <1>5, <1>6

LEMMA InvSendRejected ==
  ASSUME IInv, NEW u \in Calls, SendRejected(u) PROVE IInv'
<1> USE DEF IInv
<1>1. TypeOK' /\ UNCHANGED <<now, src, dst, mem, disk, check>>
  BY TypeRun DEF RunStep, SendRejected, recordVars
<1>2. ChainInv' /\ Grows
  BY <1>1, SendGrows DEF SendRejected
<1>3. /\ run[u].pc = "send" /\ run'[u].pc \in {"send", "failing"}
      /\ \A v \in Calls \ {u} : run'[v] = run[v]
  BY DEF SendRejected, NextTry, TypeOK, RunTypeOK
<1>4. RecordInv(mem)' /\ RecordInv(disk)'
  BY <1>1, <1>2, MemKept, DiskKept DEF TypeOK
<1>5. PhaseInv'
  BY <1>1, <1>3 DEF PhaseInv
<1> QED
  BY <1>1, <1>2, <1>4, <1>5, ChecksKept DEF RestartLosesOnlyBuddyMark

LEMMA InvTransFailed ==
  ASSUME IInv, NEW u \in Calls, TransFailed(u) PROVE IInv'
<1> USE DEF IInv
<1>1. TypeOK' /\ UNCHANGED <<now, src, dst, tx, check>> /\ disk' = mem'
  BY TypeRun DEF RunStep, TransFailed, Save, chainVars
<1>2. ChainInv' /\ Grows
  BY <1>1, StillGrows
<1>3. /\ run[u].pc = "failing" /\ run'[u].pc = "done"
      /\ \A v \in Calls \ {u} : run'[v] = run[v]
  BY DEF TransFailed, TypeOK, RunTypeOK
<1>4. mem \in Record
  BY DEF TypeOK
<1>5. PICK s : /\ mem' = [mem EXCEPT !.status = s]
               /\ \/ u = LockCall /\ s = "LockFail"
                  \/ u # LockCall /\ s \in {"RedeemFail", "RevokeFail"}
  BY ChainAssumption, FailedStatus DEF TransFailed, Save
<1>6. u = LockCall => mem.lockTx = NoTx
  BY <1>3 DEF PhaseInv
<1>7. u # LockCall /\ Prechecked => mem.htlcTimeOut # NoTime
  BY <1>3 DEF PhaseInv
<1>8. RecordInv(mem)'
  BY <1>1, <1>4, <1>5, <1>6, <1>7 DEF RecordInv, OfferedToRevoke, Record
<1>9. PhaseInv'
  BY <1>1, <1>3, <1>4, <1>5 DEF PhaseInv, Record
<1> QED
  BY <1>1, <1>2, <1>8, <1>9, Saved, ChecksKept DEF RestartLosesOnlyBuddyMark

LEMMA InvRun ==
  ASSUME IInv, NEW u \in Calls, Invoke(u) \/ RunStep(u) PROVE IInv'
BY InvInvoke, InvPrepareFails, InvPreSendTrans, InvSendAnswered, InvSendRejected,
   InvTransFailed DEF RunStep

(* The checks: none of them moves a chain or a call.                       *)
LEMMA CheckStepKeeps ==
  ASSUME IInv, NEW c \in Checks, StartCheck(c) \/ CheckStep(c)
  PROVE  TypeOK' /\ ChainInv' /\ Grows /\ UNCHANGED <<src, dst, tx, run>>
BY CheckFrame, TypeCheck, StillGrows DEF IInv

(* A check that moves on from what it knew keeps the checks' invariant.    *)
LEMMA CheckMoved ==
  ASSUME IInv, Grows, NEW c \in Checks, NEW k, check' = [check EXCEPT ![c] = k],
         CheckInv(k)', k.pc \in SettlingPc /\ Prechecked => mem'.htlcTimeOut # NoTime,
         mem.htlcTimeOut # NoTime => mem'.htlcTimeOut # NoTime,
         mem'.lockTx = mem.lockTx, run' = run,
         run[LockCall].pc \notin {"idle", "prepare"}
  PROVE  (\A d \in Checks : CheckInv(check[d])') /\ PhaseInv'
<1>1. check'[c] = k /\ \A d \in Checks \ {c} : check'[d] = check[d]
  BY DEF IInv, TypeOK, CheckTypeOK
<1>2. ASSUME NEW d \in Checks PROVE CheckInv(check[d])'
  <2>1. CASE d = c
    BY <1>1, <2>1 DEF CheckInv
  <2>2. CASE d # c
    BY <1>1, <2>2 DEF IInv, CheckInv, Grows
  <2> QED
    BY <2>1, <2>2
<1>3. PhaseInv'
  BY <1>1 DEF IInv, PhaseInv
<1> QED
  BY <1>2, <1>3

(* Such a step that leaves the record alone.                               *)
LEMMA CheckQuiet ==
  ASSUME IInv, TypeOK', ChainInv', Grows, NEW c \in Checks, NEW k,
         check' = [check EXCEPT ![c] = k], CheckInv(k)',
         k.pc \in SettlingPc /\ Prechecked => mem.htlcTimeOut # NoTime,
         run[LockCall].pc \notin {"idle", "prepare"},
         UNCHANGED <<mem, disk, run>>
  PROVE  IInv'
<1>1. RecordInv(mem)' /\ RecordInv(disk)'
  BY MemKept, DiskKept DEF IInv, TypeOK
<1>2. (\A d \in Checks : CheckInv(check[d])') /\ PhaseInv'
  BY CheckMoved
<1>3. RestartLosesOnlyBuddyMark'
  BY DEF IInv, RestartLosesOnlyBuddyMark
<1> QED
  BY <1>1, <1>2, <1>3 DEF IInv

(* And one that ends with the record saved.                                *)
LEMMA CheckSaved ==
  ASSUME IInv, TypeOK', ChainInv', Grows, NEW c \in Checks, End(c),
         RecordInv(mem)', disk' = mem', run' = run, mem'.lockTx = mem.lockTx,
         mem.htlcTimeOut # NoTime => mem'.htlcTimeOut # NoTime,
         run[LockCall].pc \notin {"idle", "prepare"}
  PROVE  IInv'
<1>1. PICK k : k = Idle
  OBVIOUS
<1>2. check' = [check EXCEPT ![c] = k]
  BY <1>1 DEF End
<1>3. CheckInv(k)' /\ k.pc \notin SettlingPc
  BY <1>1 DEF CheckInv, Idle, SettlingPc
<1>4. (\A d \in Checks : CheckInv(check[d])') /\ PhaseInv'
  BY <1>2, <1>3, CheckMoved
<1> QED
  BY <1>4, Saved DEF IInv, RestartLosesOnlyBuddyMark

LEMMA InvStartCheck ==
  ASSUME IInv, NEW c \in Checks, StartCheck(c) PROVE IInv'
<1>1. TypeOK' /\ ChainInv' /\ Grows /\ UNCHANGED <<src, dst, tx, run, mem, disk>>
  BY CheckStepKeeps DEF StartCheck, recordVars
<1>2. PICK k : /\ check' = [check EXCEPT ![c] = k]
               /\ \/ mem.status = "LockSent" /\ k = [pc |-> "lockReceipt", tx |-> mem.lockTx]
                  \/ mem.status = "Locked" /\ k = [pc |-> "buddyEvent", tx |-> NoTx]
                  \/ mem.status = "RedeemSent" /\ k = [pc |-> "redeemReceipt", tx |-> mem.redeemTx]
                  \/ mem.status = "RevokeSent" /\ k = [pc |-> "revokeReceipt", tx |-> mem.revokeTx]
  BY DEF StartCheck
<1>3. CheckInv(k)'
  BY <1>2 DEF IInv, RecordInv, CheckInv
<1>4. k.pc \in SettlingPc /\ Prechecked => mem.htlcTimeOut # NoTime
  BY <1>2 DEF IInv, RecordInv, OfferedToRevoke, SettlingPc
<1>5. run[LockCall].pc \notin {"idle", "prepare"}
  BY <1>2 DEF IInv, PhaseInv, NoRecord
<1> QED
  BY <1>1, <1>2, <1>3, <1>4, <1>5, CheckQuiet

LEMMA InFlight ==
  ASSUME IInv, NEW c \in Checks, ~ At(c, "idle")
  PROVE  run[LockCall].pc \notin {"idle", "prepare"}
BY DEF IInv, PhaseInv, At

(* A check that goes to another point of its handler, or ends, without     *)
(* touching the record.                                                    *)
LEMMA InvQuiet ==
  ASSUME IInv, NEW c \in Checks, CheckStep(c), ~ At(c, "idle"), UNCHANGED <<mem, disk>>,
         NEW pc, Goto(c, pc) \/ End(c),
         pc \in SettlingPc => check[c].pc \in SettlingPc,
         pc \notin {"lockReceipt", "redeemReceipt", "revokeReceipt"},
         pc = "lockBlock" => src.state # "none",
         pc \in {"buddyReceipt", "buddyBlock"} => dst.state # "none" /\ dst.equal
  PROVE  IInv'
<1>1. TypeOK' /\ ChainInv' /\ Grows /\ UNCHANGED <<src, dst, tx, run>>
  BY CheckStepKeeps
<1>2. PICK k : check' = [check EXCEPT ![c] = k] /\ k.pc \in {pc, "idle"}
  <2>1. CASE Goto(c, pc)
    <3>1. check' = [check EXCEPT ![c] = [check[c] EXCEPT !.pc = pc]]
      BY <2>1 DEF Goto
    <3>2. [check[c] EXCEPT !.pc = pc].pc = pc
      BY DEF IInv, TypeOK, CheckTypeOK
    <3> QED
      BY <3>1, <3>2
  <2>2. CASE End(c)
    <3>1. check' = [check EXCEPT ![c] = Idle]
      BY <2>2 DEF End
    <3>2. Idle.pc = "idle"
      BY DEF Idle
    <3> QED
      BY <3>1, <3>2
  <2> QED
    BY <2>1, <2>2
<1>3. CheckInv(k)'
  BY <1>1, <1>2 DEF CheckInv
<1>4. k.pc \in SettlingPc /\ Prechecked => mem.htlcTimeOut # NoTime
  BY <1>2 DEF IInv, PhaseInv, SettlingPc
<1> QED
  BY <1>1, <1>2, <1>3, <1>4, InFlight, CheckQuiet

LEMMA InvLockReceipt ==
  ASSUME IInv, NEW c \in Checks, LockReceipt(c) PROVE IInv'
<1>1. TypeOK' /\ ChainInv' /\ Grows /\ UNCHANGED <<src, dst, tx, run>>
  BY CheckStepKeeps DEF CheckStep
<1>2. check[c].tx \in {LockCall, NoTx} /\ ~ At(c, "idle")
  BY DEF LockReceipt, At, IInv, CheckInv
<1>3. CASE Receipt(c) = "ok" /\ Goto(c, "lockBlock") /\ UNCHANGED recordVars
  <2>1. src.state # "none"
    BY <1>2, <1>3, CrossAssumption DEF Receipt, IInv, ChainInv
  <2>2. CheckStep(c) /\ UNCHANGED <<mem, disk>>
    BY <1>3 DEF CheckStep, recordVars
  <2> QED
    BY <1>2, <1>3, <2>1, <2>2, InvQuiet DEF SettlingPc
<1>4. CASE Receipt(c) = "fail" /\ Save([mem EXCEPT !.status = "LockFail"]) /\ End(c)
  <2>1. tx[LockCall] = "fail"
    BY <1>2, <1>4, CrossAssumption DEF Receipt
  <2>2. mem' = [mem EXCEPT !.status = "LockFail"] /\ disk' = mem' /\ mem \in Record
    BY <1>4 DEF Save, IInv, TypeOK
  <2>3. RecordInv(mem)'
    BY <1>1, <2>1, <2>2 DEF IInv, RecordInv, Record, OfferedToRevoke
  <2>4. mem'.lockTx = mem.lockTx /\ mem'.htlcTimeOut = mem.htlcTimeOut
    BY <2>2 DEF Record
  <2> QED
    BY <1>1, <1>2, <1>4, <2>2, <2>3, <2>4, InFlight, CheckSaved
<1> QED
  BY <1>3, <1>4 DEF LockReceipt

LEMMA InvLockBlock ==
  ASSUME IInv, NEW c \in Checks, LockBlock(c) PROVE IInv'
<1>1. TypeOK' /\ ChainInv' /\ Grows /\ UNCHANGED <<src, dst, tx, run>>
  BY CheckStepKeeps DEF CheckStep
<1>2. src.state # "none" /\ ~ At(c, "idle") /\ End(c)
  BY DEF LockBlock, At, IInv, CheckInv
<1>3. /\ mem' = [mem EXCEPT !.htlcTimeOut = LockTimeOut(src.time), !.status = "Locked"]
      /\ disk' = mem' /\ mem \in Record /\ src.time \in Nat
  BY DEF LockBlock, Save, IInv, TypeOK, ChainTypeOK
<1>4. LockTimeOut(src.time) = src.time + 2 * T /\ LockTimeOut(src.time) # NoTime
  BY <1>3, ChainAssumption DEF LockTimeOut, NoTime
<1>5. mem'.lockTx = mem.lockTx /\ mem'.htlcTimeOut = src.time + 2 * T /\ mem'.htlcTimeOut # NoTime
  BY <1>3, <1>4 DEF Record
<1>6. RecordInv(mem)'
  BY <1>1, <1>2, <1>3, <1>5 DEF IInv, RecordInv, Record
<1> QED
  BY <1>1, <1>2, <1>3, <1>5, <1>6, InFlight, CheckSaved

LEMMA InvBuddyEvent ==
  ASSUME IInv, NEW c \in Checks, BuddyEvent(c) PROVE IInv'
<1>1. CheckStep(c) /\ UNCHANGED <<mem, disk>> /\ ~ At(c, "idle")
  BY DEF BuddyEvent, CheckStep, recordVars, At
<1>2. CASE dst.equal
  BY <1>1, <1>2, InvQuiet DEF BuddyEvent, SettlingPc
<1>3. CASE ~ dst.equal
  BY <1>1, <1>3, InvQuiet DEF BuddyEvent, SettlingPc
<1> QED
  BY <1>2, <1>3

(* The mark is set while the file still says Locked; the second look at    *)
(* the status is what makes this the only difference.                      *)
LEMMA InvBuddyReceipt ==
  ASSUME IInv, NEW c \in Checks, BuddyReceipt(c) PROVE IInv'
<1>1. TypeOK' /\ ChainInv' /\ Grows /\ UNCHANGED <<src, dst, tx, run, disk>>
  BY CheckStepKeeps DEF CheckStep, BuddyReceipt
<1>2. CheckStep(c) /\ ~ At(c, "idle") /\ At(c, "buddyReceipt")
  BY DEF BuddyReceipt, CheckStep, At
<1>3. dst.state # "none" /\ dst.equal
  BY <1>2 DEF At, IInv, CheckInv
<1>4. CASE mem.status # "Locked"
  BY <1>1, <1>2, <1>4, InvQuiet DEF BuddyReceipt, SettlingPc
<1>5. CASE mem.status = "Locked"
  <2>1. mem' = [mem EXCEPT !.status = "BuddyLocked"] /\ Goto(c, "buddyBlock")
    BY <1>5 DEF BuddyReceipt
  <2>2. mem \in Record /\ disk \in Record
    BY DEF IInv, TypeOK
  <2>3. mem = disk
    BY <1>5, <2>2 DEF IInv, RestartLosesOnlyBuddyMark, Record
  <2>4. RestartLosesOnlyBuddyMark'
    BY <1>1, <1>5, <2>1, <2>3 DEF RestartLosesOnlyBuddyMark
  <2>5. RecordInv(mem)' /\ mem'.lockTx = mem.lockTx /\ mem'.htlcTimeOut = mem.htlcTimeOut
    BY <1>1, <1>3, <1>5, <2>1, <2>2 DEF IInv, RecordInv, Record
  <2>6. PICK k : check' = [check EXCEPT ![c] = k] /\ k = [check[c] EXCEPT !.pc = "buddyBlock"]
    BY <2>1 DEF Goto
  <2>7. k.pc = "buddyBlock"
    BY <2>6 DEF IInv, TypeOK, CheckTypeOK
  <2>8. CheckInv(k)' /\ k.pc \notin SettlingPc
    BY <1>1, <1>3, <2>7 DEF CheckInv, SettlingPc
  <2>9. (\A d \in Checks : CheckInv(check[d])') /\ PhaseInv'
    BY <1>1, <1>2, <2>5, <2>6, <2>8, InFlight, CheckMoved
  <2> QED
    BY <1>1, <2>2, <2>4, <2>5, <2>9, DiskKept DEF IInv
<1> QED
  BY <1>4, <1>5

LEMMA InvBuddyBlock ==
  ASSUME IInv, NEW c \in Checks, BuddyBlock(c) PROVE IInv'
<1>1. TypeOK' /\ ChainInv' /\ Grows /\ UNCHANGED <<src, dst, tx, run>>
  BY CheckStepKeeps DEF CheckStep
<1>2. dst.state # "none" /\ dst.equal /\ ~ At(c, "idle") /\ End(c)
  BY DEF BuddyBlock, At, IInv, CheckInv
<1>3. /\ mem' = [mem EXCEPT !.buddyLockedTimeOut = dst.time + T]
      /\ disk' = mem' /\ mem \in Record
  BY DEF BuddyBlock, BuddyTimeOut, Save, IInv, TypeOK
<1>4. mem'.lockTx = mem.lockTx /\ mem'.htlcTimeOut = mem.htlcTimeOut
  BY <1>3 DEF Record
<1>5. RecordInv(mem)'
  BY <1>1, <1>2, <1>3 DEF IInv, RecordInv, Record
<1> QED
  BY <1>1, <1>2, <1>3, <1>4, <1>5, InFlight, CheckSaved

LEMMA InvRedeemReceipt ==
  ASSUME IInv, NEW c \in Checks, RedeemReceipt(c) PROVE IInv'
<1>1. TypeOK' /\ ChainInv' /\ Grows /\ UNCHANGED <<src, dst, tx, run>>
  BY CheckStepKeeps DEF CheckStep
<1>2. check[c].tx \in RedeemCalls \cup {NoTx} /\ ~ At(c, "idle") /\ At(c, "redeemReceipt")
  BY DEF RedeemReceipt, At, IInv, CheckInv
<1>3. CASE Receipt(c) = "ok" /\ Save([mem EXCEPT !.status = "Redeemed"]) /\ End(c)
  <2>1. dst.state = "redeemed"
    BY <1>2, <1>3, CrossAssumption DEF Receipt, IInv, ChainInv
  <2>2. mem' = [mem EXCEPT !.status = "Redeemed"] /\ disk' = mem' /\ mem \in Record
    BY <1>3 DEF Save, IInv, TypeOK
  <2>3. RecordInv(mem)'
    BY <1>1, <2>1, <2>2 DEF IInv, RecordInv, Record, OfferedToRevoke
  <2>4. mem'.lockTx = mem.lockTx /\ mem'.htlcTimeOut = mem.htlcTimeOut
    BY <2>2 DEF Record
  <2> QED
    BY <1>1, <1>2, <1>3, <2>2, <2>3, <2>4, InFlight, CheckSaved
<1>4. CASE LookForEvent(c, "redeemEvent") /\ UNCHANGED recordVars
  <2>1. CheckStep(c) /\ UNCHANGED <<mem, disk>>
    BY <1>4 DEF CheckStep, recordVars
  <2>2. check[c].pc \in SettlingPc
    BY <1>2 DEF At, SettlingPc
  <2> QED
    BY <1>2, <1>4, <2>1, <2>2, InvQuiet, LooksOrEnds
<1> QED
  BY <1>3, <1>4 DEF RedeemReceipt

LEMMA InvRedeemEventRead ==
  ASSUME IInv, NEW c \in Checks, RedeemEventRead(c) PROVE IInv'
<1>1. CheckStep(c) /\ UNCHANGED <<mem, disk>> /\ ~ At(c, "idle") /\ check[c].pc \in SettlingPc
  BY DEF RedeemEventRead, CheckStep, recordVars, At, SettlingPc
<1>2. PICK pc \in {"redeemFound", "redeemAbsent"} : Goto(c, pc)
  BY DEF RedeemEventRead
<1> QED
  BY <1>1, <1>2, InvQuiet

LEMMA InvGetRedeemEvent ==
  ASSUME IInv, NEW c \in Checks, GetRedeemEvent(c) PROVE IInv'
<1>1. TypeOK' /\ ChainInv' /\ Grows /\ UNCHANGED <<src, dst, tx, run>>
  BY CheckStepKeeps DEF CheckStep
<1>2. ~ At(c, "idle") /\ End(c) /\ mem \in Record /\ disk' = mem'
  BY DEF GetRedeemEvent, At, Save, IInv, TypeOK
<1>3. Prechecked => mem.htlcTimeOut # NoTime
  BY DEF GetRedeemEvent, At, IInv, PhaseInv, SettlingPc
<1>4. CASE \E u \in RedeemCalls :
             /\ tx[u] = "ok"
             /\ Save([mem EXCEPT !.redeemTx = u, !.status = "Redeemed"])
  <2>1. PICK u \in RedeemCalls :
          tx[u] = "ok" /\ mem' = [mem EXCEPT !.redeemTx = u, !.status = "Redeemed"]
    BY <1>4 DEF Save
  <2>2. dst.state = "redeemed"
    BY <2>1 DEF IInv, ChainInv
  <2>3. RecordInv(mem)' /\ mem'.lockTx = mem.lockTx /\ mem'.htlcTimeOut = mem.htlcTimeOut
    BY <1>1, <1>2, <2>1, <2>2 DEF IInv, RecordInv, Record, OfferedToRevoke
  <2> QED
    BY <1>1, <1>2, <2>3, InFlight, CheckSaved
<1>5. CASE Save([mem EXCEPT !.status = "RedeemFail"])
  <2>1. mem' = [mem EXCEPT !.status = "RedeemFail"]
    BY <1>5 DEF Save
  <2>2. RecordInv(mem)' /\ mem'.lockTx = mem.lockTx /\ mem'.htlcTimeOut = mem.htlcTimeOut
    BY <1>1, <1>2, <1>3, <2>1 DEF IInv, RecordInv, Record, OfferedToRevoke
  <2> QED
    BY <1>1, <1>2, <2>2, InFlight, CheckSaved
<1> QED
  BY <1>4, <1>5 DEF GetRedeemEvent

LEMMA InvRevokeReceipt ==
  ASSUME IInv, NEW c \in Checks, RevokeReceipt(c) PROVE IInv'
<1>1. TypeOK' /\ ChainInv' /\ Grows /\ UNCHANGED <<src, dst, tx, run>>
  BY CheckStepKeeps DEF CheckStep
<1>2. check[c].tx \in RevokeCalls \cup {NoTx} /\ ~ At(c, "idle") /\ At(c, "revokeReceipt")
  BY DEF RevokeReceipt, At, IInv, CheckInv
<1>3. CASE Receipt(c) = "ok" /\ Save([mem EXCEPT !.status = "Revoked"]) /\ End(c)
  <2>1. src.state = "revoked"
    BY <1>2, <1>3, CrossAssumption DEF Receipt, IInv, ChainInv
  <2>2. mem' = [mem EXCEPT !.status = "Revoked"] /\ disk' = mem' /\ mem \in Record
    BY <1>3 DEF Save, IInv, TypeOK
  <2>3. RecordInv(mem)'
    BY <1>1, <2>1, <2>2 DEF IInv, RecordInv, Record, OfferedToRevoke
  <2>4. mem'.lockTx = mem.lockTx /\ mem'.htlcTimeOut = mem.htlcTimeOut
    BY <2>2 DEF Record
  <2> QED
    BY <1>1, <1>2, <1>3, <2>2, <2>3, <2>4, InFlight, CheckSaved
<1>4. CASE LookForEvent(c, "revokeEvent") /\ UNCHANGED recordVars
  <2>1. CheckStep(c) /\ UNCHANGED <<mem, disk>>
    BY <1>4 DEF CheckStep, recordVars
  <2>2. check[c].pc \in SettlingPc
    BY <1>2 DEF At, SettlingPc
  <2> QED
    BY <1>2, <1>4, <2>1, <2>2, InvQuiet, LooksOrEnds
<1> QED
  BY <1>3, <1>4 DEF RevokeReceipt

LEMMA InvRevokeEventRead ==
  ASSUME IInv, NEW c \in Checks, RevokeEventRead(c) PROVE IInv'
<1>1. CheckStep(c) /\ UNCHANGED <<mem, disk>> /\ ~ At(c, "idle") /\ check[c].pc \in SettlingPc
  BY DEF RevokeEventRead, CheckStep, recordVars, At, SettlingPc
<1>2. PICK pc \in {"revokeFound", "revokeAbsent"} : Goto(c, pc)
  BY DEF RevokeEventRead
<1> QED
  BY <1>1, <1>2, InvQuiet

LEMMA InvGetRevokeEvent ==
  ASSUME IInv, NEW c \in Checks, GetRevokeEvent(c) PROVE IInv'
<1>1. TypeOK' /\ ChainInv' /\ Grows /\ UNCHANGED <<src, dst, tx, run>>
  BY CheckStepKeeps DEF CheckStep
<1>2. ~ At(c, "idle") /\ End(c) /\ mem \in Record /\ disk' = mem'
  BY DEF GetRevokeEvent, At, Save, IInv, TypeOK
<1>3. Prechecked => mem.htlcTimeOut # NoTime
  BY DEF GetRevokeEvent, At, IInv, PhaseInv, SettlingPc
<1>4. CASE \E u \in RevokeCalls :
             /\ tx[u] = "ok"
             /\ Save([mem EXCEPT !.revokeTx = u, !.status = "Revoked"])
  <2>1. PICK u \in RevokeCalls :
          tx[u] = "ok" /\ mem' = [mem EXCEPT !.revokeTx = u, !.status = "Revoked"]
    BY <1>4 DEF Save
  <2>2. src.state = "revoked"
    BY <2>1 DEF IInv, ChainInv
  <2>3. RecordInv(mem)' /\ mem'.lockTx = mem.lockTx /\ mem'.htlcTimeOut = mem.htlcTimeOut
    BY <1>1, <1>2, <2>1, <2>2 DEF IInv, RecordInv, Record, OfferedToRevoke
  <2> QED
    BY <1>1, <1>2, <2>3, InFlight, CheckSaved
<1>5. CASE Save([mem EXCEPT !.status = "RevokeFail"])
  <2>1. mem' = [mem EXCEPT !.status = "RevokeFail"]
    BY <1>5 DEF Save
  <2>2. RecordInv(mem)' /\ mem'.lockTx = mem.lockTx /\ mem'.htlcTimeOut = mem.htlcTimeOut
    BY <1>1, <1>2, <1>3, <2>1 DEF IInv, RecordInv, Record, OfferedToRevoke
  <2> QED
    BY <1>1, <1>2, <2>2, InFlight, CheckSaved
<1> QED
  BY <1>4, <1>5 DEF GetRevokeEvent

LEMMA InvCheckEnds ==
  ASSUME IInv, NEW c \in Checks, NotYet(c) \/ CheckRejected(c) PROVE IInv'
<1>1. CheckStep(c) /\ UNCHANGED <<mem, disk>> /\ ~ At(c, "idle") /\ End(c)
  BY DEF NotYet, CheckRejected, CheckStep, recordVars, At
<1>2. "idle" \notin SettlingPc
  BY DEF SettlingPc
<1> QED
  BY <1>1, <1>2, InvQuiet

LEMMA InvCheck ==
  ASSUME IInv, NEW c \in Checks, StartCheck(c) \/ CheckStep(c) PROVE IInv'
BY InvStartCheck, InvLockReceipt, InvLockBlock, InvBuddyEvent, InvBuddyReceipt,
   InvBuddyBlock, InvRedeemReceipt, InvRedeemEventRead, InvGetRedeemEvent,
   InvRevokeReceipt, InvRevokeEventRead, InvGetRevokeEvent, InvCheckEnds DEF CheckStep

LEMMA InvOtherWrite == IInv /\ OtherWrite => IInv'
<1>1. SUFFICES ASSUME IInv, OtherWrite PROVE IInv'
  OBVIOUS
<1>2. disk' = mem' /\ UNCHANGED <<now, src, dst, tx, mem, run, check>>
  BY <1>1 DEF OtherWrite, chainVars
<1>3. TypeOK' /\ ChainInv' /\ Grows
  BY <1>1, <1>2, TypeRestart, StillGrows DEF IInv
<1>4. RecordInv(mem)' /\ RecordInv(disk)'
  BY <1>1, <1>2, <1>3, MemKept, Saved DEF IInv, TypeOK
<1>5. PhaseInv'
  BY <1>1, <1>2 DEF IInv, PhaseInv
<1> QED
  BY <1>1, <1>2, <1>3, <1>4, <1>5, ChecksKept DEF IInv, RestartLosesOnlyBuddyMark

LEMMA InvRestart == IInv /\ Restart => IInv'
<1>1. SUFFICES ASSUME IInv, Restart PROVE IInv'
  OBVIOUS
<1>2. mem' = disk /\ disk' = disk /\ UNCHANGED <<now, src, dst, tx>>
  BY <1>1 DEF Restart, chainVars
<1>3. TypeOK' /\ ChainInv' /\ Grows
  BY <1>1, <1>2, TypeRestart, StillGrows DEF IInv
<1>4. mem \in Record /\ disk \in Record
  BY <1>1 DEF IInv, TypeOK
<1>5. RecordInv(disk)'
  BY <1>1, <1>2, <1>3, <1>4, DiskKept DEF IInv
<1>6. RecordInv(mem)'
  BY <1>2, <1>5 DEF RecordInv
<1>7. \A c \in Checks : check'[c] = Idle
  BY <1>1 DEF Restart
<1>8. \A c \in Checks : CheckInv(check[c])'
  BY <1>7 DEF CheckInv, Idle
<1>9. \A u \in Calls : /\ run'[u].pc \notin Active
                       /\ run'[u].pc = "idle" => run[u].pc = "idle"
                       /\ run[u].pc = "done" => run'[u].pc = "done"
  BY <1>1 DEF Restart, IInv, TypeOK, RunTypeOK
<1>10. disk.lockTx = mem.lockTx
  BY <1>1, <1>4 DEF IInv, RestartLosesOnlyBuddyMark, Record
<1>11. PhaseInv'
  <2>1. run'[LockCall].pc \in {"idle", "prepare"} => mem' = NoRecord /\ disk' = NoRecord
    BY <1>1, <1>2, <1>9 DEF IInv, PhaseInv
  <2>2. mem'.lockTx # NoTx => run'[LockCall].pc = "done"
    BY <1>1, <1>2, <1>9, <1>10 DEF IInv, PhaseInv
  <2> QED
    BY <2>1, <2>2, <1>7, <1>9 DEF PhaseInv, Idle, SettlingPc
<1> QED
  BY <1>2, <1>3, <1>5, <1>6, <1>8, <1>11 DEF IInv, RestartLosesOnlyBuddyMark

LEMMA NextIInv == IInv /\ [Next]_vars => IInv'
<1>1. SUFFICES ASSUME IInv, [Next]_vars PROVE IInv'
  OBVIOUS
<1>2. CASE UNCHANGED vars
  <2>1. UNCHANGED <<now, src, dst, tx, mem, disk, run, check>>
    BY <1>2 DEF vars, chainVars, recordVars
  <2>2. TypeOK' /\ ChainInv' /\ Grows
    BY <1>1, <2>1, TypeNext, StillGrows DEF IInv
  <2>3. RecordInv(mem)' /\ RecordInv(disk)'
    BY <1>1, <2>1, <2>2, MemKept, DiskKept DEF IInv, TypeOK
  <2> QED
    BY <1>1, <2>1, <2>2, <2>3, ChecksKept DEF IInv, RestartLosesOnlyBuddyMark, PhaseInv
<1>3. CASE Next
  BY <1>1, <1>3, InvRun, InvCheck, InvChain, InvOtherWrite, InvRestart DEF Next
<1> QED
  BY <1>1, <1>2, <1>3

THEOREM Invariant == Spec => []IInv
BY InitIInv, NextIInv, PTL DEF Spec

-----------------------------------------------------------------------------
(* The safety properties.                                                  *)

(* A record that says Redeemed or Revoked is right, for any number of      *)
(* calls, checks in flight, lost answers and restarts.                     *)
THEOREM SettledRight == Spec => []SettledIsOnChain
<1>1. IInv => SettledIsOnChain
  BY DEF IInv, RecordInv, SettledIsOnChain
<1> QED
  BY <1>1, Invariant, PTL

(* LockFail never hides funds behind a hash the record has.                *)
THEOREM LockFailSafe == Spec => []LockFailKeepsNoFunds
<1>1. IInv => LockFailKeepsNoFunds
  BY DEF IInv, RecordInv, ChainInv, LockFailKeepsNoFunds
<1> QED
  BY <1>1, Invariant, PTL

(* A restart takes back at most the mark BuddyLocked.                      *)
THEOREM RestartSafe == Spec => []RestartLosesOnlyBuddyMark
<1>1. IInv => RestartLosesOnlyBuddyMark
  BY DEF IInv
<1> QED
  BY <1>1, Invariant, PTL

LEMMA OffersFollow ==
  ASSUME IInv PROVE RedeemOfferIsGood /\ RevokeOfferIsGood /\ OffersExclude
<1>1. now \in Nat /\ src.time \in Nat /\ dst.time \in Nat /\ mem \in Record
      /\ T \in Nat \ {0}
  BY ChainAssumption DEF IInv, TypeOK, ChainTypeOK
<1>2. ASSUME CanRedeem(mem)
      PROVE dst.state \in {"locked", "redeemed"} /\ dst.equal /\ now < dst.time + T
  <2>1. mem.buddyLockedTimeOut # NoTime
    BY <1>1, <1>2 DEF CanRedeem, Number
  <2>2. dst.state # "none" /\ dst.equal /\ now < dst.time + T
    BY <1>1, <1>2, <2>1 DEF CanRedeem, Number, IInv, RecordInv
  <2>3. dst.state # "revoked"
    BY <1>1, <2>2 DEF IInv, ChainInv
  <2> QED
    BY <2>2, <2>3 DEF IInv, TypeOK, ChainTypeOK
<1>3. ASSUME Prechecked, CanRevoke(mem)
      PROVE src.state # "none" /\ now > src.time + 2 * T
  <2>1. mem.htlcTimeOut # NoTime
    BY <1>3 DEF CanRevoke, IInv, RecordInv, OfferedToRevoke
  <2> QED
    BY <1>1, <1>3, <2>1 DEF CanRevoke, Number, IInv, RecordInv
<1>4. ASSUME Prechecked, CanRedeem(mem), CanRevoke(mem) PROVE FALSE
  <2>1. dst.time <= src.time + T
    BY <1>2, <1>4 DEF IInv, ChainInv
  <2> QED
    BY <1>1, <1>2, <1>3, <1>4, <2>1
<1> QED
  BY <1>2, <1>3, <1>4 DEF RedeemOfferIsGood, RevokeOfferIsGood, OffersExclude

(* Whenever canRedeem says yes, a lock of the right value is there to be   *)
(* taken in time.                                                          *)
THEOREM RedeemOffers == Spec => []RedeemOfferIsGood
BY OffersFollow, Invariant, PTL

(* With checked calls, canRevoke never says yes before the time-out.       *)
THEOREM RevokeOffers == Spec => []RevokeOfferIsGood
<1>1. IInv => RevokeOfferIsGood
  BY OffersFollow
<1> QED
  BY <1>1, Invariant, PTL

(* With checked calls, canRevoke never says yes together with canRedeem.   *)
THEOREM OffersNeverMeet == Spec => []OffersExclude
<1>1. IInv => OffersExclude
  BY OffersFollow
<1> QED
  BY <1>1, Invariant, PTL

-----------------------------------------------------------------------------
(* A settled record stays settled.  What excludes a late check is which    *)
(* call it was started for: the call is done, and a check that looks for   *)
(* the event has seen its transaction fail.                                *)

Done(u) == run[u].pc = "done"

ChainTrace ==
  /\ \A u \in RedeemCalls \cup RevokeCalls : run[u].pc = "idle" => tx[u] = "unsent"
  /\ dst.state = "redeemed" => \E u \in RedeemCalls : tx[u] = "ok"
  /\ src.state = "revoked" => \E u \in RevokeCalls : tx[u] = "ok"

RecordTrace ==
  /\ mem.status = "RedeemSent" => mem.redeemTx = NoTx \/ Done(mem.redeemTx)
  /\ mem.status = "RevokeSent" => mem.revokeTx = NoTx \/ Done(mem.revokeTx)
  /\ mem.status = "Redeemed" => \E u \in RedeemCalls : Done(u)
  /\ mem.status = "Revoked" => \E u \in RevokeCalls : Done(u)

CheckTrace(k) ==
  /\ k.pc \in {"redeemReceipt", "revokeReceipt"} => k.tx = NoTx \/ Done(k.tx)
  /\ k.pc \in {"redeemEvent", "redeemFound", "redeemAbsent"} =>
       k.tx \in RedeemCalls /\ Done(k.tx) /\ tx[k.tx] = "fail"
  /\ k.pc \in {"revokeEvent", "revokeFound", "revokeAbsent"} =>
       k.tx \in RevokeCalls /\ Done(k.tx) /\ tx[k.tx] = "fail"

TraceInv ==
  ChainTrace /\ RecordTrace /\ \A c \in Checks : CheckTrace(check[c])

(* A call that is done and a transaction that is decided stay so.          *)
Steady ==
  \A u \in Calls : /\ Done(u) => Done(u)'
                   /\ run'[u].pc = "idle" => run[u].pc = "idle"
                   /\ tx[u] \in {"ok", "fail"} => tx'[u] = tx[u]

LEMMA InitTrace == Init => TraceInv
BY ChainAssumption
   DEF Init, ChainInit, NoRecord, Idle, TraceInv, ChainTrace, RecordTrace, CheckTrace

LEMMA RunSteady ==
  ASSUME TypeOK, NEW u \in Calls, Invoke(u) \/ RunStep(u)
  PROVE  Steady /\ UNCHANGED <<src, dst, check>>
<1> USE DEF TypeOK, RunTypeOK, ChainTypeOK, Steady, Done, chainVars
<1>1. CASE Invoke(u)
  BY <1>1 DEF Invoke
<1>2. CASE PrepareFails(u)
  BY <1>2 DEF PrepareFails
<1>3. CASE PreSendTrans(u)
  BY <1>3 DEF PreSendTrans
<1>4. CASE SendAnswered(u)
  BY <1>4 DEF SendAnswered, Accepted
<1>5. CASE SendRejected(u)
  BY <1>5 DEF SendRejected, NextTry, Accepted
<1>6. CASE TransFailed(u)
  BY <1>6 DEF TransFailed
<1> QED
  BY <1>1, <1>2, <1>3, <1>4, <1>5, <1>6 DEF RunStep

LEMMA ChainSteady ==
  ASSUME TypeOK, ChainTrace, ChainStep PROVE Steady /\ ChainTrace'
<1>0. UNCHANGED run
  BY DEF ChainStep
<1> USE ChainAssumption DEF TypeOK, ChainTypeOK, Steady, Done, ChainTrace
<1>1. CASE Tick
  BY <1>0, <1>1 DEF Tick
<1>2. ASSUME NEW u \in Calls, Mine(u) PROVE Steady /\ ChainTrace'
  <2>1. CASE MineLock
    BY <1>0, <2>1 DEF MineLock
  <2>2. CASE MineRedeem(u)
    BY <1>0, <2>2 DEF MineRedeem
  <2>3. CASE MineRevoke(u)
    BY <1>0, <2>3 DEF MineRevoke
  <2>4. CASE MineFailed(u)
    BY <1>0, <2>4 DEF MineFailed
  <2> QED
    BY <1>2, <2>1, <2>2, <2>3, <2>4 DEF Mine
<1>3. ASSUME NEW equal \in BOOLEAN, StoremanLock(equal) PROVE Steady /\ ChainTrace'
  BY <1>0, <1>3 DEF StoremanLock
<1>4. CASE StoremanClaim
  BY <1>0, <1>4 DEF StoremanClaim
<1>5. CASE StoremanRevoke
  BY <1>0, <1>5 DEF StoremanRevoke
<1> QED
  BY <1>1, <1>2, <1>3, <1>4, <1>5 DEF ChainStep, Chain

(* What is known of the record or of a check outlasts a step that leaves   *)
(* it alone.                                                               *)
LEMMA RecordTraceKept ==
  ASSUME IInv, RecordTrace, Steady, UNCHANGED <<mem>> PROVE RecordTrace'
BY DEF IInv, RecordInv, RecordTrace, Steady, Done

LEMMA CheckTraceKept ==
  ASSUME IInv, NEW c \in Checks, CheckTrace(check[c]), Steady, check'[c] = check[c]
  PROVE  CheckTrace(check[c])'
BY DEF IInv, TypeOK, CheckTypeOK, CheckInv, CheckTrace, Steady, Done

LEMMA ChainTraceKept ==
  ASSUME ChainTrace, Steady, UNCHANGED <<src, dst, tx>> PROVE ChainTrace'
BY DEF ChainTrace, Steady

(* A call.                                                                 *)
LEMMA TraceRun ==
  ASSUME IInv, TraceInv, NEW u \in Calls, Invoke(u) \/ RunStep(u) PROVE TraceInv'
<1> USE DEF TraceInv
<1>1. Steady /\ UNCHANGED <<src, dst, check>>
  BY RunSteady DEF IInv
<1>2. \A c \in Checks : CheckTrace(check[c])'
  BY <1>1, CheckTraceKept
<1>3. ChainTrace'
  <2>1. UNCHANGED tx \/ (tx' = Accepted(u) /\ run[u].pc # "idle")
    BY DEF RunStep, Invoke, PrepareFails, PreSendTrans, SendAnswered, SendRejected,
       TransFailed, chainVars
  <2>2. tx' = Accepted(u) =>
          \A v \in Calls : v # u => tx'[v] = tx[v]
    BY DEF Accepted, IInv, TypeOK, ChainTypeOK
  <2> QED
    BY <1>1, <2>1, <2>2 DEF ChainTrace, Steady
<1>4. RecordTrace'
  <2>0. mem \in Record /\ run \in [Calls -> [pc: Active \cup Ended \cup {"idle"}, tries: 0 .. TryTimes]]
    BY DEF IInv, TypeOK, RunTypeOK
  <2>1. CASE UNCHANGED mem
    BY <1>1, <2>1, RecordTraceKept
  <2>2. CASE PreSendTrans(u)
    <3>1. mem'.status \in {"LockSending", "RedeemSending", "RevokeSending"}
      BY <2>0, <2>2, ClassFacts
         DEF PreSendTrans, Save, LockPreSend, RedeemPreSend, RevokePreSend, NoRecord, Record
    <3> QED
      BY <3>1 DEF RecordTrace
  <2>3. CASE SendAnswered(u)
    <3>1. run'[u].pc = "done"
      BY <2>0, <2>3 DEF SendAnswered
    <3>2. \/ mem'.status = "LockSent"
          \/ mem'.status = "RedeemSent" /\ mem'.redeemTx = u
          \/ mem'.status = "RevokeSent" /\ mem'.revokeTx = u
      BY <2>0, <2>3, ClassFacts, ChainAssumption
         DEF SendAnswered, Save, LockPostSend, RedeemPostSend, RevokePostSend, Record
    <3> QED
      BY <3>1, <3>2 DEF RecordTrace, Done
  <2>4. CASE TransFailed(u)
    <3>1. mem'.status \in {"LockFail", "RedeemFail", "RevokeFail"}
      BY <2>0, <2>4, FailedStatus DEF TransFailed, Save, Record
    <3> QED
      BY <3>1 DEF RecordTrace
  <2> QED
    BY <2>1, <2>2, <2>3, <2>4 DEF RunStep, Invoke, PrepareFails, SendRejected, recordVars
<1> QED
  BY <1>2, <1>3, <1>4

(* A check.                                                                *)
LEMMA TraceCheckPc ==
  ASSUME IInv, TraceInv, NEW c \in Checks, StartCheck(c) \/ CheckStep(c)
  PROVE  \A d \in Checks : CheckTrace(check[d])'
<1>1. UNCHANGED <<run, tx>> /\ check \in [Checks -> [pc: CheckPc, tx: Calls \cup {NoTx}]]
  BY CheckFrame DEF IInv, TypeOK, CheckTypeOK
<1>2. \A d \in Checks : CheckTrace(check[d])
  BY DEF TraceInv
<1>3. ASSUME NEW k, check' = [check EXCEPT ![c] = k], CheckTrace(k)'
      PROVE  \A d \in Checks : CheckTrace(check[d])'
  BY <1>1, <1>2, <1>3 DEF CheckTrace, Done
<1>4. ASSUME NEW pc, Goto(c, pc), pc \in {"lockBlock", "buddyReceipt", "buddyBlock"}
      PROVE  \A d \in Checks : CheckTrace(check[d])'
  BY <1>1, <1>3, <1>4 DEF Goto, CheckTrace
<1>5. ASSUME End(c) PROVE \A d \in Checks : CheckTrace(check[d])'
  BY <1>3, <1>5 DEF End, Idle, CheckTrace
<1>6. CASE StartCheck(c)
  <2>1. PICK k : /\ check' = [check EXCEPT ![c] = k]
               /\ \/ mem.status = "LockSent" /\ k = [pc |-> "lockReceipt", tx |-> mem.lockTx]
                  \/ mem.status = "Locked" /\ k = [pc |-> "buddyEvent", tx |-> NoTx]
                  \/ mem.status = "RedeemSent" /\ k = [pc |-> "redeemReceipt", tx |-> mem.redeemTx]
                  \/ mem.status = "RevokeSent" /\ k = [pc |-> "revokeReceipt", tx |-> mem.revokeTx]
    BY <1>6 DEF StartCheck
  <2>2. CheckTrace(k)
    BY <2>1 DEF TraceInv, RecordTrace, CheckTrace
  <2> QED
    BY <1>1, <1>3, <2>1, <2>2 DEF CheckTrace, Done
<1>7. CASE LockReceipt(c) \/ LockBlock(c)
  BY <1>4, <1>5, <1>7 DEF LockReceipt, LockBlock
<1>8. CASE BuddyEvent(c) \/ BuddyReceipt(c) \/ BuddyBlock(c)
  BY <1>4, <1>5, <1>8 DEF BuddyEvent, BuddyReceipt, BuddyBlock
<1>9. ASSUME NEW pc, LookForEvent(c, pc), Receipt(c) = "fail",
             \/ pc = "redeemEvent" /\ At(c, "redeemReceipt")
             \/ pc = "revokeEvent" /\ At(c, "revokeReceipt")
      PROVE  \A d \in Checks : CheckTrace(check[d])'
  <2>1. check[c].tx # NoTx /\ tx[check[c].tx] = "fail"
    BY <1>9 DEF Receipt
  <2>2. CheckTrace([check[c] EXCEPT !.pc = pc])
    BY <1>1, <1>2, <1>9, <2>1 DEF CheckTrace, At, IInv, CheckInv
  <2> QED
    BY <1>1, <1>3, <1>5, <1>9, <2>2, LooksOrEnds DEF Goto, CheckTrace, Done
<1>10. CASE RedeemReceipt(c) \/ RevokeReceipt(c)
  BY <1>5, <1>9, <1>10 DEF RedeemReceipt, RevokeReceipt
<1>11. CASE RedeemEventRead(c) \/ RevokeEventRead(c)
  <2>1. PICK pc : /\ Goto(c, pc)
                  /\ \/ pc \in {"redeemFound", "redeemAbsent"} /\ At(c, "redeemEvent")
                     \/ pc \in {"revokeFound", "revokeAbsent"} /\ At(c, "revokeEvent")
    BY <1>11 DEF RedeemEventRead, RevokeEventRead
  <2>2. CheckTrace([check[c] EXCEPT !.pc = pc])
    BY <1>1, <1>2, <2>1 DEF CheckTrace, At
  <2> QED
    BY <1>1, <1>3, <2>1, <2>2 DEF Goto, CheckTrace, Done
<1>12. CASE GetRedeemEvent(c) \/ GetRevokeEvent(c) \/ NotYet(c) \/ CheckRejected(c)
  BY <1>5, <1>12 DEF GetRedeemEvent, GetRevokeEvent, NotYet, CheckRejected
<1> QED
  BY <1>6, <1>7, <1>8, <1>10, <1>11, <1>12 DEF CheckStep

(* What a check can make of the status.                                    *)
LEMMA CheckWrites ==
  ASSUME IInv, NEW c \in Checks, StartCheck(c) \/ CheckStep(c), mem'.status # mem.status
  PROVE  \/ At(c, "lockReceipt") /\ mem'.status = "LockFail"
         \/ At(c, "lockBlock") /\ mem'.status = "Locked"
         \/ mem.status = "Locked" /\ mem'.status = "BuddyLocked"
         \/ At(c, "redeemReceipt") /\ check[c].tx # NoTx /\ mem'.status = "Redeemed"
         \/ At(c, "redeemFound") /\ mem'.status = "Redeemed"
         \/ At(c, "redeemAbsent") /\ mem'.status = "RedeemFail"
         \/ At(c, "revokeReceipt") /\ check[c].tx # NoTx /\ mem'.status = "Revoked"
         \/ At(c, "revokeFound") /\ mem'.status = "Revoked"
         \/ At(c, "revokeAbsent") /\ mem'.status = "RevokeFail"
<1> USE DEF Save, recordVars, Record
<1>0. mem \in Record
  BY DEF IInv, TypeOK
<1>1. CASE StartCheck(c) \/ BuddyEvent(c) \/ RedeemEventRead(c) \/ RevokeEventRead(c)
             \/ NotYet(c) \/ CheckRejected(c)
  BY <1>1 DEF StartCheck, BuddyEvent, RedeemEventRead, RevokeEventRead, NotYet, CheckRejected
<1>2. CASE LockReceipt(c) \/ LockBlock(c)
  BY <1>0, <1>2 DEF LockReceipt, LockBlock
<1>3. CASE BuddyReceipt(c) \/ BuddyBlock(c)
  BY <1>0, <1>3 DEF BuddyReceipt, BuddyBlock
<1>4. CASE RedeemReceipt(c) \/ RevokeReceipt(c)
  BY <1>0, <1>4 DEF RedeemReceipt, RevokeReceipt, Receipt
<1>5. CASE GetRedeemEvent(c)
  BY <1>0, <1>5 DEF GetRedeemEvent
<1>6. CASE GetRevokeEvent(c)
  BY <1>0, <1>6 DEF GetRevokeEvent
<1> QED
  BY <1>1, <1>2, <1>3, <1>4, <1>5, <1>6 DEF CheckStep

LEMMA TraceCheck ==
  ASSUME IInv, TraceInv, NEW c \in Checks, StartCheck(c) \/ CheckStep(c) PROVE TraceInv'
<1>1. UNCHANGED <<src, dst, tx, run>>
  BY CheckFrame DEF IInv
<1>2. Steady
  BY <1>1 DEF Steady, Done
<1>3. ChainTrace'
  BY <1>1, <1>2, ChainTraceKept DEF TraceInv
<1>4. CheckTrace(check[c]) /\ CheckInv(check[c])
  BY DEF TraceInv, IInv
<1>5. RecordTrace'
  <2>1. CASE mem'.status = mem.status
    <3>1. mem.status \in {"RedeemSent", "RevokeSent"} =>
            mem'.redeemTx = mem.redeemTx /\ mem'.revokeTx = mem.revokeTx
      <4> USE DEF Save, recordVars, Record
      <4>0. mem \in Record
        BY DEF IInv, TypeOK
      <4>1. CASE StartCheck(c) \/ BuddyEvent(c) \/ RedeemEventRead(c) \/ RevokeEventRead(c)
                   \/ NotYet(c) \/ CheckRejected(c)
        BY <4>1 DEF StartCheck, BuddyEvent, RedeemEventRead, RevokeEventRead, NotYet,
           CheckRejected
      <4>2. CASE LockReceipt(c) \/ LockBlock(c) \/ BuddyReceipt(c) \/ BuddyBlock(c)
        BY <4>0, <4>2 DEF LockReceipt, LockBlock, BuddyReceipt, BuddyBlock
      <4>3. CASE RedeemReceipt(c) \/ RevokeReceipt(c)
        BY <4>0, <4>3 DEF RedeemReceipt, RevokeReceipt
      <4>4. CASE GetRedeemEvent(c)
        BY <2>1, <4>0, <4>4 DEF GetRedeemEvent
      <4>5. CASE GetRevokeEvent(c)
        BY <2>1, <4>0, <4>5 DEF GetRevokeEvent
      <4> QED
        BY <4>1, <4>2, <4>3, <4>4, <4>5 DEF CheckStep
    <3> QED
      BY <1>1, <2>1, <3>1 DEF TraceInv, RecordTrace, Done
  <2>2. CASE mem'.status # mem.status
    <3>1. mem'.status = "Redeemed" => \E u \in RedeemCalls : Done(u)
      BY <1>4, <2>2, CheckWrites DEF At, CheckInv, CheckTrace
    <3>2. mem'.status = "Revoked" => \E u \in RevokeCalls : Done(u)
      BY <1>4, <2>2, CheckWrites DEF At, CheckInv, CheckTrace
    <3>3. mem'.status \notin {"RedeemSent", "RevokeSent"}
      BY <2>2, CheckWrites
    <3> QED
      BY <1>1, <3>1, <3>2, <3>3 DEF RecordTrace, Done
  <2> QED
    BY <2>1, <2>2
<1> QED
  BY <1>3, <1>5, TraceCheckPc DEF TraceInv

LEMMA TraceNext == IInv /\ TraceInv /\ [Next]_vars => TraceInv'
<1>1. SUFFICES ASSUME IInv, TraceInv, [Next]_vars PROVE TraceInv'
  OBVIOUS
<1>2. CASE ChainStep
  <2>1. Steady /\ ChainTrace' /\ UNCHANGED <<mem, check>>
    BY <1>1, <1>2, ChainSteady DEF IInv, TraceInv, ChainStep, recordVars
  <2> QED
    BY <1>1, <2>1, RecordTraceKept, CheckTraceKept DEF TraceInv
<1>3. CASE OtherWrite \/ UNCHANGED vars
  <2>1. UNCHANGED <<src, dst, tx, run, mem, check>>
    BY <1>3 DEF OtherWrite, vars, chainVars, recordVars
  <2>2. Steady
    BY <2>1 DEF Steady, Done
  <2> QED
    BY <1>1, <2>1, <2>2, ChainTraceKept, RecordTraceKept, CheckTraceKept DEF TraceInv
<1>4. CASE Restart
  <2>1. UNCHANGED <<src, dst, tx>> /\ mem' = disk /\ \A c \in Checks : check'[c] = Idle
    BY <1>4 DEF Restart, chainVars
  <2>2. Steady
    BY <1>1, <1>4, <2>1 DEF Restart, Steady, Done, IInv, TypeOK, RunTypeOK
  <2>3. RecordTrace'
    <3>1. CASE mem = disk
      BY <1>1, <2>1, <2>2, <3>1, RecordTraceKept DEF TraceInv
    <3>2. CASE mem # disk
      BY <1>1, <2>1, <3>2 DEF IInv, RestartLosesOnlyBuddyMark, RecordTrace
    <3> QED
      BY <3>1, <3>2
  <2>4. \A c \in Checks : CheckTrace(check[c])'
    BY <2>1 DEF CheckTrace, Idle
  <2> QED
    BY <1>1, <2>1, <2>2, <2>3, <2>4, ChainTraceKept DEF TraceInv
<1> QED
  BY <1>1, <1>2, <1>3, <1>4, TraceRun, TraceCheck DEF Next

(* The call that settled a record is the only one: nothing is left that    *)
(* could write another status.                                             *)
LEMMA SettledByOne ==
  ASSUME IInv, TraceInv, Settled(mem), OneCall, LockIsOver, [Next]_vars
  PROVE  mem'.status = mem.status
<1>1. PICK w \in RedeemCalls \cup RevokeCalls :
        /\ Done(w)
        /\ mem.status = "Redeemed" => w \in RedeemCalls /\ tx[w] = "ok"
        /\ mem.status = "Revoked" => w \in RevokeCalls /\ tx[w] = "ok"
  <2>1. CASE mem.status = "Redeemed"
    <3>1. PICK w \in RedeemCalls : Done(w)
      BY <2>1 DEF TraceInv, RecordTrace
    <3>2. PICK v \in RedeemCalls : tx[v] = "ok"
      BY <2>1 DEF IInv, RecordInv, TraceInv, ChainTrace
    <3>3. run[v].pc # "idle"
      BY <3>2 DEF TraceInv, ChainTrace
    <3>4. v = w
      BY <3>1, <3>3 DEF OneCall, Done
    <3> QED
      BY <2>1, <3>1, <3>2, <3>4
  <2>2. CASE mem.status = "Revoked"
    <3>1. PICK w \in RevokeCalls : Done(w)
      BY <2>2 DEF TraceInv, RecordTrace
    <3>2. PICK v \in RevokeCalls : tx[v] = "ok"
      BY <2>2 DEF IInv, RecordInv, TraceInv, ChainTrace
    <3>3. run[v].pc # "idle"
      BY <3>2 DEF TraceInv, ChainTrace
    <3>4. v = w
      BY <3>1, <3>3 DEF OneCall, Done
    <3> QED
      BY <2>2, <3>1, <3>2, <3>4
  <2> QED
    BY <2>1, <2>2 DEF Settled
<1>2. \A u \in Calls : run[u].pc \notin Active
  BY <1>1 DEF OneCall, LockIsOver, Done
<1>3. \A u \in Calls : ~ RunStep(u)
  BY <1>2 DEF RunStep, PrepareFails, PreSendTrans, SendAnswered, SendRejected, TransFailed
<1>4. ASSUME NEW c \in Checks, StartCheck(c) \/ CheckStep(c)
      PROVE  mem'.status = mem.status
  <2>0. SUFFICES ASSUME mem'.status # mem.status PROVE FALSE
    OBVIOUS
  <2>1. CheckTrace(check[c]) /\ CheckInv(check[c])
    BY DEF TraceInv, IInv
  <2>2. ASSUME NEW v \in RedeemCalls \cup RevokeCalls, Done(v) PROVE v = w
    BY <1>1, <2>2 DEF OneCall, Done
  <2>3. check[c].tx = w /\ check[c].pc \in SettlingPc
    BY <1>4, <2>0, <2>1, <2>2, CheckWrites
       DEF At, CheckTrace, CheckInv, LockIsOver, Settled, SettlingPc
  <2> QED
    BY <1>1, <1>4, <2>0, <2>1, <2>3, CheckWrites, ChainAssumption
       DEF At, CheckTrace, CheckInv, LockIsOver, Settled
<1>5. CASE \E u \in Calls : Invoke(u)
  BY <1>5 DEF Invoke, recordVars
<1>6. CASE ChainStep \/ OtherWrite \/ UNCHANGED vars
  BY <1>6 DEF ChainStep, OtherWrite, vars, recordVars
<1>7. CASE Restart
  BY <1>7 DEF Restart, IInv, RestartLosesOnlyBuddyMark, Settled, Record, TypeOK
<1> QED
  BY <1>3, <1>4, <1>5, <1>6, <1>7 DEF Next

(* For every number of checks in flight and every loss of answers, what    *)
(* says Redeemed or Revoked says so for ever, unless the user calls REDEEM *)
(* or REVOKE again or a check of the lock is still under way.              *)
THEOREM SettledForGood == Spec => SettledStays
<1>1. Init => IInv /\ TraceInv
  BY InitIInv, InitTrace
<1>2. IInv /\ TraceInv /\ [Next]_vars => (IInv /\ TraceInv)'
  BY NextIInv, TraceNext
<1>3. IInv /\ TraceInv /\ [Next]_vars =>
        [Settled(mem) /\ OneCall /\ LockIsOver => mem'.status = mem.status]_vars
  BY SettledByOne
<1> QED
  BY <1>1, <1>2, <1>3, PTL DEF Spec, SettledStays

-----------------------------------------------------------------------------
(* CrossTx implements HtlcReport.                                          *)

LEMMA ToldIsFact == IInv => Told \in ChainFacts \cup {"nothing"}
BY DEF IInv, RecordInv, Told, ChainFacts

LEMMA FactsUnchanged ==
  UNCHANGED <<src, dst>> => ChainFacts' = ChainFacts
BY DEF ChainFacts

(* A step of a contract adds one fact, in the order the swap allows.       *)
LEMMA FactHappens ==
  ASSUME TypeOK, ChainInv, Chain, UNCHANGED Told
  PROVE  Report!Happen \/ UNCHANGED <<ChainFacts, Told>>
<1> USE DEF TypeOK, ChainTypeOK, ChainInv
<1> DEFINE Adds(f) == /\ f \in Report!Facts \ ChainFacts
                      /\ Report!May(f) /\ ChainFacts' = ChainFacts \cup {f}
<1>1. ASSUME NEW f, Adds(f) PROVE Report!Happen
  BY <1>1 DEF Report!Happen
<1>2. CASE Tick
  BY <1>2, FactsUnchanged DEF Tick
<1>3. ASSUME NEW u \in Calls, Mine(u)
      PROVE Report!Happen \/ UNCHANGED <<ChainFacts, Told>>
  <2>1. CASE MineLock /\ u = LockCall
    <3>1. Adds("locked")
      BY <2>1 DEF MineLock, ChainFacts, Report!Facts, Report!May
    <3> QED
      BY <3>1, <1>1
  <2>2. CASE MineRedeem(u)
    <3>1. Adds("redeemed")
      BY <2>2 DEF MineRedeem, ChainFacts, Report!Facts, Report!May
    <3> QED
      BY <3>1, <1>1
  <2>3. CASE MineRevoke(u)
    <3>1. src.state = "locked" /\ src'.state = "revoked" /\ dst' = dst
      BY <2>3 DEF MineRevoke
    <3>2. "revoked" \in Report!Facts \ ChainFacts /\ Report!May("revoked")
      BY <3>1 DEF ChainFacts, Report!Facts, Report!May
    <3>3. ChainFacts' = ChainFacts \cup {"revoked"}
      BY <3>1 DEF ChainFacts
    <3>4. Adds("revoked")
      BY <3>2, <3>3
    <3> QED
      BY <3>4, <1>1
  <2>4. CASE MineFailed(u)
    BY <2>4, FactsUnchanged DEF MineFailed
  <2> QED
    BY <1>3, <2>1, <2>2, <2>3, <2>4 DEF Mine
<1>4. ASSUME NEW equal \in BOOLEAN, StoremanLock(equal)
      PROVE Report!Happen
  <2>1. Adds("answered")
    BY <1>4 DEF StoremanLock, ChainFacts, Report!Facts, Report!May
  <2> QED
    BY <2>1, <1>1
<1>5. CASE StoremanClaim
  <2>1. Adds("claimed")
    BY <1>5 DEF StoremanClaim, ChainFacts, Report!Facts, Report!May
  <2> QED
    BY <2>1, <1>1
<1>6. CASE StoremanRevoke
  BY <1>6 DEF StoremanRevoke, ChainFacts
<1> QED
  BY <1>2, <1>3, <1>4, <1>5, <1>6 DEF Chain

(* Whatever the calls, the monitor, errors and restarts do, the record     *)
(* only tells what has happened on the chains: CrossTx implements          *)
(* HtlcReport.                                                             *)
THEOREM TellsTheTruth == Spec => TellsWhatHappened
<1>1. Init => Report!Init
  BY DEF Init, ChainInit, NoRecord, ChainFacts, Told, Report!Init
<1>2. IInv /\ IInv' /\ [Next]_vars => [Report!Next]_<<ChainFacts, Told>>
  <2>1. SUFFICES ASSUME IInv, IInv', [Next]_vars
                 PROVE  [Report!Next]_<<ChainFacts, Told>>
    OBVIOUS
  <2>2. CASE ChainStep
    <3>1. UNCHANGED Told
      BY <2>2 DEF ChainStep, recordVars, Told
    <3> QED
      BY <2>1, <2>2, <3>1, FactHappens DEF ChainStep, IInv, Report!Next
  <2>3. CASE UNCHANGED <<src, dst>>
    <3>1. ChainFacts' = ChainFacts
      BY <2>3, FactsUnchanged
    <3>2. (Told \in ChainFacts \cup {"nothing"})'
      BY <2>1, ToldIsFact, PTL
    <3>3. Report!Tell
      BY <3>1, <3>2 DEF Report!Tell
    <3> QED
      BY <3>3 DEF Report!Next
  <2>4. ASSUME NEW u \in Calls, Invoke(u) \/ RunStep(u) PROVE UNCHANGED <<src, dst>>
    BY <2>4 DEF Invoke, RunStep, PrepareFails, PreSendTrans, SendAnswered,
       SendRejected, TransFailed, chainVars
  <2>5. ASSUME NEW c \in Checks, StartCheck(c) \/ CheckStep(c) PROVE UNCHANGED <<src, dst>>
    BY <2>1, <2>5, CheckFrame DEF IInv
  <2>6. OtherWrite \/ Restart \/ UNCHANGED vars => UNCHANGED <<src, dst>>
    BY DEF OtherWrite, Restart, vars, chainVars
  <2> QED
    BY <2>1, <2>2, <2>3, <2>4, <2>5, <2>6 DEF Next
<1> QED
  BY <1>1, <1>2, Invariant, PTL DEF Spec, TellsWhatHappened, Report!Spec
=============================================================================
