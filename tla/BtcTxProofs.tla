----------------------------- MODULE BtcTxProofs -----------------------------
(***************************************************************************)
(* Proofs about BtcTx: type correctness, what a restart can lose, that the *)
(* statuses rest on the chains and on confirmations, and that BtcTx        *)
(* implements HtlcReport.                                                  *)
(***************************************************************************)
EXTENDS BtcTx, TLAPS

-----------------------------------------------------------------------------
(* The inductive invariant.  Each part says what is known of the chains    *)
(* when a variable of the wallet has a value; all it says of the chains    *)
(* stays true, see Grows.                                                  *)

(* The order of the swap.                                                  *)
ChainInv ==
  /\ src # "none" <=> tx[LockCall] \in Mined
  /\ \A u \in RedeemCalls : tx[u] \in Mined => dst.state = "redeemed"
  /\ \A u \in RevokeCalls : tx[u] \in Mined => src = "revoked"
  /\ dst.state # "none" => src # "none"
  /\ dst.deep => dst.state # "none"
  /\ dst.state = "revoked" => phase >= 2
  /\ src = "claimed" => dst.state = "redeemed"

(* The hashes are those of the calls, and the status follows the chains.   *)
RecordInv ==
  /\ rec.status = "absent" <=> run[LockCall] = "idle"
  /\ rec.status = "absent" => rec = NoRecord /\ \A u \in Calls : run[u] = "idle"
  /\ run[LockCall] = "idle" => tx[LockCall] = "unsent"
  /\ rec.lockTx \in {NoTx, LockCall}
  /\ rec.lockTx # NoTx \/ rec.status = "sentHashFailed" => run[LockCall] = "done"
  /\ rec.redeemTx \in RedeemCalls \cup {NoTx}
  /\ rec.revokeTx \in RevokeCalls \cup {NoTx}
  /\ rec.status = "LockSent" /\ ~ inbound => tx[LockCall] \in Mined
  /\ rec.status = "Locked" => src # "none"
  /\ rec.status = "BuddyLocked" => dst.deep
  /\ rec.status \in {"RedeemSent", "Redeemed"} => dst.state = "redeemed"
  /\ rec.status \in {"RevokeSent", "Revoked"} => src = "revoked"
  /\ rec.status = "sentHashFailed" /\ rec.lockTx # NoTx => tx[LockCall] = "fail"

(* A check asks for a hash of its kind, and knows what brought it so far.  *)
CheckOK(k) ==
  /\ k.pc # "idle" => rec.status # "absent"
  /\ k.pc \in {"lockOnline", "lockConfirm"} => k.tx \in {NoTx, LockCall}
  /\ k.pc = "lockOnline" /\ k.tx = LockCall => run[LockCall] = "done"
  /\ k.pc \in {"redeemOnline", "redeemConfirm"} => k.tx \in RedeemCalls \cup {NoTx}
  /\ k.pc \in {"revokeOnline", "revokeConfirm"} => k.tx \in RevokeCalls \cup {NoTx}
  /\ k.pc = "lockBlock" => tx[LockCall] \in Mined
  /\ k.pc = "lockConfirm" /\ ~ inbound => tx[LockCall] \in Mined
  /\ k.pc = "redeemConfirm" => dst.state = "redeemed"
  /\ k.pc = "revokeConfirm" => src = "revoked"

CheckInv == \A c \in Checks : CheckOK(check[c])

(* What a wallet that asks has been told stays true: a storeman's lock of  *)
(* the agreed value and a record from which a REDEEM can be built.         *)
GoodOffer(r) == dst.state # "none" /\ dst.equal /\ CanBuildRedeem(r)

OfferOK(k) ==
  /\ k.pc \in {"crossConfirm", "redeemOnline", "redeemConfirm"} => GoodOffer(rec)
  /\ k.pc = "cross" /\ inbound /\ k.tx # NoTx => rec.noticeTx # NoTx
  /\ k.pc = "revokeOnline" => src # "none"

OfferInv ==
  WalletAsks =>
    /\ rec.status \in {"BuddyLocked", "RedeemSending", "RedeemSent", "RedeemSendFail"} =>
         GoodOffer(rec) /\ GoodOffer(file)
    /\ rec.status \in {"RevokeSending", "RevokeSendFail"} => src # "none"
    /\ \A u \in RedeemCalls : run[u] = "send" => GoodOffer(rec)
    /\ \A u \in RevokeCalls : run[u] = "send" => src # "none"
    /\ \A c \in Checks : OfferOK(check[c])

(* Without an expiry a check is alone, so the count it took along is still *)
(* the record's when it comes back.                                        *)
CountInv ==
  expiries = 0 =>
    /\ OneCheckAtATime
    /\ rec.status = "Locked" => tx[LockCall] = "deep"
    /\ \A c \in Checks :
         At(c, "lockConfirm") /\ ~ inbound => check[c].wait = rec.lockConfirmed

IInv == /\ TypeOK /\ ChainInv /\ RecordInv /\ CheckInv /\ OfferInv /\ CountInv
        /\ RestartLosesOnlyStoremanLock

-----------------------------------------------------------------------------
(* Type correctness, one lemma for each actor.                             *)

WalletTypeOK ==
  /\ rec \in Record /\ file \in Record
  /\ run \in [Calls -> Active \cup {"idle", "done", "dead"}]
  /\ check \in [Checks -> [pc: CheckPc, tx: Hash, wait: Count]]
  /\ handling \in BOOLEAN

ChainTypeOK ==
  /\ inbound \in BOOLEAN /\ phase \in 0 .. 4
  /\ src \in {"none", "locked", "claimed", "revoked"}
  /\ dst \in [state: {"none", "locked", "redeemed", "revoked"},
              equal: BOOLEAN, deep: BOOLEAN]
  /\ tx \in [Calls -> {"unsent", "pending", "fail"} \cup Mined]

BoundTypeOK ==
  /\ faults \in 0 .. MaxFaults /\ expiries \in 0 .. MaxExpiries
  /\ crashes \in 0 .. MaxCrashes

LEMMA TypeParts ==
  /\ TypeOK <=> WalletTypeOK /\ ChainTypeOK /\ BoundTypeOK
  /\ TypeOK' <=> WalletTypeOK' /\ ChainTypeOK' /\ BoundTypeOK'
BY DEF TypeOK, WalletTypeOK, ChainTypeOK, BoundTypeOK

LEMMA PartsKept ==
  /\ WalletTypeOK /\ UNCHANGED <<rec, file, run, check, handling>> => WalletTypeOK'
  /\ ChainTypeOK /\ UNCHANGED chainVars => ChainTypeOK'
  /\ BoundTypeOK /\ UNCHANGED bounds => BoundTypeOK'
<1>1. WalletTypeOK /\ UNCHANGED <<rec, file, run, check, handling>> => WalletTypeOK'
  BY DEF WalletTypeOK
<1>2. ChainTypeOK /\ UNCHANGED chainVars => ChainTypeOK'
  BY DEF ChainTypeOK, chainVars
<1>3. BoundTypeOK /\ UNCHANGED bounds => BoundTypeOK'
  BY DEF BoundTypeOK, bounds
<1> QED
  BY <1>1, <1>2, <1>3

LEMMA Zero == 0 \in Count /\ NoRecord \in Record /\ Idle \in [pc: CheckPc, tx: Hash, wait: Count]
<1>1. 0 \in Count
  BY DEF Count, ConfirmBlocks
<1>2. NoRecord \in Record
  BY <1>1 DEF NoRecord, Record, Hash
<1>3. Idle \in [pc: CheckPc, tx: Hash, wait: Count]
  BY <1>1 DEF Idle, CheckPc, Hash
<1> QED
  BY <1>1, <1>2, <1>3

LEMMA StatusTyped ==
  ASSUME NEW r \in Record, NEW s \in Status
  PROVE  [r EXCEPT !.status = s] \in Record
BY DEF Record

LEMMA CallsKinds ==
  /\ LockCall \in Calls /\ NoticeCall \in Calls
  /\ RedeemCalls \subseteq Calls /\ RevokeCalls \subseteq Calls
  /\ LockCall # NoticeCall /\ LockCall # NoTx /\ NoTx \notin Calls
  /\ LockCall \notin RedeemCalls /\ LockCall \notin RevokeCalls
  /\ NoticeCall \notin RedeemCalls /\ NoticeCall \notin RevokeCalls
  /\ RedeemCalls \cap RevokeCalls = {}
BY BtcAssumption DEF Calls

LEMMA TypeInit == Init => TypeOK
<1>1. SUFFICES ASSUME Init PROVE TypeOK
  OBVIOUS
<1>2. ChainTypeOK
  BY <1>1 DEF Init, ChainTypeOK
<1>3. WalletTypeOK
  BY <1>1, Zero DEF Init, WalletTypeOK
<1>4. BoundTypeOK
  BY <1>1, BtcAssumption DEF Init, BoundTypeOK
<1> QED
  BY <1>2, <1>3, <1>4, TypeParts

LEMMA TypeChain == TypeOK /\ Chain /\ Wallet => TypeOK'
<1>1. SUFFICES ASSUME ChainTypeOK, Chain PROVE ChainTypeOK'
  BY TypeParts, PartsKept DEF Wallet
<1> USE DEF ChainTypeOK, Mined
<1>2. ASSUME NEW u \in Calls, Mine(u) PROVE ChainTypeOK'
  BY <1>1, <1>2 DEF Mine
<1>3. ASSUME NEW u \in Calls, MineFailed(u) \/ Deepen(u) PROVE ChainTypeOK'
  BY <1>1, <1>3 DEF MineFailed, Deepen
<1>4. ASSUME NEW equal \in BOOLEAN, StoremanLock(equal) PROVE ChainTypeOK'
  BY <1>1, <1>4 DEF StoremanLock
<1>5. CASE StoremanDeepens \/ StoremanClaim \/ StoremanRevoke
  BY <1>1, <1>5 DEF StoremanDeepens, StoremanClaim, StoremanRevoke
<1>6. CASE Tick
  BY <1>1, <1>6 DEF Tick
<1> QED
  BY <1>1, <1>2, <1>3, <1>4, <1>5, <1>6 DEF Chain

LEMMA AcceptedTyped ==
  ASSUME TypeOK, NEW u \in Calls
  PROVE  Accepted(u) \in [Calls -> {"unsent", "pending", "fail"} \cup Mined]
BY DEF TypeOK, Accepted

(* The record a LOCK inserts, and those the four postSendTrans store.      *)
LEMMA CallRecordsTyped ==
  ASSUME rec \in Record, NEW u \in Calls
  PROVE  /\ [NoRecord EXCEPT !.status = "LockSending"] \in Record
         /\ LockPostSend(u) \in Record /\ NoticePostSend(u) \in Record
         /\ RedeemPostSend(u) \in Record /\ RevokePostSend(u) \in Record
<1>1. [NoRecord EXCEPT !.status = "LockSending"] \in Record
  BY Zero, StatusTyped DEF Status
<1>2. LockPostSend(u) \in Record /\ NoticePostSend(u) \in Record
  BY DEF LockPostSend, NoticePostSend, Record, Status, Hash
<1>3. RedeemPostSend(u) \in Record /\ RevokePostSend(u) \in Record
  BY DEF RedeemPostSend, RevokePostSend, Record, Status, Hash
<1> QED
  BY <1>1, <1>2, <1>3

LEMMA TypeRun ==
  ASSUME TypeOK, NEW u \in Calls, Lock \/ Redeem(u) \/ Revoke(u) \/ RunStep(u)
  PROVE  TypeOK'
<1> USE DEF Active
<1>0. rec \in Record /\ file \in Record /\ ChainTypeOK /\ WalletTypeOK /\ BoundTypeOK
      /\ LockCall \in Calls /\ NoticeCall \in Calls
  BY TypeParts, CallsKinds DEF TypeOK
<1>1. CASE Lock
  <2>1. WalletTypeOK'
    BY <1>0, <1>1, CallRecordsTyped DEF Lock, Save, Started, WalletTypeOK
  <2> QED
    BY <1>0, <1>1, <2>1, TypeParts, PartsKept DEF Lock
<1>2. CASE Redeem(u) \/ Revoke(u)
  <2>1. WalletTypeOK'
    BY <1>0, <1>2 DEF Redeem, Revoke, Started, WalletTypeOK
  <2> QED
    BY <1>0, <1>2, <2>1, TypeParts, PartsKept DEF Redeem, Revoke
<1>3. CASE SendAnswered(u)
  <2>1. rec' \in Record /\ file' \in Record
    BY <1>0, <1>3, CallRecordsTyped DEF SendAnswered, Save, Calls
  <2>2. run' \in [Calls -> Active \cup {"idle", "done", "dead"}]
    BY <1>0, <1>3 DEF SendAnswered, WalletTypeOK
  <2>3. tx' \in [Calls -> {"unsent", "pending", "fail"} \cup Mined]
    BY <1>3, AcceptedTyped DEF SendAnswered
  <2> QED
    <3>1. WalletTypeOK'
      BY <1>0, <1>3, <2>1, <2>2 DEF SendAnswered, WalletTypeOK
    <3>2. ChainTypeOK'
      BY <1>0, <1>3, <2>3 DEF SendAnswered, ChainTypeOK
    <3> QED
      BY <1>0, <1>3, <3>1, <3>2, TypeParts, PartsKept DEF SendAnswered
<1>4. CASE SendFails(u)
  <2>1. tx' \in [Calls -> {"unsent", "pending", "fail"} \cup Mined]
    BY <1>0, <1>4, AcceptedTyped DEF SendFails, ChainTypeOK
  <2>2. faults' \in 0 .. MaxFaults
    BY <1>0, <1>4, BtcAssumption DEF SendFails, BoundTypeOK
  <2>3. run' \in [Calls -> Active \cup {"idle", "done", "dead"}]
    BY <1>0, <1>4 DEF SendFails, WalletTypeOK
  <2> QED
    <3>1. WalletTypeOK'
      BY <1>0, <1>4, <2>3 DEF SendFails, WalletTypeOK
    <3>2. ChainTypeOK'
      BY <1>0, <1>4, <2>1 DEF SendFails, ChainTypeOK
    <3>3. BoundTypeOK'
      BY <1>0, <1>4, <2>2 DEF SendFails, BoundTypeOK
    <3> QED
      BY <3>1, <3>2, <3>3, TypeParts
<1>5. CASE TransFailed(u)
  <2>1. rec' \in Record /\ file' \in Record
    BY <1>0, <1>5, StatusTyped DEF TransFailed, Save, Status
  <2> QED
    <3>1. WalletTypeOK'
      BY <1>0, <1>5, <2>1 DEF TransFailed, WalletTypeOK
    <3> QED
      BY <1>0, <1>5, <3>1, TypeParts, PartsKept DEF TransFailed
<1> QED
  BY <1>1, <1>2, <1>3, <1>4, <1>5 DEF RunStep

(* A check leaves the chains and the calls alone.                          *)
LEMMA CheckFrame ==
  ASSUME TypeOK, NEW c \in Checks, StartCheck(c) \/ CheckStep(c)
  PROVE  /\ UNCHANGED <<inbound, phase, src, dst, tx, run, expiries, crashes>>
         /\ faults' \in 0 .. MaxFaults
<1> USE DEF Quiet, chainVars, bounds
<1>0. faults \in 0 .. MaxFaults /\ MaxFaults \in Nat
  BY BtcAssumption DEF TypeOK
<1>1. CASE StartCheck(c)
  BY <1>0, <1>1 DEF StartCheck
<1>2. CASE LockOnline(c) \/ LockBlock(c) \/ LockConfirm(c)
  BY <1>0, <1>2 DEF LockOnline, LockBlock, LockConfirm
<1>3. CASE CrossOnline(c) \/ CrossConfirm(c)
  BY <1>0, <1>3 DEF CrossOnline, CrossConfirm
<1>4. CASE RedeemOnline(c) \/ RedeemConfirm(c)
  BY <1>0, <1>4 DEF RedeemOnline, RedeemConfirm
<1>5. CASE RevokeOnline(c) \/ RevokeConfirm(c)
  BY <1>0, <1>5 DEF RevokeOnline, RevokeConfirm
<1>6. CASE NotYet(c)
  BY <1>0, <1>6 DEF NotYet
<1>7. CASE CheckRejected(c)
  BY <1>0, <1>7 DEF CheckRejected
<1> QED
  BY <1>1, <1>2, <1>3, <1>4, <1>5, <1>6, <1>7 DEF CheckStep

LEMMA FirstAskTyped ==
  ASSUME rec \in Record, rec.status \in Watched
  PROVE  FirstAsk \in [pc: CheckPc, tx: Hash, wait: Count]
<1>1. rec.lockTx \in Hash /\ rec.noticeTx \in Hash /\ rec.redeemTx \in Hash
      /\ rec.revokeTx \in Hash /\ rec.lockConfirmed \in Count
      /\ rec.refundConfirmed \in Count /\ rec.revokeConfirmed \in Count /\ 0 \in Count
  BY DEF Record, Count, ConfirmBlocks
<1> QED
  BY <1>1 DEF FirstAsk, Asks, Watched, CheckPc

LEMMA CountedTyped ==
  ASSUME rec \in Record, NEW s \in Status
  PROVE  /\ Counted("lockConfirmed", s) \in Record
         /\ Counted("refundConfirmed", s) \in Record
         /\ Counted("revokeConfirmed", s) \in Record
<1>1. ConfirmBlocks \in Count
  BY DEF Count, ConfirmBlocks
<1>2. \A n \in Count : n + 1 < ConfirmBlocks => n + 1 \in Count
  BY DEF Count, ConfirmBlocks
<1>3. \A n \in Count : n + 1 >= ConfirmBlocks \/ n + 1 < ConfirmBlocks
  BY DEF Count, ConfirmBlocks
<1>4. Counted("lockConfirmed", s) \in Record
  BY <1>1, <1>2, <1>3 DEF Counted, Record
<1>5. Counted("refundConfirmed", s) \in Record
  BY <1>1, <1>2, <1>3 DEF Counted, Record
<1>6. Counted("revokeConfirmed", s) \in Record
  BY <1>1, <1>2, <1>3 DEF Counted, Record
<1> QED
  BY <1>4, <1>5, <1>6

LEMMA TypeCheckRecord ==
  ASSUME TypeOK, NEW c \in Checks, StartCheck(c) \/ CheckStep(c)
  PROVE  rec' \in Record /\ file' \in Record
<1> USE DEF Save
<1>0. rec \in Record /\ file \in Record
  BY DEF TypeOK
<1>a. ASSUME NEW s \in Status PROVE [rec EXCEPT !.status = s] \in Record
  BY <1>0, <1>a, StatusTyped
<1>b. {"LockSent", "sentHashFailed", "Locked", "BuddyLocked", "RedeemSending",
       "RedeemSent", "RedeemSendFail", "Redeemed", "RevokeSent", "RevokeSendFail",
       "Revoked"} \subseteq Status
  BY DEF Status
<1>1. CASE StartCheck(c) \/ NotYet(c) \/ CheckRejected(c)
  BY <1>0, <1>1 DEF StartCheck, NotYet, CheckRejected
<1>2. CASE LockOnline(c) \/ LockBlock(c)
  BY <1>0, <1>a, <1>b, <1>2 DEF LockOnline, LockBlock
<1>3. CASE LockConfirm(c)
  BY <1>0, <1>a, <1>b, <1>3, CountedTyped DEF LockConfirm
<1>4. CASE CrossOnline(c)
  <2>1. [rec EXCEPT !.storemanKnown = ~ inbound \/ @] \in Record
    BY <1>0 DEF Record
  <2> QED
    BY <1>0, <1>a, <1>b, <1>4, <2>1 DEF CrossOnline
<1>5. CASE CrossConfirm(c) \/ RedeemOnline(c) \/ RevokeOnline(c)
  BY <1>0, <1>a, <1>b, <1>5 DEF CrossConfirm, RedeemOnline, RevokeOnline
<1>6. CASE RedeemConfirm(c) \/ RevokeConfirm(c)
  BY <1>0, <1>a, <1>b, <1>6, CountedTyped DEF RedeemConfirm, RevokeConfirm
<1> QED
  BY <1>1, <1>2, <1>3, <1>4, <1>5, <1>6 DEF CheckStep

LEMMA TypeCheck ==
  ASSUME TypeOK, NEW c \in Checks, StartCheck(c) \/ CheckStep(c)
  PROVE  TypeOK'
<1> DEFINE Entry == [pc: CheckPc, tx: Hash, wait: Count]
<1>0. check \in [Checks -> Entry] /\ handling \in BOOLEAN /\ rec \in Record
  BY DEF TypeOK
<1>1. ASSUME NEW pc \in CheckPc, Goto(c, pc)
      PROVE  check' \in [Checks -> Entry] /\ handling' \in BOOLEAN
  BY <1>0, <1>1 DEF Goto
<1>2. ASSUME End(c) PROVE check' \in [Checks -> Entry] /\ handling' \in BOOLEAN
  BY <1>0, <1>2, Zero DEF End
<1>3. check' \in [Checks -> Entry] /\ handling' \in BOOLEAN
  <2>1. CASE StartCheck(c)
    BY <1>0, <2>1, FirstAskTyped DEF StartCheck
  <2>2. CASE LockOnline(c) \/ LockBlock(c) \/ LockConfirm(c)
    BY <1>1, <1>2, <2>2 DEF LockOnline, LockBlock, LockConfirm, CheckPc
  <2>3. CASE CrossOnline(c) \/ CrossConfirm(c)
    BY <1>1, <1>2, <2>3 DEF CrossOnline, CrossConfirm, CheckPc
  <2>4. CASE RedeemOnline(c) \/ RedeemConfirm(c) \/ RevokeOnline(c) \/ RevokeConfirm(c)
    BY <1>2, <2>4 DEF RedeemOnline, RedeemConfirm, RevokeOnline, RevokeConfirm
  <2>5. CASE NotYet(c) \/ CheckRejected(c)
    BY <1>2, <2>5 DEF NotYet, CheckRejected
  <2> QED
    BY <2>1, <2>2, <2>3, <2>4, <2>5 DEF CheckStep
<1> QED
  BY <1>3, TypeCheckRecord, CheckFrame DEF TypeOK

LEMMA TypeRest == TypeOK /\ (Expire \/ OtherWrite \/ Restart) => TypeOK'
<1>1. ASSUME TypeOK, Expire PROVE TypeOK'
  <2>1. BoundTypeOK'
    BY <1>1, BtcAssumption DEF Expire, TypeOK, BoundTypeOK
  <2>2. WalletTypeOK'
    BY <1>1, TypeParts DEF Expire, WalletTypeOK
  <2> QED
    BY <1>1, <2>1, <2>2, TypeParts, PartsKept DEF Expire
<1>2. ASSUME TypeOK, OtherWrite PROVE TypeOK'
  <2>1. WalletTypeOK'
    BY <1>2, TypeParts DEF OtherWrite, WalletTypeOK
  <2> QED
    BY <1>2, <2>1, TypeParts, PartsKept DEF OtherWrite
<1>3. ASSUME TypeOK, Restart PROVE TypeOK'
  <2>1. BoundTypeOK'
    BY <1>3, BtcAssumption DEF Restart, TypeOK, BoundTypeOK
  <2>2. WalletTypeOK'
    BY <1>3, Zero, TypeParts DEF Restart, WalletTypeOK, Active
  <2> QED
    BY <1>3, <2>1, <2>2, TypeParts, PartsKept DEF Restart
<1> QED
  BY <1>1, <1>2, <1>3

LEMMA TypeNext == TypeOK /\ [Next]_vars => TypeOK'
<1>1. CASE UNCHANGED vars
  BY <1>1 DEF vars, chainVars, bounds, TypeOK
<1> QED
  BY <1>1, CallsKinds, TypeChain, TypeRun, TypeCheck, TypeRest DEF Next

(* Every variable keeps its type: in particular the record only has the    *)
(* statuses of a BTC trade.                                                *)
THEOREM BtcTypes == Spec => []TypeOK
BY TypeInit, TypeNext, PTL DEF Spec

-----------------------------------------------------------------------------
(* The chains.                                                             *)

(* What is known of the chains stays known.                                *)
Grows ==
  /\ inbound' = inbound
  /\ src # "none" => src' # "none"
  /\ src = "revoked" => src' = "revoked"
  /\ dst.state = "redeemed" => dst'.state = "redeemed"
  /\ dst.state # "none" => dst'.state # "none" /\ dst'.equal = dst.equal
  /\ dst.deep => dst'.deep
  /\ \A u \in Calls : /\ tx[u] \in Mined => tx'[u] \in Mined
                      /\ tx[u] = "deep" => tx'[u] = "deep"
                      /\ tx[u] = "fail" => tx'[u] = "fail"

LEMMA InitIInv == Init => IInv
<1>1. SUFFICES ASSUME Init PROVE IInv
  OBVIOUS
<1>2. TypeOK
  BY <1>1, TypeInit
<1>3. ChainInv
  BY <1>1, CallsKinds DEF Init, ChainInv, Mined
<1>4. RecordInv
  BY <1>1, CallsKinds DEF Init, RecordInv, NoRecord
<1>5. CheckInv
  BY <1>1 DEF Init, CheckInv, CheckOK, Idle
<1>6. OfferInv
  BY <1>1, CallsKinds DEF Init, OfferInv, OfferOK, Idle, NoRecord
<1>7. CountInv /\ RestartLosesOnlyStoremanLock
  BY <1>1 DEF Init, CountInv, OneCheckAtATime, At, Idle, NoRecord,
     RestartLosesOnlyStoremanLock
<1> QED
  BY <1>2, <1>3, <1>4, <1>5, <1>6, <1>7 DEF IInv

LEMMA ChainGrows ==
  ASSUME TypeOK, ChainInv, Chain
  PROVE  /\ ChainInv' /\ Grows
         /\ tx[LockCall] = "unsent" => tx'[LockCall] = "unsent"
<1> USE CallsKinds DEF ChainInv, Grows, Mined
<1>0. ChainTypeOK
  BY TypeParts
<1> DEFINE Goal == /\ ChainInv' /\ Grows
                   /\ tx[LockCall] = "unsent" => tx'[LockCall] = "unsent"
<1>1. ASSUME NEW u \in Calls, Mine(u) PROVE Goal
  <2>1. CASE u = LockCall
    BY <1>0, <1>1, <2>1 DEF Mine, ChainTypeOK
  <2>2. CASE u = NoticeCall
    BY <1>0, <1>1, <2>2 DEF Mine, ChainTypeOK
  <2>3. CASE u \in RedeemCalls
    BY <1>0, <1>1, <2>3 DEF Mine, ChainTypeOK
  <2>4. CASE u \in RevokeCalls
    BY <1>0, <1>1, <2>4 DEF Mine, ChainTypeOK
  <2> QED
    BY <2>1, <2>2, <2>3, <2>4 DEF Calls
<1>2. ASSUME NEW u \in Calls, MineFailed(u) \/ Deepen(u) PROVE Goal
  BY <1>0, <1>2 DEF MineFailed, Deepen, ChainTypeOK
<1>3. ASSUME NEW equal \in BOOLEAN, StoremanLock(equal) PROVE Goal
  BY <1>0, <1>3 DEF StoremanLock, ChainTypeOK
<1>4. CASE StoremanDeepens \/ StoremanClaim \/ StoremanRevoke
  BY <1>0, <1>4 DEF StoremanDeepens, StoremanClaim, StoremanRevoke, ChainTypeOK
<1>5. CASE Tick
  BY <1>0, <1>5 DEF Tick, ChainTypeOK
<1> QED
  BY <1>1, <1>2, <1>3, <1>4, <1>5 DEF Chain

LEMMA SendGrows ==
  ASSUME TypeOK, ChainInv, NEW u \in Calls, tx' = Accepted(u) \/ tx' = tx,
         UNCHANGED <<inbound, phase, src, dst>>
  PROVE  ChainInv' /\ Grows
<1>1. \A w \in Calls : tx'[w] = tx[w] \/ (tx[w] = "unsent" /\ tx'[w] = "pending")
  BY DEF Accepted, TypeOK
<1> QED
  BY <1>1, CallsKinds DEF ChainInv, Grows, Mined

LEMMA StillGrows ==
  ASSUME ChainInv, UNCHANGED chainVars PROVE ChainInv' /\ Grows
BY DEF ChainInv, Grows, chainVars

-----------------------------------------------------------------------------
(* What leaves a part of the invariant alone.                              *)

LEMMA RecordStays ==
  ASSUME RecordInv, Grows, rec' = rec, run'[LockCall] = run[LockCall],
         rec.status = "absent" => run' = run,
         tx[LockCall] = "unsent" => tx'[LockCall] = "unsent"
  PROVE  RecordInv'
BY CallsKinds DEF RecordInv, Grows

LEMMA CheckStays ==
  ASSUME Grows, NEW c \in Checks, CheckOK(check[c]), check'[c] = check[c],
         rec.status # "absent" => rec'.status # "absent",
         run[LockCall] = "done" => run'[LockCall] = "done"
  PROVE  CheckOK(check[c])'
BY CallsKinds DEF CheckOK, Grows

LEMMA ChecksStay ==
  ASSUME CheckInv, Grows, check' = check,
         rec.status # "absent" => rec'.status # "absent",
         run[LockCall] = "done" => run'[LockCall] = "done"
  PROVE  CheckInv'
BY CheckStays DEF CheckInv

(* Nothing an offer needs is taken from the record.                        *)
Richer == /\ rec.noticeTx # NoTx => rec'.noticeTx # NoTx
          /\ rec.storemanKnown => rec'.storemanKnown

LEMMA OfferStays ==
  ASSUME Grows, Richer, GoodOffer(rec)
  PROVE  GoodOffer(rec)'
BY DEF Grows, Richer, GoodOffer, CanBuildRedeem

LEMMA OfferChecksStay ==
  ASSUME Grows, Richer, NEW c \in Checks, OfferOK(check[c]), check'[c] = check[c]
  PROVE  OfferOK(check[c])'
BY OfferStays DEF OfferOK, Grows, Richer

LEMMA OffersStay ==
  ASSUME OfferInv, Grows, rec' = rec, file' = file \/ file' = rec, check' = check,
         \A u \in RedeemCalls \cup RevokeCalls : run'[u] = "send" => run[u] = "send"
  PROVE  OfferInv'
<1>1. Richer
  BY DEF Richer
<1>2. GoodOffer(rec) /\ GoodOffer(file) => (GoodOffer(rec) /\ GoodOffer(file))'
  BY DEF Grows, GoodOffer, CanBuildRedeem
<1> QED
  BY <1>1, <1>2, OfferStays, OfferChecksStay DEF OfferInv, Grows

LEMMA CountsStay ==
  ASSUME CountInv, Grows, UNCHANGED <<check, handling, expiries>>,
         rec'.status = "Locked" => rec.status = "Locked",
         (\E c \in Checks : At(c, "lockConfirm")) => rec'.lockConfirmed = rec.lockConfirmed
  PROVE  CountInv'
BY CallsKinds DEF CountInv, OneCheckAtATime, At, Grows

-----------------------------------------------------------------------------
(* The steps of the chains and of the calls.                               *)

LEMMA InvChain == IInv /\ Chain /\ Wallet => IInv'
<1>1. SUFFICES ASSUME IInv, Chain, Wallet PROVE IInv'
  OBVIOUS
<1>2. ChainInv' /\ Grows /\ (tx[LockCall] = "unsent" => tx'[LockCall] = "unsent")
  BY <1>1, ChainGrows DEF IInv
<1>3. UNCHANGED <<rec, file, run, check, handling, expiries>>
  BY <1>1 DEF Wallet, bounds
<1>4. TypeOK'
  BY <1>1, TypeChain DEF IInv
<1>5. RecordInv'
  BY <1>1, <1>2, <1>3, RecordStays DEF IInv
<1>6. CheckInv'
  BY <1>1, <1>2, <1>3, ChecksStay DEF IInv
<1>7. OfferInv'
  BY <1>1, <1>2, <1>3, OffersStay DEF IInv
<1>8. CountInv'
  BY <1>1, <1>2, <1>3, CountsStay DEF IInv
<1>9. RestartLosesOnlyStoremanLock'
  BY <1>1, <1>3 DEF IInv, RestartLosesOnlyStoremanLock
<1> QED
  BY <1>2, <1>4, <1>5, <1>6, <1>7, <1>8, <1>9 DEF IInv

(* Before the LOCK there is nothing: no check, no offer.                   *)
LEMMA InvLock == IInv /\ Lock => IInv'
<1>1. SUFFICES ASSUME IInv, Lock PROVE IInv'
  OBVIOUS
<1>0. TypeOK /\ ChainInv /\ RecordInv /\ CheckInv /\ OfferInv /\ CountInv
  BY <1>1 DEF IInv
<1>2. ChainInv' /\ Grows /\ tx' = tx /\ src' = src /\ dst' = dst
  BY <1>0, <1>1, StillGrows DEF Lock, chainVars
<1>3. rec' = [NoRecord EXCEPT !.status = "LockSending"] /\ file' = rec'
  BY <1>1 DEF Lock, Save
<1>4. rec'.status = "LockSending" /\ rec'.lockTx = NoTx /\ rec'.redeemTx = NoTx
      /\ rec'.revokeTx = NoTx
  BY <1>3 DEF NoRecord
<1>5. run' = [run EXCEPT ![LockCall] = "send"] /\ check' = check /\ handling' = handling
      /\ expiries' = expiries
  BY <1>1 DEF Lock, Started, bounds
<1>6. \A c \in Checks : check[c].pc = "idle"
  BY <1>0, <1>1 DEF Lock, CheckInv, CheckOK
<1>7. src = "none" /\ dst.state = "none"
  BY <1>0, <1>1 DEF Lock, ChainInv, RecordInv, Mined
<1>8. RecordInv'
  BY <1>0, <1>4, <1>5, CallsKinds DEF RecordInv, TypeOK
<1>9. CheckInv'
  BY <1>4, <1>5, <1>6 DEF CheckInv, CheckOK
<1>10. OfferInv'
  BY <1>0, <1>2, <1>4, <1>5, <1>6, <1>7, CallsKinds DEF OfferInv, OfferOK, GoodOffer, TypeOK
<1>11. CountInv'
  BY <1>0, <1>2, <1>4, <1>5, <1>6, CountsStay DEF At
<1> QED
  BY <1>1, <1>2, <1>3, <1>8, <1>9, <1>10, <1>11, TypeRun, CallsKinds
     DEF IInv, RestartLosesOnlyStoremanLock

(* A wallet that asks canRedeem or canRevoke begins a call with what the   *)
(* status tells it.                                                        *)
LEMMA RevocableIsLocked ==
  ASSUME ChainInv, RecordInv, OfferInv, WalletAsks, CanRevoke(rec)
  PROVE  src # "none"
BY DEF ChainInv, RecordInv, OfferInv, CanRevoke, GoodOffer

LEMMA InvBegin ==
  ASSUME IInv, NEW u \in Calls, Redeem(u) \/ Revoke(u)
  PROVE  IInv'
<1>0. TypeOK /\ ChainInv /\ RecordInv /\ CheckInv /\ OfferInv /\ CountInv
  BY DEF IInv
<1>1. ChainInv' /\ Grows /\ tx' = tx
  BY <1>0, StillGrows DEF Redeem, Revoke, chainVars
<1>2. UNCHANGED <<inbound, rec, file, check, handling, expiries, src, dst>>
  BY DEF Redeem, Revoke, bounds, chainVars
<1>3. run' = [run EXCEPT ![u] = "send"] /\ u \in RedeemCalls \cup RevokeCalls
  BY DEF Redeem, Revoke, Started
<1>4. RecordInv'
  <2>1. run'[LockCall] = run[LockCall]
    BY <1>0, <1>3, CallsKinds DEF TypeOK
  <2>2. rec.status # "absent"
    BY <1>0, CallsKinds DEF Redeem, Revoke, CanBuildRedeem, CanBuildRevoke, RecordInv,
       NoRecord
  <2> QED
    BY <1>0, <1>1, <1>2, <2>1, <2>2, RecordStays
<1>5. CheckInv' /\ CountInv'
  <2>1. run'[LockCall] = run[LockCall]
    BY <1>0, <1>3, CallsKinds DEF TypeOK
  <2> QED
    BY <1>0, <1>1, <1>2, <2>1, ChecksStay, CountsStay
<1>6. WalletAsks /\ u \in RedeemCalls => GoodOffer(rec)
  BY <1>0, CallsKinds DEF Redeem, Revoke, CanRedeem, OfferInv
<1>7. WalletAsks /\ u \in RevokeCalls => src # "none"
  BY <1>0, RevocableIsLocked, CallsKinds DEF Redeem, Revoke
<1>8. OfferInv'
  <2>1. Richer
    BY <1>2 DEF Richer
  <2>2. GoodOffer(rec)' <=> GoodOffer(rec)
    BY <1>2 DEF GoodOffer, CanBuildRedeem
  <2>3. GoodOffer(file)' <=> GoodOffer(file)
    BY <1>2 DEF GoodOffer, CanBuildRedeem
  <2>4. \A w \in RedeemCalls \cup RevokeCalls : run'[w] = "send" => w = u \/ run[w] = "send"
    BY <1>0, <1>3, CallsKinds DEF TypeOK
  <2> QED
    BY <1>0, <1>1, <1>2, <1>3, <1>6, <1>7, <2>1, <2>2, <2>3, <2>4, OfferChecksStay,
       CallsKinds DEF OfferInv
<1> QED
  BY <1>0, <1>1, <1>2, <1>4, <1>5, <1>8, TypeRun DEF IInv, RestartLosesOnlyStoremanLock

(* The hash is stored with the status of its kind.                         *)
LEMMA InvSendAnswered ==
  ASSUME IInv, NEW u \in Calls, SendAnswered(u)
  PROVE  IInv'
<1>0. TypeOK /\ ChainInv /\ RecordInv /\ CheckInv /\ OfferInv /\ CountInv
  BY DEF IInv
<1>1. ChainInv' /\ Grows
  BY <1>0, SendGrows DEF SendAnswered
<1>2. UNCHANGED <<check, handling, expiries>> /\ file' = rec'
  BY DEF SendAnswered, Save, bounds
<1>3. rec.status # "absent" /\ run[u] = "send" /\ rec \in Record
  BY <1>0 DEF RecordInv, SendAnswered, TypeOK
<1>4. \A w \in Calls \ {u, NoticeCall} : run'[w] = run[w]
  BY <1>0 DEF SendAnswered, TypeOK
<1>5. run'[u] = "done"
  BY <1>0, CallsKinds DEF SendAnswered, TypeOK
<1>6. Richer /\ rec'.status # "absent" /\ rec'.lockConfirmed = rec.lockConfirmed
  BY <1>3, CallsKinds DEF SendAnswered, Save, Richer, Record, LockPostSend,
     NoticePostSend, RedeemPostSend, RevokePostSend, Calls
<1>7. /\ u = LockCall => rec' = LockPostSend(u)
      /\ u = NoticeCall => rec' = NoticePostSend(u)
      /\ u \in RedeemCalls => rec' = RedeemPostSend(u)
      /\ u \in RevokeCalls => rec' = RevokePostSend(u)
  BY CallsKinds DEF SendAnswered, Save
<1>8. RecordInv'
  <2> USE CallsKinds DEF RecordInv, Record, Grows
  <2>1. rec'.status # "absent" /\ run'[LockCall] # "idle"
    BY <1>0, <1>3, <1>4, <1>5, <1>6
  <2>2. CASE u = LockCall
    BY <1>0, <1>1, <1>3, <1>5, <1>7, <2>1, <2>2 DEF LockPostSend
  <2>3. ASSUME u # LockCall PROVE run'[LockCall] = run[LockCall]
    BY <1>4, <2>3
  <2>4. CASE u = NoticeCall
    BY <1>0, <1>1, <1>3, <1>7, <2>1, <2>3, <2>4 DEF NoticePostSend
  <2>5. CASE u \in RedeemCalls
    BY <1>0, <1>1, <1>3, <1>7, <2>1, <2>3, <2>5 DEF RedeemPostSend
  <2>6. CASE u \in RevokeCalls
    BY <1>0, <1>1, <1>3, <1>7, <2>1, <2>3, <2>6 DEF RevokePostSend
  <2> QED
    BY <2>2, <2>4, <2>5, <2>6 DEF Calls
<1>9. CheckInv'
  <2>1. run[LockCall] = "done" => run'[LockCall] = "done"
    BY <1>4, <1>5, CallsKinds
  <2> QED
    BY <1>0, <1>1, <1>2, <1>6, <2>1, ChecksStay
<1>10. CountInv'
  <2>1. rec'.status = "Locked" => rec.status = "Locked"
    BY <1>3, <1>7, CallsKinds DEF Record, LockPostSend, NoticePostSend, RedeemPostSend,
       RevokePostSend, Calls
  <2> QED
    BY <1>0, <1>1, <1>2, <1>6, <2>1, CountsStay
<1>11. OfferInv'
  <2> SUFFICES ASSUME WalletAsks PROVE OfferInv'
    BY DEF OfferInv
  <2>1. GoodOffer(rec) => GoodOffer(rec)' /\ GoodOffer(file)'
    BY <1>1, <1>2, <1>6, OfferStays DEF GoodOffer, CanBuildRedeem
  <2>2. rec'.status \in {"BuddyLocked", "RedeemSending", "RedeemSent", "RedeemSendFail"}
          => GoodOffer(rec)
    BY <1>0, <1>3, <1>7, CallsKinds DEF OfferInv, Record, LockPostSend, NoticePostSend,
       RedeemPostSend, RevokePostSend, Calls
  <2>3. rec'.status \in {"RevokeSending", "RevokeSendFail"} => src # "none"
    BY <1>0, <1>3, <1>7, CallsKinds DEF OfferInv, Record, LockPostSend, NoticePostSend,
       RedeemPostSend, RevokePostSend, Calls
  <2>4. \A w \in RedeemCalls \cup RevokeCalls : run'[w] = "send" => run[w] = "send"
    BY <1>4, <1>5, CallsKinds
  <2>5. \A c \in Checks : OfferOK(check[c])'
    BY <1>0, <1>1, <1>2, <1>6, OfferChecksStay DEF OfferInv
  <2> QED
    BY <1>0, <1>1, <2>1, <2>2, <2>3, <2>4, <2>5 DEF OfferInv, Grows
<1> QED
  BY <1>0, <1>1, <1>2, <1>8, <1>9, <1>10, <1>11, TypeRun
     DEF IInv, RunStep, RestartLosesOnlyStoremanLock

LEMMA InvSendFails ==
  ASSUME IInv, NEW u \in Calls, SendFails(u)
  PROVE  IInv'
<1>0. TypeOK /\ ChainInv /\ RecordInv /\ CheckInv /\ OfferInv /\ CountInv
  BY DEF IInv
<1>1. ChainInv' /\ Grows
  <2>1. tx' = tx \/ tx' = Accepted(u)
    BY DEF SendFails
  <2> QED
    BY <1>0, <2>1, SendGrows DEF SendFails
<1>2. UNCHANGED <<rec, file, check, handling, expiries>>
  BY DEF SendFails
<1>3. run' = [run EXCEPT ![u] = "failing"] /\ run[u] = "send" /\ rec.status # "absent"
  BY <1>0 DEF SendFails, RecordInv
<1>4. RecordInv'
  BY <1>0, <1>1, <1>2, <1>3, CallsKinds DEF RecordInv, Grows, TypeOK
<1>5. CheckInv'
  BY <1>0, <1>1, <1>2, <1>3, CallsKinds, ChecksStay DEF TypeOK
<1>6. OfferInv'
  BY <1>0, <1>1, <1>2, <1>3, CallsKinds, OffersStay DEF TypeOK
<1>7. CountInv'
  BY <1>0, <1>1, <1>2, CountsStay
<1> QED
  BY <1>1, <1>2, <1>4, <1>5, <1>6, <1>7, TypeRun
     DEF IInv, RunStep, RestartLosesOnlyStoremanLock

(* A LOCK that failed has no hash.                                         *)
LEMMA InvTransFailed ==
  ASSUME IInv, NEW u \in Calls, TransFailed(u)
  PROVE  IInv'
<1>0. TypeOK /\ ChainInv /\ RecordInv /\ CheckInv /\ OfferInv /\ CountInv
  BY DEF IInv
<1>1. ChainInv' /\ Grows /\ tx' = tx
  BY <1>0, StillGrows DEF TransFailed, chainVars
<1>2. UNCHANGED <<check, handling, expiries>>
  BY DEF TransFailed, bounds
<1>3. run' = [run EXCEPT ![u] = "done"] /\ run[u] = "failing" /\ rec.status # "absent"
  BY <1>0 DEF TransFailed, RecordInv
<1>4. CASE u # LockCall
  <2>1. UNCHANGED <<rec, file>>
    BY <1>4 DEF TransFailed
  <2>2. RecordInv'
    BY <1>0, <1>1, <1>3, <1>4, <2>1, CallsKinds DEF RecordInv, Grows, TypeOK
  <2>3. CheckInv'
    BY <1>0, <1>1, <1>2, <1>3, <1>4, <2>1, CallsKinds, ChecksStay DEF TypeOK
  <2>4. OfferInv'
    BY <1>0, <1>1, <1>2, <1>3, <2>1, CallsKinds, OffersStay DEF TypeOK
  <2>5. CountInv'
    BY <1>0, <1>1, <1>2, <2>1, CountsStay
  <2> QED
    BY <1>1, <1>4, <2>1, <2>2, <2>3, <2>4, <2>5, TypeRun
       DEF IInv, RunStep, RestartLosesOnlyStoremanLock
<1>5. CASE u = LockCall
  <2>0. rec' = [rec EXCEPT !.status = "sentHashFailed"] /\ file' = rec'
        /\ rec \in Record
    BY <1>0, <1>5 DEF TransFailed, Save, TypeOK
  <2>1. rec.lockTx = NoTx
    BY <1>0, <1>3, <1>5 DEF RecordInv
  <2>2. rec'.status = "sentHashFailed" /\ rec'.lockTx = NoTx /\ Richer
        /\ rec'.redeemTx = rec.redeemTx /\ rec'.revokeTx = rec.revokeTx
        /\ rec'.lockConfirmed = rec.lockConfirmed
    BY <2>0, <2>1 DEF Record, Richer
  <2>3. RecordInv'
    BY <1>0, <1>1, <1>3, <1>5, <2>2, CallsKinds DEF RecordInv, TypeOK
  <2>4. CheckInv'
    BY <1>0, <1>1, <1>2, <1>3, <1>5, <2>2, CallsKinds, ChecksStay DEF TypeOK
  <2>5. OfferInv'
    <3>1. \A c \in Checks : WalletAsks => OfferOK(check[c])'
      BY <1>0, <1>1, <1>2, <2>2, OfferChecksStay DEF OfferInv
    <3>2. \A w \in RedeemCalls \cup RevokeCalls : run'[w] = run[w]
      BY <1>0, <1>3, <1>5, CallsKinds DEF TypeOK
    <3> QED
      BY <1>0, <1>1, <2>2, <3>1, <3>2, OfferStays DEF OfferInv, Grows
  <2>6. CountInv'
    BY <1>0, <1>1, <1>2, <2>2, CountsStay
  <2> QED
    BY <1>1, <1>5, <2>0, <2>3, <2>4, <2>5, <2>6, TypeRun
       DEF IInv, RunStep, RestartLosesOnlyStoremanLock
<1> QED
  BY <1>4, <1>5

-----------------------------------------------------------------------------
(* The steps of the checks.                                                *)

(* What the invariant asks of the status that a check writes.              *)
Fits(s) ==
  /\ s # "absent"
  /\ s = "LockSent" /\ ~ inbound => tx[LockCall] \in Mined
  /\ s = "Locked" => src # "none" /\ (expiries = 0 => tx[LockCall] = "deep")
  /\ s = "BuddyLocked" => dst.deep
  /\ s \in {"RedeemSent", "Redeemed"} => dst.state = "redeemed"
  /\ s \in {"RevokeSent", "Revoked"} => src = "revoked"
  /\ s = "sentHashFailed" => /\ run[LockCall] = "done"
                             /\ rec.lockTx # NoTx => tx[LockCall] = "fail"
  /\ WalletAsks /\ s \in {"BuddyLocked", "RedeemSending", "RedeemSent", "RedeemSendFail"}
       => GoodOffer(rec)
  /\ WalletAsks /\ s \in {"RevokeSending", "RevokeSendFail"} => src # "none"

LEMMA StatusFits == IInv /\ rec.status # "absent" => Fits(rec.status)
BY DEF IInv, RecordInv, OfferInv, CountInv, Fits

(* A check writes the status and the counters only.                        *)
SameFields == /\ rec'.lockTx = rec.lockTx /\ rec'.noticeTx = rec.noticeTx
              /\ rec'.redeemTx = rec.redeemTx /\ rec'.revokeTx = rec.revokeTx
              /\ rec'.storemanKnown = rec.storemanKnown

LEMMA OthersStay ==
  ASSUME CheckInv, OfferInv, Grows, Richer, NEW c \in Checks,
         \A d \in Checks \ {c} : check'[d] = check[d],
         rec.status # "absent" => rec'.status # "absent", run' = run,
         CheckOK(check[c])', WalletAsks => OfferOK(check[c])'
  PROVE  CheckInv' /\ (WalletAsks => \A d \in Checks : OfferOK(check[d])')
<1>1. ASSUME NEW d \in Checks \ {c} PROVE CheckOK(check[d])'
  BY <1>1, CheckStays DEF CheckInv
<1>2. ASSUME NEW d \in Checks \ {c}, WalletAsks PROVE OfferOK(check[d])'
  BY <1>2, OfferChecksStay DEF OfferInv
<1> QED
  BY <1>1, <1>2 DEF CheckInv

LEMMA InvEnd ==
  ASSUME IInv, NEW c \in Checks, CheckStep(c), ~ At(c, "idle"), End(c),
         SameFields, file' = rec', Fits(rec'.status)
  PROVE  IInv'
<1>0. TypeOK /\ ChainInv /\ RecordInv /\ CheckInv /\ OfferInv /\ CountInv
  BY DEF IInv
<1>1. UNCHANGED <<inbound, phase, src, dst, tx, run, expiries>> /\ TypeOK'
  BY <1>0, CheckFrame, TypeCheck
<1>2. ChainInv' /\ Grows
  BY <1>0, <1>1, StillGrows DEF chainVars
<1>3. rec.status # "absent" /\ rec'.status # "absent" /\ Richer
  BY <1>0 DEF CheckInv, CheckOK, At, Fits, Richer, SameFields
<1>4. check'[c] = Idle /\ handling' = FALSE
      /\ \A d \in Checks \ {c} : check'[d] = check[d]
  BY <1>0 DEF End, TypeOK
<1>5. RecordInv'
  BY <1>0, <1>1, <1>3 DEF RecordInv, Fits, SameFields
<1>6. CheckInv' /\ (WalletAsks => \A d \in Checks : OfferOK(check[d])')
  <2>1. CheckOK(check[c])' /\ OfferOK(check[c])'
    BY <1>4 DEF CheckOK, OfferOK, Idle
  <2> QED
    BY <1>0, <1>1, <1>2, <1>3, <1>4, <2>1, OthersStay
<1>7. OfferInv'
  <2>1. GoodOffer(rec) => GoodOffer(rec)' /\ GoodOffer(file)'
    BY <1>1 DEF GoodOffer, CanBuildRedeem, SameFields
  <2> QED
    BY <1>0, <1>1, <1>6, <2>1 DEF OfferInv, Fits
<1>8. CountInv'
  <2>1. ASSUME expiries = 0, NEW d \in Checks PROVE check'[d].pc = "idle"
    BY <1>0, <1>4, <2>1 DEF CountInv, OneCheckAtATime, At, Idle
  <2> QED
    BY <1>1, <2>1 DEF CountInv, OneCheckAtATime, At, Fits
<1> QED
  BY <1>1, <1>2, <1>5, <1>6, <1>7, <1>8 DEF IInv, CheckInv, RestartLosesOnlyStoremanLock

(* A check that writes nothing.                                            *)
LEMMA InvEndUnsaid ==
  ASSUME IInv, NEW c \in Checks, CheckStep(c), ~ At(c, "idle"), End(c),
         UNCHANGED <<rec, file>>
  PROVE  IInv'
<1>0. TypeOK /\ ChainInv /\ RecordInv /\ CheckInv /\ OfferInv /\ CountInv
  BY DEF IInv
<1>1. UNCHANGED <<inbound, phase, src, dst, tx, run, expiries>> /\ TypeOK'
  BY <1>0, CheckFrame, TypeCheck
<1>2. ChainInv' /\ Grows /\ Richer
  BY <1>0, <1>1, StillGrows DEF chainVars, Richer
<1>4. check'[c] = Idle /\ handling' = FALSE
      /\ \A d \in Checks \ {c} : check'[d] = check[d]
  BY <1>0 DEF End, TypeOK
<1>5. RecordInv'
  BY <1>0, <1>1, <1>2, RecordStays
<1>6. CheckInv' /\ (WalletAsks => \A d \in Checks : OfferOK(check[d])')
  <2>1. CheckOK(check[c])' /\ OfferOK(check[c])'
    BY <1>4 DEF CheckOK, OfferOK, Idle
  <2> QED
    BY <1>0, <1>1, <1>2, <1>4, <2>1, OthersStay
<1>7. OfferInv'
  <2>1. /\ GoodOffer(rec) => GoodOffer(rec)'
        /\ GoodOffer(file) => GoodOffer(file)'
    BY <1>1 DEF GoodOffer, CanBuildRedeem
  <2> QED
    BY <1>0, <1>1, <1>6, <2>1 DEF OfferInv
<1>8. CountInv'
  <2>1. ASSUME expiries = 0, NEW d \in Checks PROVE check'[d].pc = "idle"
    BY <1>0, <1>4, <2>1 DEF CountInv, OneCheckAtATime, At, Idle
  <2> QED
    BY <1>0, <1>1, <2>1 DEF CountInv, OneCheckAtATime, At
<1> QED
  BY <1>1, <1>2, <1>5, <1>6, <1>7, <1>8 DEF IInv, RestartLosesOnlyStoremanLock

LEMMA InvStartCheck ==
  ASSUME IInv, NEW c \in Checks, StartCheck(c)
  PROVE  IInv'
<1>0. TypeOK /\ ChainInv /\ RecordInv /\ CheckInv /\ OfferInv /\ CountInv
  BY DEF IInv
<1>1. UNCHANGED <<inbound, phase, src, dst, tx, run, expiries>> /\ TypeOK'
  BY <1>0, CheckFrame, TypeCheck
<1>2. ChainInv' /\ Grows /\ Richer /\ UNCHANGED <<rec, file>>
  BY <1>0, <1>1, StillGrows DEF chainVars, Richer, StartCheck
<1>3. rec.status \in Watched /\ ~ handling /\ handling'
  BY DEF StartCheck
<1>4. check'[c] = FirstAsk /\ \A d \in Checks \ {c} : check'[d] = check[d]
  BY <1>0 DEF StartCheck, TypeOK
<1>5. RecordInv'
  BY <1>0, <1>1, <1>2, RecordStays
<1>6. CheckOK(FirstAsk)
  <2> USE DEF FirstAsk, Asks, CheckOK, RecordInv
  <2>1. CASE rec.status = "LockSending"
    BY <1>0, <2>1, CallsKinds
  <2>2. CASE rec.status = "LockSent"
    BY <1>0, <2>2
  <2>3. CASE rec.status = "Locked"
    BY <1>0, <2>3
  <2>4. CASE rec.status = "RedeemSending"
    BY <1>0, <2>4
  <2>5. CASE rec.status = "RedeemSent"
    BY <1>0, <2>5
  <2>6. CASE rec.status = "RevokeSending"
    BY <1>0, <2>6
  <2>7. CASE rec.status = "RevokeSent"
    BY <1>0, <2>7
  <2> QED
    BY <1>3, <2>1, <2>2, <2>3, <2>4, <2>5, <2>6, <2>7 DEF Watched
<1>7. WalletAsks => OfferOK(FirstAsk)
  BY <1>0, <1>3 DEF FirstAsk, Asks, Watched, OfferOK, OfferInv
<1>8. CheckInv' /\ (WalletAsks => \A d \in Checks : OfferOK(check[d])')
  <2>1. CheckOK(check[c])'
    BY <1>1, <1>2, <1>4, <1>6 DEF CheckOK
  <2>2. WalletAsks => OfferOK(check[c])'
    BY <1>1, <1>2, <1>4, <1>7 DEF OfferOK, GoodOffer, CanBuildRedeem
  <2> QED
    BY <1>0, <1>1, <1>2, <1>4, <2>1, <2>2, OthersStay
<1>9. OfferInv'
  <2>1. /\ GoodOffer(rec) => GoodOffer(rec)'
        /\ GoodOffer(file) => GoodOffer(file)'
    BY <1>1, <1>2 DEF GoodOffer, CanBuildRedeem
  <2> QED
    BY <1>0, <1>1, <1>2, <1>8, <2>1 DEF OfferInv
<1>10. CountInv'
  <2>1. ASSUME expiries = 0, NEW d \in Checks \ {c} PROVE check'[d].pc = "idle"
    BY <1>0, <1>3, <1>4, <2>1 DEF CountInv, OneCheckAtATime, At
  <2>2. FirstAsk.pc = "lockConfirm" /\ ~ inbound => FirstAsk.wait = rec.lockConfirmed
    BY <1>3 DEF FirstAsk, Asks, Watched
  <2> QED
    BY <1>0, <1>1, <1>2, <1>3, <1>4, <2>1, <2>2 DEF CountInv, OneCheckAtATime, At
<1> QED
  BY <1>1, <1>2, <1>5, <1>8, <1>9, <1>10 DEF IInv, RestartLosesOnlyStoremanLock

LEMMA Written ==
  ASSUME rec \in Record, NEW s, Save([rec EXCEPT !.status = s])
  PROVE  rec'.status = s /\ SameFields /\ file' = rec'
BY DEF Save, Record, SameFields

LEMMA CountedWritten ==
  ASSUME rec \in Record, NEW s,
         NEW n \in {"lockConfirmed", "refundConfirmed", "revokeConfirmed"},
         Save(Counted(n, s))
  PROVE  /\ SameFields /\ file' = rec'
         /\ \/ rec'.status = rec.status
            \/ rec'.status = s /\ rec[n] + 1 >= ConfirmBlocks
<1>1. rec' = Counted(n, s) /\ file' = rec'
  BY DEF Save
<1>2. CASE n = "lockConfirmed"
  BY <1>1, <1>2 DEF Counted, Record, SameFields
<1>3. CASE n = "refundConfirmed"
  BY <1>1, <1>3 DEF Counted, Record, SameFields
<1>4. CASE n = "revokeConfirmed"
  BY <1>1, <1>4 DEF Counted, Record, SameFields
<1> QED
  BY <1>2, <1>3, <1>4

(* What a check has found when the server knows the hash it asks for.      *)
LEMMA Found ==
  ASSUME IInv, NEW c \in Checks, ~ At(c, "idle")
  PROVE  /\ rec.status # "absent" /\ Fits(rec.status)
         /\ CheckOK(check[c]) /\ (WalletAsks => OfferOK(check[c]))
         /\ Sought(c) # "unsent" => Sought(c) = tx[check[c].tx]
<1>1. rec.status # "absent" /\ CheckOK(check[c]) /\ (WalletAsks => OfferOK(check[c]))
  BY DEF IInv, CheckInv, CheckOK, OfferInv, At
<1> QED
  BY <1>1, StatusFits DEF Sought

LEMMA InvLockOnline ==
  ASSUME IInv, NEW c \in Checks, LockOnline(c)
  PROVE  IInv'
<1>0. rec \in Record /\ ChainInv /\ RecordInv /\ ~ At(c, "idle") /\ CheckStep(c)
  BY DEF IInv, TypeOK, LockOnline, At, CheckStep
<1>1. check[c].tx \in {NoTx, LockCall} /\ (check[c].tx = LockCall => run[LockCall] = "done")
  BY <1>0, Found DEF LockOnline, At, CheckOK
<1>2. rec.status # "absent"
  BY <1>0, Found
<1>3. CASE End(c) /\ Save([rec EXCEPT !.status = "LockSent"]) /\ inbound
  <2>1. Fits("LockSent")
    BY <1>3 DEF Fits
  <2> QED
    BY <1>0, <1>3, <2>1, Written, InvEnd
<1>4. CASE /\ End(c) /\ Save([rec EXCEPT !.status = "sentHashFailed"])
           /\ Sought(c) = "fail"
  <2>1. tx[LockCall] = "fail" /\ run[LockCall] = "done"
    BY <1>1, <1>4 DEF Sought
  <2>2. Fits("sentHashFailed")
    BY <2>1 DEF Fits
  <2> QED
    BY <1>0, <1>4, <2>2, Written, InvEnd
<1>5. CASE Goto(c, "lockBlock") /\ UNCHANGED <<rec, file>> /\ Sought(c) \in Mined
  <2>0. TypeOK /\ CheckInv /\ OfferInv /\ CountInv
    BY DEF IInv
  <2>1. UNCHANGED <<inbound, phase, src, dst, tx, run, expiries>> /\ TypeOK'
    BY <1>0, <2>0, CheckFrame, TypeCheck
  <2>2. ChainInv' /\ Grows /\ Richer
    BY <1>0, <1>5, <2>1, StillGrows DEF chainVars, Richer
  <2>3. check'[c] = [check[c] EXCEPT !.pc = "lockBlock"] /\ handling' = handling
        /\ \A d \in Checks \ {c} : check'[d] = check[d]
    BY <1>5, <2>0 DEF Goto, TypeOK
  <2>4. check'[c].pc = "lockBlock"
    BY <2>0, <2>3 DEF TypeOK
  <2>5. tx[LockCall] \in Mined
    BY <1>1, <1>5 DEF Sought, Mined
  <2>6. RecordInv'
    BY <1>0, <1>5, <2>1, <2>2, RecordStays
  <2>7. CheckInv' /\ (WalletAsks => \A d \in Checks : OfferOK(check[d])')
    <3>1. CheckOK(check[c])' /\ OfferOK(check[c])'
      BY <1>2, <1>5, <2>1, <2>4, <2>5 DEF CheckOK, OfferOK
    <3> QED
      BY <1>5, <2>0, <2>1, <2>2, <2>3, <3>1, OthersStay
  <2>8. OfferInv'
    <3>1. /\ GoodOffer(rec) => GoodOffer(rec)'
          /\ GoodOffer(file) => GoodOffer(file)'
      BY <1>5, <2>1 DEF GoodOffer, CanBuildRedeem
    <3> QED
      BY <1>5, <2>0, <2>1, <2>7, <3>1 DEF OfferInv
  <2>9. CountInv'
    BY <1>0, <1>5, <2>0, <2>1, <2>3, <2>4 DEF CountInv, OneCheckAtATime, At
  <2> QED
    BY <1>5, <2>1, <2>2, <2>6, <2>7, <2>8, <2>9 DEF IInv, RestartLosesOnlyStoremanLock
<1> QED
  BY <1>3, <1>4, <1>5 DEF LockOnline

LEMMA InvLockBlock ==
  ASSUME IInv, NEW c \in Checks, LockBlock(c)
  PROVE  IInv'
<1>0. rec \in Record /\ ~ At(c, "idle") /\ CheckStep(c)
  BY DEF IInv, TypeOK, LockBlock, At, CheckStep
<1>1. Fits("LockSent")
  BY <1>0, Found DEF LockBlock, At, CheckOK, Fits
<1> QED
  BY <1>0, <1>1, Written, InvEnd DEF LockBlock

(* The count was the record's when the check began, so a check that makes  *)
(* it full has waited for the whole depth.                                 *)
LEMMA InvLockConfirm ==
  ASSUME IInv, NEW c \in Checks, LockConfirm(c)
  PROVE  IInv'
<1>0. rec \in Record /\ ChainInv /\ ~ At(c, "idle") /\ CheckStep(c) /\ End(c)
  BY DEF IInv, TypeOK, LockConfirm, At, CheckStep
<1>1. check[c].tx \in {NoTx, LockCall} /\ (~ inbound => tx[LockCall] \in Mined)
  BY <1>0, Found DEF LockConfirm, At, CheckOK
<1>2. tx[LockCall] \in Mined => src # "none"
  BY <1>0 DEF ChainInv
<1>3. CASE inbound
  <2>1. tx[LockCall] = "deep"
    BY <1>1, <1>3 DEF LockConfirm, Sought
  <2>2. Fits("Locked")
    BY <1>2, <2>1 DEF Fits, Mined
  <2> QED
    BY <1>0, <1>3, <2>2, Written, InvEnd DEF LockConfirm
<1>4. CASE ~ inbound
  <2>1. Save(Counted("lockConfirmed", "Locked")) /\ Waited(c)
    BY <1>4 DEF LockConfirm
  <2>2. /\ SameFields /\ file' = rec'
        /\ \/ rec'.status = rec.status
           \/ rec'.status = "Locked" /\ rec.lockConfirmed + 1 >= ConfirmBlocks
    BY <1>0, <2>1, CountedWritten
  <2>3. ASSUME expiries = 0, rec.lockConfirmed + 1 >= ConfirmBlocks
        PROVE  tx[LockCall] = "deep"
    <3>1. check[c].wait = rec.lockConfirmed
      BY <1>4, <2>3 DEF IInv, CountInv, LockConfirm
    <3>2. rec.lockConfirmed # 0
      BY <1>0, <2>3 DEF ConfirmBlocks
    <3>3. Sought(c) \in {"deep", "fail"}
      BY <2>1, <3>1, <3>2 DEF Waited
    <3> QED
      BY <1>1, <1>4, <3>3 DEF Sought, Mined
  <2>4. rec.lockConfirmed + 1 >= ConfirmBlocks => Fits("Locked")
    BY <1>1, <1>2, <1>4, <2>3 DEF Fits
  <2>5. Fits(rec'.status)
    BY <1>0, <2>2, <2>4, Found
  <2> QED
    BY <1>0, <2>2, <2>5, InvEnd
<1> QED
  BY <1>3, <1>4

(* What an outbound check notes of the storeman's lock is all that memory  *)
(* has and the file has not.                                               *)
LEMMA InvCrossOnline ==
  ASSUME IInv, NEW c \in Checks, CrossOnline(c)
  PROVE  IInv'
<1>0. /\ TypeOK /\ ChainInv /\ RecordInv /\ CheckInv /\ OfferInv /\ CountInv
      /\ rec \in Record /\ file \in Record /\ ~ At(c, "idle") /\ CheckStep(c)
  BY DEF IInv, TypeOK, CrossOnline, At, CheckStep
<1>1. /\ check[c].pc = "cross" /\ check[c].tx # NoTx /\ dst.state # "none"
      /\ rec.status # "absent"
  BY <1>0, Found DEF CrossOnline, At
<1>2. CASE End(c) /\ UNCHANGED <<rec, file>>
  BY <1>0, <1>2, InvEndUnsaid
<1>3. CASE /\ End(c) /\ Save([rec EXCEPT !.status = "RedeemSending"])
           /\ dst.equal /\ inbound
  <2>1. WalletAsks => GoodOffer(rec)
    BY <1>0, <1>1, <1>3, Found DEF OfferOK, GoodOffer, CanBuildRedeem
  <2>2. Fits("RedeemSending")
    BY <2>1 DEF Fits
  <2> QED
    BY <1>0, <1>3, <2>2, Written, InvEnd
<1>4. CASE /\ Goto(c, "crossConfirm") /\ UNCHANGED file /\ dst.equal
           /\ rec' = [rec EXCEPT !.storemanKnown = ~ inbound \/ @]
  <2>1. UNCHANGED <<inbound, phase, src, dst, tx, run, expiries>> /\ TypeOK'
    BY <1>0, CheckFrame, TypeCheck
  <2>2. ChainInv' /\ Grows
    BY <1>0, <2>1, StillGrows DEF chainVars
  <2>3. /\ rec'.status = rec.status /\ rec'.lockTx = rec.lockTx
        /\ rec'.noticeTx = rec.noticeTx /\ rec'.redeemTx = rec.redeemTx
        /\ rec'.revokeTx = rec.revokeTx /\ rec'.lockConfirmed = rec.lockConfirmed
    BY <1>0, <1>4 DEF Record
  <2>4. rec'.storemanKnown <=> (~ inbound \/ rec.storemanKnown)
    BY <1>0, <1>4 DEF Record
  <2>5. Richer
    BY <2>3, <2>4 DEF Richer
  <2>6. check'[c] = [check[c] EXCEPT !.pc = "crossConfirm"] /\ handling' = handling
        /\ \A d \in Checks \ {c} : check'[d] = check[d]
    BY <1>0, <1>4 DEF Goto, TypeOK
  <2>7. check'[c].pc = "crossConfirm"
    BY <1>0, <2>6 DEF TypeOK
  <2>8. RecordInv'
    BY <1>0, <1>1, <2>1, <2>3 DEF RecordInv
  <2>9. WalletAsks => GoodOffer(rec)'
    BY <1>0, <1>1, <1>4, <2>1, <2>3, <2>4, Found DEF OfferOK, GoodOffer, CanBuildRedeem
  <2>10. CheckInv' /\ (WalletAsks => \A d \in Checks : OfferOK(check[d])')
    <3>1. CheckOK(check[c])' /\ (WalletAsks => OfferOK(check[c])')
      BY <1>1, <2>3, <2>7, <2>9 DEF CheckOK, OfferOK
    <3> QED
      BY <1>0, <1>1, <2>1, <2>2, <2>3, <2>5, <2>6, <3>1, OthersStay
  <2>11. OfferInv'
    <3>1. GoodOffer(file) => GoodOffer(file)'
      BY <1>4, <2>1 DEF GoodOffer, CanBuildRedeem
    <3> QED
      BY <1>0, <2>1, <2>3, <2>9, <2>10, <3>1 DEF OfferInv
  <2>12. CountInv'
    <3>1. \A d \in Checks : /\ check'[d].pc = "idle" <=> check[d].pc = "idle"
                            /\ d = c \/ check'[d] = check[d]
      BY <1>1, <2>6, <2>7
    <3>2. OneCheckAtATime => OneCheckAtATime'
      BY <2>1, <2>6, <3>1 DEF OneCheckAtATime, At
    <3>3. \A d \in Checks : check'[d].pc = "lockConfirm" => check'[d] = check[d]
      BY <2>7, <3>1
    <3> QED
      BY <1>0, <2>1, <2>3, <3>2, <3>3 DEF CountInv, At
  <2>13. RestartLosesOnlyStoremanLock'
    <3>1. CASE inbound
      BY <1>0, <1>4, <3>1 DEF IInv, RestartLosesOnlyStoremanLock, Record
    <3>2. CASE ~ inbound
      BY <1>0, <1>4, <3>2 DEF IInv, RestartLosesOnlyStoremanLock, Record
    <3> QED
      BY <3>1, <3>2
  <2> QED
    BY <2>1, <2>2, <2>8, <2>10, <2>11, <2>12, <2>13 DEF IInv
<1> QED
  BY <1>2, <1>3, <1>4 DEF CrossOnline

LEMMA InvCrossConfirm ==
  ASSUME IInv, NEW c \in Checks, CrossConfirm(c)
  PROVE  IInv'
<1>0. rec \in Record /\ ~ At(c, "idle") /\ CheckStep(c)
  BY DEF IInv, TypeOK, CrossConfirm, At, CheckStep
<1>1. Fits("BuddyLocked")
  BY <1>0, Found DEF CrossConfirm, At, OfferOK, Fits
<1> QED
  BY <1>0, <1>1, Written, InvEnd DEF CrossConfirm

LEMMA InvRedeemChecks ==
  ASSUME IInv, NEW c \in Checks, RedeemOnline(c) \/ RedeemConfirm(c)
  PROVE  IInv'
<1>0. /\ rec \in Record /\ ChainInv /\ ~ At(c, "idle") /\ CheckStep(c) /\ End(c)
      /\ check[c].pc \in {"redeemOnline", "redeemConfirm"}
  BY DEF IInv, TypeOK, RedeemOnline, RedeemConfirm, At, CheckStep
<1>1. check[c].tx \in RedeemCalls \cup {NoTx} /\ (WalletAsks => GoodOffer(rec))
  BY <1>0, Found DEF CheckOK, OfferOK
<1>2. Sought(c) \in Mined => dst.state = "redeemed"
  BY <1>0, <1>1 DEF ChainInv, Sought, Mined
<1>3. CASE RedeemOnline(c)
  <2>1. Fits("RedeemSendFail") /\ (Sought(c) \in Mined => Fits("RedeemSent"))
    BY <1>1, <1>2 DEF Fits
  <2> QED
    BY <1>0, <1>3, <2>1, Written, InvEnd DEF RedeemOnline
<1>4. CASE RedeemConfirm(c)
  <2>1. dst.state = "redeemed"
    BY <1>0, <1>4, Found DEF CheckOK, RedeemConfirm, At
  <2>2. Fits("Redeemed") /\ Fits(rec.status)
    BY <1>0, <2>1, Found DEF Fits
  <2>3. SameFields /\ file' = rec' /\ rec'.status \in {rec.status, "Redeemed"}
    BY <1>0, <1>4, Written, CountedWritten DEF RedeemConfirm
  <2> QED
    BY <1>0, <2>2, <2>3, InvEnd
<1> QED
  BY <1>3, <1>4

LEMMA InvRevokeChecks ==
  ASSUME IInv, NEW c \in Checks, RevokeOnline(c) \/ RevokeConfirm(c)
  PROVE  IInv'
<1>0. /\ rec \in Record /\ ChainInv /\ ~ At(c, "idle") /\ CheckStep(c) /\ End(c)
      /\ check[c].pc \in {"revokeOnline", "revokeConfirm"}
  BY DEF IInv, TypeOK, RevokeOnline, RevokeConfirm, At, CheckStep
<1>1. check[c].tx \in RevokeCalls \cup {NoTx}
  BY <1>0, Found DEF CheckOK
<1>2. Sought(c) \in Mined => src = "revoked"
  BY <1>0, <1>1 DEF ChainInv, Sought, Mined
<1>3. CASE RevokeOnline(c)
  <2>1. WalletAsks => src # "none"
    BY <1>0, <1>3, Found DEF OfferOK, RevokeOnline, At
  <2>2. Fits("RevokeSendFail") /\ (Sought(c) \in Mined => Fits("RevokeSent"))
    BY <1>2, <2>1 DEF Fits
  <2> QED
    BY <1>0, <1>3, <2>2, Written, InvEnd DEF RevokeOnline
<1>4. CASE RevokeConfirm(c)
  <2>1. src = "revoked"
    BY <1>0, <1>4, Found DEF CheckOK, RevokeConfirm, At
  <2>2. Fits("Revoked") /\ Fits(rec.status)
    BY <1>0, <2>1, Found DEF Fits
  <2>3. SameFields /\ file' = rec' /\ rec'.status \in {rec.status, "Revoked"}
    BY <1>0, <1>4, Written, CountedWritten DEF RevokeConfirm
  <2> QED
    BY <1>0, <2>2, <2>3, InvEnd
<1> QED
  BY <1>3, <1>4

LEMMA InvCheck ==
  ASSUME IInv, NEW c \in Checks, StartCheck(c) \/ CheckStep(c)
  PROVE  IInv'
<1>1. CASE NotYet(c) \/ CheckRejected(c)
  <2>1. ~ At(c, "idle") /\ CheckStep(c)
    BY <1>1 DEF NotYet, CheckRejected, At, CheckStep
  <2> QED
    BY <1>1, <2>1, InvEndUnsaid DEF NotYet, CheckRejected
<1> QED
  BY <1>1, InvStartCheck, InvLockOnline, InvLockBlock, InvLockConfirm, InvCrossOnline,
     InvCrossConfirm, InvRedeemChecks, InvRevokeChecks DEF CheckStep

-----------------------------------------------------------------------------
(* The remaining steps.                                                    *)

LEMMA InvExpire == IInv /\ Expire => IInv'
<1>1. SUFFICES ASSUME IInv, Expire PROVE IInv'
  OBVIOUS
<1>0. TypeOK /\ ChainInv /\ RecordInv /\ CheckInv /\ OfferInv /\ TypeOK'
  BY <1>1, TypeRest DEF IInv
<1>2. ChainInv' /\ Grows /\ UNCHANGED <<inbound, src, dst, tx, rec, file, run, check>>
  BY <1>0, <1>1, StillGrows DEF Expire, chainVars
<1>3. RecordInv'
  BY <1>0, <1>2, RecordStays
<1>4. CheckInv' /\ OfferInv'
  BY <1>0, <1>2, ChecksStay, OffersStay
<1>5. CountInv'
  <2>1. expiries' # 0
    BY <1>0, <1>1, BtcAssumption DEF Expire, TypeOK
  <2> QED
    BY <2>1 DEF CountInv
<1> QED
  BY <1>0, <1>1, <1>2, <1>3, <1>4, <1>5 DEF IInv, RestartLosesOnlyStoremanLock

LEMMA InvOtherWrite == IInv /\ OtherWrite => IInv'
<1>1. SUFFICES ASSUME IInv, OtherWrite PROVE IInv'
  OBVIOUS
<1>0. TypeOK /\ ChainInv /\ RecordInv /\ CheckInv /\ OfferInv /\ CountInv /\ TypeOK'
  BY <1>1, TypeRest DEF IInv
<1>2. /\ ChainInv' /\ Grows /\ file' = rec
      /\ UNCHANGED <<inbound, src, dst, tx, rec, run, check, handling, expiries>>
  BY <1>0, <1>1, StillGrows DEF OtherWrite, chainVars, bounds
<1>3. RecordInv' /\ CheckInv' /\ OfferInv'
  BY <1>0, <1>2, RecordStays, ChecksStay, OffersStay
<1>4. CountInv'
  BY <1>0, <1>2, CountsStay
<1> QED
  BY <1>0, <1>2, <1>3, <1>4 DEF IInv, RestartLosesOnlyStoremanLock

(* The wallet comes back with the record of the file.                      *)
LEMMA InvRestart == IInv /\ Restart => IInv'
<1>1. SUFFICES ASSUME IInv, Restart PROVE IInv'
  OBVIOUS
<1>0. TypeOK /\ ChainInv /\ RecordInv /\ OfferInv /\ CountInv /\ TypeOK'
      /\ rec \in Record /\ file \in Record
  BY <1>1, TypeRest DEF IInv, TypeOK
<1>2. /\ ChainInv' /\ Grows /\ rec' = file /\ file' = file
      /\ UNCHANGED <<inbound, src, dst, tx, expiries>>
  BY <1>0, <1>1, StillGrows DEF Restart, chainVars
<1>3. /\ rec.status = file.status /\ rec.lockTx = file.lockTx
      /\ rec.redeemTx = file.redeemTx /\ rec.revokeTx = file.revokeTx
      /\ rec.status = "absent" => file = rec
  BY <1>0, <1>1 DEF IInv, RestartLosesOnlyStoremanLock, RecordInv, NoRecord, Record
<1>4. \A u \in Calls : /\ run'[u] = "idle" <=> run[u] = "idle"
                       /\ run[u] = "done" => run'[u] = "done"
                       /\ run'[u] # "send"
  BY <1>1 DEF Restart, Active
<1>5. \A c \in Checks : check'[c].pc = "idle"
  BY <1>1 DEF Restart, Idle
<1>6. RecordInv'
  BY <1>0, <1>2, <1>3, <1>4, CallsKinds DEF RecordInv
<1>7. CheckInv'
  BY <1>5 DEF CheckInv, CheckOK
<1>8. OfferInv'
  <2>1. GoodOffer(file) => GoodOffer(rec)' /\ GoodOffer(file)'
    BY <1>2 DEF GoodOffer, CanBuildRedeem
  <2>2. \A c \in Checks : OfferOK(check[c])'
    BY <1>5 DEF OfferOK
  <2> QED
    BY <1>0, <1>2, <1>3, <1>4, <2>1, <2>2, CallsKinds DEF OfferInv
<1>9. CountInv'
  BY <1>0, <1>2, <1>3, <1>5 DEF CountInv, OneCheckAtATime, At
<1> QED
  BY <1>0, <1>2, <1>6, <1>7, <1>8, <1>9 DEF IInv, RestartLosesOnlyStoremanLock

LEMMA InvStutter == IInv /\ UNCHANGED vars => IInv'
<1>1. SUFFICES ASSUME IInv, UNCHANGED vars PROVE IInv'
  OBVIOUS
<1>0. TypeOK /\ ChainInv /\ RecordInv /\ CheckInv /\ OfferInv /\ CountInv /\ TypeOK'
  BY <1>1, TypeNext DEF IInv
<1>2. /\ ChainInv' /\ Grows
      /\ UNCHANGED <<inbound, src, dst, tx, rec, file, run, check, handling, expiries>>
  BY <1>0, <1>1, StillGrows DEF vars, chainVars, bounds
<1>3. RecordInv' /\ CheckInv' /\ OfferInv'
  BY <1>0, <1>2, RecordStays, ChecksStay, OffersStay
<1>4. CountInv'
  BY <1>0, <1>2, CountsStay
<1> QED
  BY <1>0, <1>1, <1>2, <1>3, <1>4 DEF IInv, RestartLosesOnlyStoremanLock

LEMMA NextIInv == IInv /\ [Next]_vars => IInv'
<1>1. ASSUME IInv, NEW u \in Calls, Redeem(u) \/ Revoke(u) \/ RunStep(u) PROVE IInv'
  BY <1>1, InvBegin, InvSendAnswered, InvSendFails, InvTransFailed DEF RunStep
<1>2. ASSUME IInv, NEW c \in Checks, StartCheck(c) \/ CheckStep(c) PROVE IInv'
  BY <1>2, InvCheck
<1> QED
  BY <1>1, <1>2, InvChain, InvLock, InvExpire, InvOtherWrite, InvRestart, InvStutter
     DEF Next

(* The chains, the record, the calls and the checks agree with each other  *)
(* in every state.                                                         *)
THEOREM BtcInductive == Spec => []IInv
BY InitIInv, NextIInv, PTL DEF Spec

-----------------------------------------------------------------------------
(* What the runs check, for every number of calls, checks, faults,         *)
(* expiries and restarts.                                                  *)

LEMMA SafetyFollows ==
  IInv => /\ FailedKeepsNoFunds /\ ConfirmedIsDeep /\ OneCheckAtATime
          /\ OfferCanBeTaken /\ RestartLosesOnlyStoremanLock
<1>1. SUFFICES ASSUME IInv PROVE /\ FailedKeepsNoFunds /\ ConfirmedIsDeep
                                 /\ OneCheckAtATime /\ OfferCanBeTaken
  BY DEF IInv
<1>0. TypeOK /\ ChainInv /\ RecordInv /\ OfferInv /\ CountInv
      /\ RestartLosesOnlyStoremanLock /\ file \in Record
  BY <1>1 DEF IInv, TypeOK
<1>2. FailedKeepsNoFunds /\ ConfirmedIsDeep
  BY <1>0 DEF FailedKeepsNoFunds, ConfirmedIsDeep, ChainInv, RecordInv, CountInv, Mined
<1>3. OneCheckAtATime
  BY <1>0 DEF CountInv, OneCheckAtATime
<1>4. OfferCanBeTaken
  <2>1. rec.status = file.status
    BY <1>0 DEF RestartLosesOnlyStoremanLock, Record
  <2>2. ASSUME WalletAsks, NEW r \in {rec, file}, CanRedeem(r)
        PROVE  dst.state \in {"locked", "redeemed"} /\ dst.equal /\ CanBuildRedeem(r)
    <3>1. GoodOffer(rec) /\ GoodOffer(file)
      BY <1>0, <2>1, <2>2 DEF OfferInv, CanRedeem
    <3>2. dst.state \in {"locked", "redeemed"}
      BY <1>0, <2>2, <3>1 DEF GoodOffer, CanRedeem, ChainInv, TypeOK
    <3> QED
      BY <3>1, <3>2 DEF GoodOffer
  <2>3. ASSUME WalletAsks, CanRevoke(rec) PROVE src # "none"
    BY <1>0, <2>3, RevocableIsLocked
  <2> QED
    BY <2>2, <2>3 DEF OfferCanBeTaken
<1> QED
  BY <1>2, <1>3, <1>4

(* The monitor never gives up a lock that took the funds: sentHashFailed   *)
(* with a stored hash means that the chain refused the lock.               *)
THEOREM FailedLocks == Spec => []FailedKeepsNoFunds
<1>1. IInv => FailedKeepsNoFunds
  BY SafetyFollows
<1> QED
  BY <1>1, BtcInductive, PTL

(* Locked rests on the whole depth of the user's lock as long as no check  *)
(* expires, and BuddyLocked on that of the storeman's lock always.         *)
THEOREM Confirmations == Spec => []ConfirmedIsDeep
<1>1. IInv => ConfirmedIsDeep
  BY SafetyFollows
<1> QED
  BY <1>1, BtcInductive, PTL

(* handlingList keeps the checks of a record apart until one expires.      *)
THEOREM ChecksAlone == Spec => []OneCheckAtATime
<1>1. IInv => OneCheckAtATime
  BY SafetyFollows
<1> QED
  BY <1>1, BtcInductive, PTL

(* A wallet that asks is only offered a REDEEM or a REVOKE that the chains *)
(* and the record allow.                                                   *)
THEOREM BtcOffers == Spec => []OfferCanBeTaken
<1>1. IInv => OfferCanBeTaken
  BY SafetyFollows
<1> QED
  BY <1>1, BtcInductive, PTL

(* A restart loses at most what a check noted of the storeman's lock.      *)
THEOREM BtcRestarts == Spec => []RestartLosesOnlyStoremanLock
<1>1. IInv => RestartLosesOnlyStoremanLock
  BY SafetyFollows
<1> QED
  BY <1>1, BtcInductive, PTL

-----------------------------------------------------------------------------
(* A settled record stays settled.  The record and the checks only have    *)
(* hashes of calls that are done, and without an expiry no check is left   *)
(* when the record is settled.                                             *)

Done(u) == run[u] = "done"

CheckTrace(k) ==
  k.pc \in {"redeemOnline", "redeemConfirm", "revokeOnline", "revokeConfirm"} =>
    k.tx = NoTx \/ Done(k.tx)

TraceInv ==
  /\ rec.redeemTx = NoTx \/ Done(rec.redeemTx)
  /\ rec.revokeTx = NoTx \/ Done(rec.revokeTx)
  /\ Settled(rec) => \E u \in RedeemCalls \cup RevokeCalls : Done(u)
  /\ \A c \in Checks : CheckTrace(check[c])
  /\ expiries = 0 /\ Settled(rec) => \A c \in Checks : At(c, "idle")

LEMMA InitTrace == Init => TraceInv
BY DEF Init, NoRecord, Idle, TraceInv, CheckTrace, Settled

(* Nothing undoes a REDEEM or a REVOKE that is done.                       *)
Steady == \A u \in RedeemCalls \cup RevokeCalls : Done(u) => Done(u)'

LEMMA TraceKept ==
  ASSUME IInv, TraceInv, Steady, UNCHANGED <<expiries, check>>,
         rec'.redeemTx \in {rec.redeemTx, NoTx} \/ run'[rec'.redeemTx] = "done",
         rec'.revokeTx \in {rec.revokeTx, NoTx} \/ run'[rec'.revokeTx] = "done",
         Settled(rec') => rec'.status = rec.status
  PROVE  TraceInv'
<1>1. rec.redeemTx \in RedeemCalls \cup {NoTx} /\ rec.revokeTx \in RevokeCalls \cup {NoTx}
  BY DEF IInv, RecordInv
<1>2. \A c \in Checks : CheckTrace(check[c])'
  BY DEF IInv, CheckInv, CheckOK, TraceInv, CheckTrace, Steady, Done
<1>3. (Settled(rec) => \E u \in RedeemCalls \cup RevokeCalls : Done(u))'
  BY DEF TraceInv, Settled, Steady
<1>4. (rec.redeemTx = NoTx \/ Done(rec.redeemTx))' /\ (rec.revokeTx = NoTx \/ Done(rec.revokeTx))'
  BY <1>1 DEF TraceInv, Steady, Done
<1>5. (expiries = 0 /\ Settled(rec) => \A c \in Checks : At(c, "idle"))'
  BY DEF TraceInv, Settled, At
<1> QED
  BY <1>2, <1>3, <1>4, <1>5 DEF TraceInv

LEMMA TraceRun ==
  ASSUME IInv, TraceInv, NEW u \in Calls, Redeem(u) \/ Revoke(u) \/ RunStep(u)
  PROVE  TraceInv'
<1>0. /\ rec \in Record
      /\ run \in [Calls -> Active \cup {"idle", "done", "dead"}]
  BY DEF IInv, TypeOK
<1>1. UNCHANGED <<check, expiries>>
  BY DEF Redeem, Revoke, RunStep, SendAnswered, SendFails, TransFailed, bounds
<1>2. Steady
  BY <1>0, BtcAssumption
     DEF Redeem, Revoke, RunStep, SendAnswered, SendFails, TransFailed, Started, Steady, Done,
         Calls
<1>3. CASE UNCHANGED rec
  BY <1>1, <1>2, <1>3, TraceKept
<1>4. CASE SendAnswered(u)
  <2>1. run'[u] = "done"
    BY <1>0, <1>4, BtcAssumption DEF SendAnswered
  <2>2. \/ rec' = [rec EXCEPT !.lockTx = u]
        \/ rec' = [rec EXCEPT !.noticeTx = u, !.status = "LockSending"]
        \/ rec' = [rec EXCEPT !.redeemTx = u, !.status = "RedeemSending"]
        \/ rec' = [rec EXCEPT !.revokeTx = u, !.status = "RevokeSending"]
    BY <1>4, BtcAssumption DEF SendAnswered, Save, Calls, LockPostSend, NoticePostSend,
       RedeemPostSend, RevokePostSend
  <2> QED
    BY <1>0, <1>1, <1>2, <2>1, <2>2, TraceKept DEF Record, Settled, Done
<1>5. CASE TransFailed(u)
  <2>1. UNCHANGED rec \/ rec' = [rec EXCEPT !.status = "sentHashFailed"]
    BY <1>5 DEF TransFailed, Save
  <2> QED
    BY <1>0, <1>1, <1>2, <2>1, TraceKept DEF Record, Settled
<1> QED
  BY <1>3, <1>4, <1>5 DEF Redeem, Revoke, RunStep, SendFails

(* What a check makes of the record.                                       *)
LEMMA CheckWrites ==
  ASSUME IInv, NEW c \in Checks, StartCheck(c) \/ CheckStep(c)
  PROVE  /\ rec'.redeemTx = rec.redeemTx /\ rec'.revokeTx = rec.revokeTx
         /\ Settled(rec') =>
              \/ rec'.status = rec.status
              \/ /\ check[c].pc \in {"redeemConfirm", "revokeConfirm"}
                 /\ check[c].tx # NoTx /\ End(c)
<1> USE DEF Save, Record, Settled
<1>0. rec \in Record
  BY DEF IInv, TypeOK
<1>1. CASE StartCheck(c) \/ NotYet(c) \/ CheckRejected(c)
  BY <1>1 DEF StartCheck, NotYet, CheckRejected
<1>2. CASE LockOnline(c) \/ LockBlock(c)
  BY <1>0, <1>2 DEF LockOnline, LockBlock
<1>3. ASSUME NEW s \in Status, NEW f \in {"lockConfirmed", "refundConfirmed", "revokeConfirmed"},
             rec' = Counted(f, s)
      PROVE  /\ rec'.redeemTx = rec.redeemTx /\ rec'.revokeTx = rec.revokeTx
             /\ rec'.status \in {rec.status, s}
  BY <1>0, <1>3 DEF Counted
<1>4. CASE LockConfirm(c)
  <2>1. "Locked" \in Status
    BY DEF Status
  <2> QED
    BY <1>0, <1>3, <1>4, <2>1 DEF LockConfirm
<1>5. CASE CrossOnline(c)
  BY <1>0, <1>5 DEF CrossOnline
<1>6. CASE CrossConfirm(c) \/ RedeemOnline(c) \/ RevokeOnline(c)
  BY <1>0, <1>6 DEF CrossConfirm, RedeemOnline, RevokeOnline
<1>7. CASE RedeemConfirm(c) \/ RevokeConfirm(c)
  <2>1. "Redeemed" \in Status /\ "Revoked" \in Status
    BY DEF Status
  <2>2. check[c].tx # NoTx
    BY <1>7 DEF RedeemConfirm, RevokeConfirm, Waited, Sought, Mined
  <2> QED
    BY <1>0, <1>3, <1>7, <2>1, <2>2 DEF RedeemConfirm, RevokeConfirm, At
<1> QED
  BY <1>1, <1>2, <1>4, <1>5, <1>6, <1>7 DEF CheckStep

LEMMA TraceCheck ==
  ASSUME IInv, TraceInv, NEW c \in Checks, StartCheck(c) \/ CheckStep(c) PROVE TraceInv'
<1>1. UNCHANGED <<run, expiries>> /\ check \in [Checks -> [pc: CheckPc, tx: Hash, wait: Count]]
  BY CheckFrame DEF IInv, TypeOK
<1>2. /\ rec'.redeemTx = rec.redeemTx /\ rec'.revokeTx = rec.revokeTx
      /\ Settled(rec') =>
              \/ rec'.status = rec.status
              \/ /\ check[c].pc \in {"redeemConfirm", "revokeConfirm"}
                 /\ check[c].tx # NoTx /\ End(c)
  BY CheckWrites
<1>3. \/ StartCheck(c)
      \/ End(c)
      \/ \E pc \in {"lockBlock", "crossConfirm"} : Goto(c, pc) /\ ~ At(c, "idle")
  BY DEF CheckStep, LockOnline, LockBlock, LockConfirm, CrossOnline, CrossConfirm,
     RedeemOnline, RedeemConfirm, RevokeOnline, RevokeConfirm, NotYet, CheckRejected, At
<1>4. CheckTrace(check[c])'
  <2>1. CASE StartCheck(c)
    <3>1. CheckTrace(FirstAsk)'
      BY <1>1, <2>1 DEF TraceInv, StartCheck, FirstAsk, Asks, Watched, CheckTrace, Done
    <3>2. check'[c] = FirstAsk
      BY <1>1, <2>1 DEF StartCheck
    <3>3. CheckTrace(FirstAsk)
      BY <2>1 DEF TraceInv, StartCheck, FirstAsk, Asks, Watched, CheckTrace
    <3> QED
      BY <1>1, <3>2, <3>3 DEF CheckTrace, Done
  <2>2. CASE End(c)
    BY <1>1, <2>2 DEF End, Idle, CheckTrace
  <2>3. CASE \E pc \in {"lockBlock", "crossConfirm"} : Goto(c, pc)
    BY <1>1, <2>3 DEF Goto, CheckTrace
  <2> QED
    BY <1>3, <2>1, <2>2, <2>3
<1>5. \A d \in Checks : CheckTrace(check[d])'
  <2>1. \A d \in Checks \ {c} : check'[d] = check[d]
    BY <1>1, <1>3 DEF StartCheck, End, Goto
  <2> QED
    BY <1>1, <1>4, <2>1 DEF TraceInv, CheckTrace, Done
<1>6. (Settled(rec) => \E u \in RedeemCalls \cup RevokeCalls : Done(u))'
  BY <1>1, <1>2 DEF TraceInv, CheckTrace, Settled, Done, IInv, CheckInv, CheckOK
<1>7. (expiries = 0 /\ Settled(rec) => \A d \in Checks : At(d, "idle"))'
  <2>1. SUFFICES ASSUME expiries = 0, Settled(rec')
                 PROVE  \A d \in Checks : At(d, "idle")'
    BY <1>1 DEF Settled
  <2>2. OneCheckAtATime
    BY <2>1 DEF IInv, CountInv
  <2>3. CASE rec'.status = rec.status
    <3>1. Settled(rec) /\ \A d \in Checks : At(d, "idle")
      BY <2>1, <2>3 DEF TraceInv, Settled
    <3>2. ~ StartCheck(c)
      BY <3>1 DEF StartCheck, Watched, Settled
    <3>3. End(c)
      BY <1>3, <3>1, <3>2
    <3> QED
      BY <1>1, <3>1, <3>3 DEF End, Idle, At
  <2>4. CASE /\ check[c].pc \in {"redeemConfirm", "revokeConfirm"}
             /\ check[c].tx # NoTx /\ End(c)
    BY <1>1, <2>1, <2>2, <2>4 DEF OneCheckAtATime, At, End, Idle
  <2> QED
    BY <1>2, <2>1, <2>3, <2>4
<1> QED
  BY <1>1, <1>2, <1>5, <1>6, <1>7 DEF TraceInv, Done

LEMMA TraceNext == IInv /\ TraceInv /\ [Next]_vars => TraceInv'
<1>1. SUFFICES ASSUME IInv, TraceInv, [Next]_vars PROVE TraceInv'
  OBVIOUS
<1>2. CASE (Chain /\ Wallet) \/ OtherWrite \/ UNCHANGED vars
  <2>1. UNCHANGED <<rec, run, check, expiries>>
    BY <1>2 DEF Wallet, OtherWrite, vars, bounds
  <2> QED
    BY <1>1, <2>1, TraceKept DEF Steady, Done, Settled
<1>3. CASE Lock
  <2>1. rec' = [NoRecord EXCEPT !.status = "LockSending"] /\ rec = NoRecord
        /\ UNCHANGED <<check, expiries>>
    BY <1>1, <1>3 DEF Lock, Save, bounds, IInv, RecordInv
  <2>2. Steady
    BY <1>1, <1>3 DEF Lock, Started, Steady, Done, IInv, TypeOK
  <2> QED
    BY <1>1, <2>1, <2>2, TraceKept DEF NoRecord, Settled
<1>4. CASE Expire
  <2>1. UNCHANGED <<rec, run, check>> /\ expiries' # 0
    BY <1>1, <1>4, BtcAssumption DEF Expire, IInv, TypeOK
  <2> QED
    BY <1>1, <2>1 DEF TraceInv, CheckTrace, Done, Settled
<1>5. CASE Restart
  <2>1. rec'.status = rec.status /\ rec'.redeemTx = rec.redeemTx /\ rec'.revokeTx = rec.revokeTx
    BY <1>1, <1>5 DEF Restart, IInv, RestartLosesOnlyStoremanLock, TypeOK, Record
  <2>2. Steady
    BY <1>1, <1>5 DEF Restart, Steady, Done, IInv, TypeOK, Active, Calls
  <2>3. \A c \in Checks : check'[c] = Idle
    BY <1>5 DEF Restart
  <2>4. \A c \in Checks : CheckTrace(check[c])' /\ At(c, "idle")'
    BY <2>3 DEF CheckTrace, Idle, At
  <2> QED
    BY <1>1, <2>1, <2>2, <2>4 DEF TraceInv, Steady, Done, Settled, IInv, RecordInv, Calls
<1> QED
  BY <1>1, <1>2, <1>3, <1>4, <1>5, TraceRun, TraceCheck DEF Next

LEMMA SettledByOne ==
  ASSUME IInv, TraceInv, Settled(rec), OneCall, LockIsOver, expiries = 0, [Next]_vars
  PROVE  rec'.status = rec.status
<1>1. PICK w \in RedeemCalls \cup RevokeCalls : Done(w)
  BY DEF TraceInv
<1>2. \A u \in Calls : ~ RunStep(u)
  <2>1. \A u \in Calls : run[u] \notin Active
    BY <1>1 DEF OneCall, LockIsOver, Done, Active, Calls
  <2> QED
    BY <2>1 DEF RunStep, SendAnswered, SendFails, TransFailed, Active
<1>3. \A c \in Checks : ~ CheckStep(c) /\ ~ StartCheck(c)
  <2>1. \A c \in Checks : At(c, "idle")
    BY DEF TraceInv
  <2> QED
    BY <2>1 DEF At, CheckStep, LockOnline, LockBlock, LockConfirm, CrossOnline, CrossConfirm,
       RedeemOnline, RedeemConfirm, RevokeOnline, RevokeConfirm, NotYet, CheckRejected,
       StartCheck, Watched, Settled
<1>4. CASE (Chain /\ Wallet) \/ Expire \/ OtherWrite \/ UNCHANGED vars
  BY <1>4 DEF Wallet, Expire, OtherWrite, vars
<1>5. CASE \E u \in Calls : Redeem(u) \/ Revoke(u)
  BY <1>5 DEF Redeem, Revoke
<1>6. ~ Lock
  BY DEF Lock, Settled
<1>7. CASE Restart
  BY <1>7 DEF Restart, IInv, RestartLosesOnlyStoremanLock, TypeOK, Record
<1> QED
  BY <1>2, <1>3, <1>4, <1>5, <1>6, <1>7 DEF Next

(* As long as no check expires, what says Redeemed or Revoked says so for  *)
(* ever, over lost answers and restarts, unless the user calls REDEEM or   *)
(* REVOKE again or a LOCK is still being sent.                             *)
THEOREM BtcSettledForGood == Spec => SettledStays
<1>1. Init => IInv /\ TraceInv
  BY InitIInv, InitTrace
<1>2. IInv /\ TraceInv /\ [Next]_vars => (IInv /\ TraceInv)'
  BY NextIInv, TraceNext
<1>3. IInv /\ TraceInv /\ [Next]_vars =>
        [Settled(rec) /\ OneCall /\ LockIsOver /\ expiries = 0
           => rec'.status = rec.status]_vars
  BY SettledByOne
<1> QED
  BY <1>1, <1>2, <1>3, PTL DEF Spec, SettledStays

-----------------------------------------------------------------------------
(* BtcTx implements HtlcReport.                                            *)

LEMMA ToldIsFact == IInv => Told \in ChainFacts \cup {"nothing"}
<1>1. SUFFICES ASSUME IInv PROVE Told \in ChainFacts \cup {"nothing"}
  OBVIOUS
<1>2. ChainInv /\ RecordInv
  BY <1>1 DEF IInv
<1> QED
  BY <1>2 DEF ChainInv, RecordInv, Told, ChainFacts

LEMMA FactsUnchanged ==
  src' = src /\ dst'.state = dst.state => ChainFacts' = ChainFacts
BY DEF ChainFacts

(* A step of the chains adds one fact, in the order the swap allows.       *)
LEMMA FactHappens ==
  ASSUME TypeOK, ChainInv, Chain, UNCHANGED Told
  PROVE  Report!Happen \/ UNCHANGED <<ChainFacts, Told>>
<1> DEFINE Adds(f) == /\ f \in Report!Facts \ ChainFacts
                      /\ Report!May(f) /\ ChainFacts' = ChainFacts \cup {f}
<1>0. ChainTypeOK
  BY TypeParts
<1>1. ASSUME NEW f, Adds(f) PROVE Report!Happen
  BY <1>1 DEF Report!Happen
<1>2. CASE Tick
  BY <1>2, FactsUnchanged DEF Tick
<1>3. ASSUME NEW u \in Calls, MineFailed(u) \/ Deepen(u)
      PROVE  UNCHANGED <<ChainFacts, Told>>
  BY <1>3, FactsUnchanged DEF MineFailed, Deepen
<1>4. ASSUME NEW u \in Calls, Mine(u)
      PROVE  Report!Happen \/ UNCHANGED <<ChainFacts, Told>>
  <2>1. CASE u = LockCall
    <3>1. src = "none" /\ src' = "locked" /\ dst' = dst
      BY <1>4, <2>1, CallsKinds DEF ChainInv, Mine, Mined
    <3>2. Adds("locked")
      BY <3>1 DEF ChainFacts, Report!Facts, Report!May
    <3> QED
      BY <3>2, <1>1
  <2>2. CASE u = NoticeCall
    BY <1>4, <2>2, CallsKinds, FactsUnchanged DEF Mine
  <2>3. CASE u \in RedeemCalls
    <3>1. dst.state = "locked" /\ dst'.state = "redeemed" /\ src' = src
      BY <1>0, <1>4, <2>3, CallsKinds DEF Mine, ChainTypeOK
    <3>2. Adds("redeemed")
      BY <3>1 DEF ChainFacts, Report!Facts, Report!May
    <3> QED
      BY <3>2, <1>1
  <2>4. CASE u \in RevokeCalls
    <3>1. src = "locked" /\ src' = "revoked" /\ dst' = dst
      BY <1>4, <2>4, CallsKinds DEF Mine
    <3>2. Adds("revoked")
      BY <3>1 DEF ChainFacts, Report!Facts, Report!May
    <3> QED
      BY <3>2, <1>1
  <2> QED
    BY <2>1, <2>2, <2>3, <2>4 DEF Calls
<1>5. ASSUME NEW equal \in BOOLEAN, StoremanLock(equal) PROVE Report!Happen
  <2>1. Adds("answered")
    BY <1>5 DEF StoremanLock, ChainFacts, Report!Facts, Report!May
  <2> QED
    BY <2>1, <1>1
<1>6. CASE StoremanDeepens
  BY <1>0, <1>6, FactsUnchanged DEF StoremanDeepens, ChainTypeOK
<1>7. CASE StoremanClaim
  <2>1. Adds("claimed")
    BY <1>7 DEF StoremanClaim, ChainFacts, Report!Facts, Report!May
  <2> QED
    BY <2>1, <1>1
<1>8. CASE StoremanRevoke
  <2>1. dst.state = "locked" /\ dst'.state = "revoked" /\ src' = src
    BY <1>0, <1>8 DEF StoremanRevoke, ChainTypeOK
  <2>2. ChainFacts' = ChainFacts
    BY <2>1 DEF ChainFacts
  <2> QED
    BY <2>2
<1> QED
  BY <1>2, <1>3, <1>4, <1>5, <1>6, <1>7, <1>8 DEF Chain

(* Whatever the calls, the checks, errors and restarts do, the record only *)
(* tells what has happened on the chains.                                  *)
THEOREM BtcTellsTheTruth == Spec => TellsWhatHappened
<1>1. Init => Report!Init
  BY DEF Init, NoRecord, ChainFacts, Told, Report!Init
<1>2. IInv /\ IInv' /\ [Next]_vars => [Report!Next]_<<ChainFacts, Told>>
  <2>1. SUFFICES ASSUME IInv, IInv', [Next]_vars
                 PROVE  [Report!Next]_<<ChainFacts, Told>>
    OBVIOUS
  <2>2. CASE Chain /\ Wallet
    <3>1. UNCHANGED Told
      BY <2>2 DEF Wallet, Told
    <3> QED
      BY <2>1, <2>2, <3>1, FactHappens DEF IInv, Report!Next
  <2>3. CASE UNCHANGED <<src, dst>>
    <3>1. ChainFacts' = ChainFacts
      BY <2>3, FactsUnchanged
    <3>2. (Told \in ChainFacts \cup {"nothing"})'
      BY <2>1, ToldIsFact, PTL
    <3>3. Report!Tell
      BY <3>1, <3>2 DEF Report!Tell
    <3> QED
      BY <3>3 DEF Report!Next
  <2>4. ASSUME NEW u \in Calls, Redeem(u) \/ Revoke(u) \/ RunStep(u)
        PROVE  UNCHANGED <<src, dst>>
    BY <2>4 DEF Redeem, Revoke, RunStep, SendAnswered, SendFails, TransFailed, chainVars
  <2>5. ASSUME NEW c \in Checks, StartCheck(c) \/ CheckStep(c)
        PROVE  UNCHANGED <<src, dst>>
    BY <2>1, <2>5, CheckFrame DEF IInv
  <2>6. Lock \/ Expire \/ OtherWrite \/ Restart \/ UNCHANGED vars
          => UNCHANGED <<src, dst>>
    BY DEF Lock, Expire, OtherWrite, Restart, vars, chainVars
  <2> QED
    BY <2>1, <2>2, <2>3, <2>4, <2>5, <2>6 DEF Next
<1> QED
  BY <1>1, <1>2, BtcInductive, PTL DEF Spec, TellsWhatHappened, Report!Spec
=============================================================================
