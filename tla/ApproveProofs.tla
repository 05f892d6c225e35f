--------------------------- MODULE ApproveProofs ---------------------------
(***************************************************************************)
(* Proofs about ApproveLock, for any number of calls of an account: type   *)
(* correctness; that no transaction of a call that had the account alone   *)
(* is refused by the chain; that a lock takes what was asked for; and that *)
(* an error leaves no record that is being sent.                           *)
(***************************************************************************)
EXTENDS ApproveLock, WellFoundedInduction, TLAPS

-----------------------------------------------------------------------------
(* The nonces.                                                             *)

LEMMA MinIsFirst ==
  ASSUME NEW S \in SUBSET Nat, S # {}
  PROVE Min(S) \in S /\ \A y \in S : Min(S) <= y
<1> DEFINE R == OpToRel(<, Nat)
<1>1. IsWellFoundedOn(R, Nat)
  BY NatLessThanWellFounded
<1>2. \A x, y \in Nat : <<x, y>> \in R <=> x < y
  BY DEF OpToRel
<1> HIDE DEF R
<1>3. PICK x \in S : \A y \in S : ~ (<<y, x>> \in R)
  BY <1>1, WFMin
<1>4. ASSUME NEW y \in S PROVE x <= y
  <2>1. x \in Nat /\ y \in Nat /\ ~ (<<y, x>> \in R)
    BY <1>3
  <2>2. ~ (y < x)
    BY <1>2, <2>1
  <2> QED
    BY <2>1, <2>2
<1> QED
  BY <1>4 DEF Min

LEMMA NextNonceFacts ==
  ASSUME slot \in Seq(TxTypes)
  PROVE /\ NextNonce \in 1 .. Len(slot) + 1
        /\ \A i \in 1 .. Len(slot) : slot[i].state = "hole" => NextNonce <= i
        /\ Holes # {} =>
             NextNonce \in 1 .. Len(slot) /\ slot[NextNonce].state = "hole"
        /\ Holes = {} => NextNonce = Len(slot) + 1
<1>1. DOMAIN slot = 1 .. Len(slot) /\ Len(slot) \in Nat
  OBVIOUS
<1>2. Holes \in SUBSET Nat
  BY <1>1 DEF Holes
<1>3. CASE Holes = {}
  BY <1>1, <1>3 DEF NextNonce, Holes
<1>4. CASE Holes # {}
  <2>1. NextNonce \in Holes /\ \A i \in Holes : NextNonce <= i
    BY <1>2, <1>4, MinIsFirst DEF NextNonce
  <2> QED
    BY <1>1, <1>4, <2>1 DEF Holes
<1> QED
  BY <1>3, <1>4

LEMMA SlotTyped ==
  ASSUME slot \in Seq(TxTypes), NEW i \in 1 .. Len(slot)
  PROVE /\ slot[i] \in TxTypes /\ slot[i].call \in Calls /\ slot[i].step \in Steps
        /\ slot[i].value \in Nat
        /\ slot[i].state \in {"taken", "hole", "sent", "ok", "reverted"}
<1>1. slot[i] \in TxTypes
  OBVIOUS
<1> QED
  BY <1>1 DEF TxTypes

(* A nonce that is taken is a new slot, or a hole that is filled.          *)
LEMMA TakeFacts ==
  ASSUME slot \in Seq(TxTypes), NEW t \in TxTypes, Take(t)
  PROVE /\ slot' \in Seq(TxTypes)
        /\ Len(slot) <= Len(slot')
        /\ NextNonce \in 1 .. Len(slot') /\ slot'[NextNonce] = t
        /\ \A i \in 1 .. Len(slot') :
             i # NextNonce => i \in 1 .. Len(slot) /\ slot'[i] = slot[i]
        /\ \A i \in 1 .. Len(slot) :
             i # NextNonce => i \in 1 .. Len(slot') /\ slot'[i] = slot[i]
<1>1. CASE Holes = {}
  <2>1. slot' = Append(slot, t) /\ NextNonce = Len(slot) + 1
    BY <1>1 DEF Take, NextNonce
  <2> QED
    BY <2>1
<1>2. CASE Holes # {}
  <2>1. slot' = [slot EXCEPT ![NextNonce] = t] /\ NextNonce \in 1 .. Len(slot)
    BY <1>2, NextNonceFacts DEF Take
  <2> QED
    BY <2>1
<1> QED
  BY <1>1, <1>2

(* A slot whose state changes.                                             *)
LEMMA StateFacts ==
  ASSUME slot \in Seq(TxTypes), NEW n \in 1 .. Len(slot),
         NEW s \in {"taken", "hole", "sent", "ok", "reverted"},
         slot' = [slot EXCEPT ![n].state = s]
  PROVE /\ slot' \in Seq(TxTypes) /\ Len(slot') = Len(slot)
        /\ slot'[n] = [slot[n] EXCEPT !.state = s]
        /\ slot'[n].call = slot[n].call /\ slot'[n].step = slot[n].step
        /\ slot'[n].value = slot[n].value /\ slot'[n].state = s
        /\ \A i \in 1 .. Len(slot) : i # n => slot'[i] = slot[i]
<1>1. slot[n] \in TxTypes
  OBVIOUS
<1>2. [slot[n] EXCEPT !.state = s] \in TxTypes
  BY <1>1 DEF TxTypes
<1>3. slot' = [slot EXCEPT ![n] = [slot[n] EXCEPT !.state = s]]
  OBVIOUS
<1>4. slot' \in Seq(TxTypes) /\ Len(slot') = Len(slot)
  BY <1>2, <1>3
<1>5. slot'[n] = [slot[n] EXCEPT !.state = s]
  BY <1>3
<1>6. \A i \in 1 .. Len(slot) : i # n => slot'[i] = slot[i]
  BY <1>3
<1> QED
  BY <1>1, <1>4, <1>5, <1>6 DEF TxTypes

-----------------------------------------------------------------------------
(* The inductive invariant.                                                *)

Sendings == {"ApproveZeroSending", "ApproveSending", "LockSending"}

(* A call holds a nonce from its data to its sending, and the slot of the  *)
(* nonce is as the call is.                                                *)
HeldInv ==
  \A c \in Calls :
    /\ Direct(c) => call[c].step = "lock"
    /\ call[c].pc \in {"signed", "sending"} => Direct(c) \/ call[c].nonce # 0
    /\ call[c].nonce # 0 =>
         /\ ~ Direct(c) /\ call[c].pc \in {"signed", "sending"}
         /\ call[c].nonce \in 1 .. Len(slot)
         /\ slot[call[c].nonce] = [call |-> c, step |-> call[c].step,
                                   value |-> call[c].input, state |-> "taken"]

SlotInv ==
  \A i \in 1 .. Len(slot) :
    /\ slot[i].state = "taken" => call[slot[i].call].nonce = i
    /\ slot[i].state \in {"ok", "reverted"} <=> i <= mined
    /\ slot[i].step = "zero" => slot[i].value = 0

(* The amount is put back after approve(0), and stored by the approval.    *)
AskedInv ==
  \A c \in Calls :
    /\ c \notin zeroed =>
         /\ call[c].amount = Amount[c]
         /\ call[c].input = Amount[c] \/ (Busy(c) /\ call[c].step = "zero")
    /\ Busy(c) =>
         call[c].input = IF call[c].step = "zero" THEN 0 ELSE call[c].amount
    /\ Busy(c) /\ ~ Direct(c) /\ call[c].step = "lock" =>
         call[c].own /\ rec[c].value = call[c].input
    /\ At(c, "sending") /\ call[c].step = "approve" =>
         rec[c].value = call[c].input

LockInv ==
  \A i \in 1 .. Len(slot) :
    slot[i].step = "lock" /\ slot[i].state \in {"sent", "ok", "reverted"} =>
      /\ At(slot[i].call, "ok")
      /\ slot[i].value = rec[slot[i].call].value
      /\ slot[i].value = Amount[slot[i].call] \/ slot[i].call \in zeroed

StatusInv ==
  \A c \in Calls :
    /\ (call[c].own \/ At(c, "signed")) /\ ~ At(c, "sending") =>
         rec[c].status \notin Sendings
    /\ rec[c].status = "ApproveZeroSent" => rec[c].zeroTx \in 1 .. Len(slot)
    /\ rec[c].status = "ApproveSent" => rec[c].approveTx \in 1 .. Len(slot)

(* While a call runs undisturbed, no other call does.                      *)
AloneInv ==
  \A c, d \in Calls : Busy(c) /\ Busy(d) /\ c \notin disturbed => c = d

(* What is mined next of an undisturbed call will be fine, and what is     *)
(* behind it follows its step before.                                      *)
Follows(i) ==
  IF i = mined + 1
  THEN /\ slot[i].step = "approve" => allowance = 0
       /\ slot[i].step = "lock" => allowance = slot[i].value
  ELSE /\ slot[i - 1].call = slot[i].call /\ slot[i - 1].state = "sent"
       /\ \/ slot[i].step = "approve" /\ slot[i - 1].step = "zero"
          \/ /\ slot[i].step = "lock" /\ slot[i - 1].step = "approve"
             /\ slot[i].value = slot[i - 1].value

QueueInv ==
  \A i \in 1 .. Len(slot) :
    slot[i].state \in {"sent", "taken"} /\ slot[i].call \notin disturbed =>
      Follows(i)

(* The slots of an undisturbed call that runs: what it sent ends at k, its *)
(* next nonce is k + 1, and everything from there on is a hole.            *)
Queue(c, k) ==
  /\ \A i \in 1 .. Len(slot) :
       mined < i /\ i <= k => slot[i].call = c /\ slot[i].state = "sent"
  /\ \A i \in 1 .. Len(slot) :
       k < i => slot[i].state = "hole" \/ i = call[c].nonce
  /\ call[c].nonce \in {0, k + 1}

(* The next transaction of the call follows, too.                          *)
Ready(c, k) ==
  /\ call[c].step = "zero" => k = mined
  /\ call[c].step = "approve" =>
       IF k = mined THEN allowance = 0 ELSE slot[k].step = "zero"
  /\ call[c].step = "lock" =>
       IF k = mined THEN allowance = call[c].input
       ELSE slot[k].step = "approve" /\ slot[k].value = call[c].input

NextInv ==
  \A c \in Calls : Busy(c) /\ ~ Direct(c) /\ c \notin disturbed =>
    \E k \in mined .. Len(slot) :
      Queue(c, k) /\ (call[c].nonce = 0 => Ready(c, k))

IInv == /\ TypeOK /\ HeldInv /\ SlotInv
        /\ AskedInv /\ LockInv /\ StatusInv
        /\ AloneInv /\ QueueInv /\ NextInv /\ LoneLockIsCovered

LEMMA InitInv == Init => IInv
<1>1. SUFFICES ASSUME Init PROVE IInv
  OBVIOUS
<1>2. slot = <<>> /\ Len(slot) = 0 /\ 1 .. Len(slot) = {} /\ DOMAIN slot = {}
  BY <1>1 DEF Init
<1>3. \A c \in Calls :
        call[c] = [pc |-> "idle", step |-> "lock", input |-> Amount[c],
                   amount |-> Amount[c], own |-> FALSE, nonce |-> 0,
                   left |-> Invokes[c]]
  BY <1>1 DEF Init
<1>12. ASSUME NEW c \in Calls
       PROVE /\ call[c].pc = "idle" /\ call[c].step = "lock"
             /\ call[c].input = Amount[c] /\ call[c].amount = Amount[c]
             /\ call[c].nonce = 0 /\ ~ Busy(c)
  <2>1. /\ call[c].pc = "idle" /\ call[c].step = "lock"
        /\ call[c].input = Amount[c] /\ call[c].amount = Amount[c]
        /\ call[c].nonce = 0
    BY <1>1 DEF Init
  <2> QED
    BY <2>1 DEF Busy
<1>4. \A c \in Calls : rec[c] = NoRecord
  BY <1>1 DEF Init
<1>5. TypeOK
  <2>1. call \in [Calls -> CallTypes]
    BY <1>1, ApproveAssumption DEF Init, CallTypes, Pcs, Steps
  <2>2. rec \in [Calls -> RecordTypes]
    BY <1>1 DEF Init, RecordTypes, NoRecord, Statuses
  <2>3. slot \in Seq(TxTypes)
    BY <1>2
  <2> QED
    BY <1>1, <1>2, <1>3, <2>1, <2>2, <2>3, ApproveAssumption DEF Init, TypeOK
<1>6. HeldInv /\ SlotInv
  <2>1. HeldInv
    BY <1>12 DEF HeldInv
  <2>2. SlotInv
    BY <1>2 DEF SlotInv
  <2> QED
    BY <2>1, <2>2
<1>7. AskedInv
  BY <1>12 DEF AskedInv, At
<1>8. LockInv /\ QueueInv
  BY <1>2 DEF LockInv, QueueInv
<1>9. StatusInv
  BY <1>12, <1>4 DEF StatusInv, NoRecord, Sendings, At
<1>10. AloneInv /\ NextInv
  BY <1>12 DEF AloneInv, NextInv
<1>11. LoneLockIsCovered
  BY <1>2 DEF LoneLockIsCovered
<1> QED
  BY <1>5, <1>6, <1>7, <1>8, <1>9, <1>10, <1>11 DEF IInv

-----------------------------------------------------------------------------
(* The steps of the monitor: no call, slot or allowance changes, and a     *)
(* status only becomes one of a confirmed approval.                        *)

LEMMA MonitorWrites ==
  ASSUME TypeOK, StatusInv, NEW c \in Calls, MonitorStep(c)
  PROVE /\ UNCHANGED <<call, slot, mined, allowance, disturbed, zeroed, troubles>>
        /\ rec' \in [Calls -> RecordTypes]
        /\ checks' \in [Calls -> SUBSET ({"zero", "approve"} \X (1 .. Len(slot)))]
        /\ \A d \in Calls :
             /\ rec'[d].value = rec[d].value
             /\ \/ rec'[d] = rec[d]
                \/ rec'[d].status \in {"ApprovedZero", "Approved"}
<1> USE DEF chainVars, historyVars
<1>1. /\ rec \in [Calls -> RecordTypes]
      /\ checks \in [Calls -> SUBSET ({"zero", "approve"} \X (1 .. Len(slot)))]
  BY DEF TypeOK
<1>2. CASE StartCheck(c)
  <2>1. UNCHANGED <<call, rec, slot, mined, allowance, disturbed, zeroed, troubles>>
    BY <1>2 DEF StartCheck
  <2>2. PICK k \in {"zero", "approve"} \X (1 .. Len(slot)) :
          checks' = [checks EXCEPT ![c] = @ \cup {k}]
    BY <1>2 DEF StartCheck, StatusInv
  <2> QED
    BY <1>1, <2>1, <2>2
<1>3. ASSUME NEW k \in checks[c], Confirmed(c, k) \/ Unconfirmed(c, k)
      PROVE /\ UNCHANGED <<call, slot, mined, allowance, disturbed, zeroed, troubles>>
            /\ checks' = [checks EXCEPT ![c] = @ \ {k}]
            /\ \/ UNCHANGED rec
               \/ \E s \in {"ApprovedZero", "Approved"} :
                    rec' = [rec EXCEPT ![c].status = s]
  BY <1>3 DEF Confirmed, Unconfirmed, Done
<1>4. ASSUME NEW s \in {"ApprovedZero", "Approved"},
             rec' = [rec EXCEPT ![c].status = s]
      PROVE /\ rec' \in [Calls -> RecordTypes]
            /\ \A d \in Calls :
                 /\ rec'[d].value = rec[d].value
                 /\ rec'[d] = rec[d] \/ rec'[d].status = s
  BY <1>1, <1>4 DEF RecordTypes, Statuses
<1>5. ASSUME NEW k \in checks[c], checks' = [checks EXCEPT ![c] = @ \ {k}]
      PROVE checks' \in [Calls -> SUBSET ({"zero", "approve"} \X (1 .. Len(slot)))]
  BY <1>1, <1>5
<1> QED
  BY <1>1, <1>2, <1>3, <1>4, <1>5 DEF MonitorStep

LEMMA InvMonitor ==
  ASSUME IInv, NEW c \in Calls, MonitorStep(c) PROVE IInv'
<1> USE DEF IInv
<1>1. UNCHANGED <<call, slot, mined, allowance, disturbed, zeroed, troubles>>
  BY MonitorWrites
<1>2. \A d \in Calls :
        /\ rec'[d].value = rec[d].value
        /\ rec'[d] = rec[d] \/ rec'[d].status \in {"ApprovedZero", "Approved"}
  BY MonitorWrites
<1>3. TypeOK'
  BY <1>1, MonitorWrites DEF TypeOK
<1>4. HeldInv' /\ SlotInv'
  BY <1>1 DEF HeldInv, SlotInv, Direct
<1>5. AskedInv'
  BY <1>1, <1>2 DEF AskedInv, Busy, At, Direct
<1>6. LockInv'
  <2>1. \A i \in 1 .. Len(slot) : slot[i].call \in Calls
    BY SlotTyped DEF TypeOK
  <2> QED
    BY <1>1, <1>2, <2>1 DEF LockInv, At
<1>7. StatusInv'
  BY <1>1, <1>2 DEF StatusInv, Sendings, At
<1>8. AloneInv' /\ LoneLockIsCovered'
  BY <1>1 DEF AloneInv, Busy, LoneLockIsCovered
<1>9. QueueInv'
  BY <1>1 DEF QueueInv, Follows
<1>10. NextInv'
  BY <1>1 DEF NextInv, Queue, Ready, Busy, Direct
<1> QED
  BY <1>3, <1>4, <1>5, <1>6, <1>7, <1>8, <1>9, <1>10

-----------------------------------------------------------------------------
(* What the steps of a call write, field by field.                         *)

LEMMA CallTyped ==
  ASSUME call \in [Calls -> CallTypes], NEW c \in Calls
  PROVE /\ call[c].pc \in Pcs /\ call[c].step \in Steps
        /\ call[c].input \in Nat /\ call[c].amount \in Nat
        /\ call[c].own \in BOOLEAN /\ call[c].nonce \in Nat /\ call[c].left \in Nat
<1>1. call[c] \in CallTypes
  OBVIOUS
<1> QED
  BY <1>1 DEF CallTypes

(* The fields of a call after a step that changes this call only.          *)
LEMMA ReadWrites ==
  ASSUME TypeOK, NEW c \in Calls, ReadAllowance(c)
  PROVE /\ UNCHANGED <<checks, slot, mined, allowance, zeroed, troubles>>
        /\ call' \in [Calls -> CallTypes] /\ rec' \in [Calls -> RecordTypes]
        /\ \A d \in Calls : d # c => call'[d] = call[d] /\ rec'[d] = rec[d]
        /\ call[c].pc \in {"idle", "error"}
        /\ call'[c].pc = "start" /\ call'[c].nonce = 0
        /\ call'[c].amount = call[c].input
        /\ call'[c].step = IF Direct(c) THEN "lock" ELSE ApproveFirst(c)
        /\ call'[c].input = IF call'[c].step = "zero" THEN 0 ELSE call[c].input
        /\ rec'[c] = IF Direct(c) THEN NoRecord ELSE rec[c]
        /\ (call'[c].own => call[c].own \/ Direct(c))
<1> USE DEF TypeOK, chainVars
<1>1. UNCHANGED <<checks, slot, mined, allowance, zeroed, troubles>>
      /\ call[c].pc \in {"idle", "error"} /\ call[c].left > 0
  BY DEF ReadAllowance
<1>2. rec' = IF Direct(c) THEN [rec EXCEPT ![c] = NoRecord] ELSE rec
  BY DEF ReadAllowance
<1>3. /\ rec' \in [Calls -> RecordTypes]
      /\ \A d \in Calls : d # c => rec'[d] = rec[d]
      /\ rec'[c] = IF Direct(c) THEN NoRecord ELSE rec[c]
  BY <1>2 DEF RecordTypes, NoRecord, Statuses
<1> DEFINE step == IF Direct(c) THEN "lock" ELSE ApproveFirst(c)
           left == call[c].left - 1
           input == IF step = "zero" THEN 0 ELSE call[c].input
           own == call[c].own \/ Direct(c)
           new == [call[c] EXCEPT
                     !.pc = "start", !.step = step, !.left = left,
                     !.amount = call[c].input, !.nonce = 0,
                     !.input = input, !.own = own]
<1>4. call' = [call EXCEPT ![c] = new]
  BY DEF ReadAllowance
<1>5. step \in Steps
  BY DEF ApproveFirst, Steps
<1>6. /\ new.pc = "start" /\ new.nonce = 0
      /\ new.amount = call[c].input /\ new.step = step
      /\ new.input = IF step = "zero" THEN 0 ELSE call[c].input
  BY CallTyped DEF CallTypes
<1>7. new.own => call[c].own \/ Direct(c)
  BY CallTyped DEF CallTypes
<1>8. new \in CallTypes
  <2>1. left \in Nat /\ input \in Nat
    BY <1>1, CallTyped
  <2>2. own \in BOOLEAN
    BY CallTyped DEF Direct
  <2>3. call[c] \in CallTypes
    OBVIOUS
  <2> HIDE DEF step, left, input, own, TypeOK
  <2> QED
    BY <1>5, <2>1, <2>2, <2>3 DEF CallTypes, Pcs
<1> HIDE DEF new
<1>9. call' \in [Calls -> CallTypes] /\ call'[c] = new
      /\ \A d \in Calls : d # c => call'[d] = call[d] /\ rec'[d] = rec[d]
  BY <1>3, <1>4, <1>8
<1>10. call'[c].step = IF Direct(c) THEN "lock" ELSE ApproveFirst(c)
  BY <1>6, <1>9
<1> HIDE DEF step
<1>11. /\ call'[c].pc = "start" /\ call'[c].nonce = 0
       /\ call'[c].amount = call[c].input
       /\ call'[c].input = IF call'[c].step = "zero" THEN 0 ELSE call[c].input
  BY <1>6, <1>9
<1>12. call'[c].own => call[c].own \/ Direct(c)
  BY <1>7, <1>9
<1> HIDE DEF TypeOK, left, input, own
<1> QED
  BY <1>1, <1>3, <1>9, <1>10, <1>11, <1>12

LEMMA DataWrites ==
  ASSUME TypeOK, NEW c \in Calls, CreateData(c)
  PROVE /\ UNCHANGED <<checks, mined, allowance, disturbed, zeroed, troubles>>
        /\ call' \in [Calls -> CallTypes] /\ rec' \in [Calls -> RecordTypes]
        /\ \A d \in Calls : d # c => call'[d] = call[d] /\ rec'[d] = rec[d]
        /\ call[c].pc = "start" /\ call'[c].pc = "signed"
        /\ call'[c].step = call[c].step /\ call'[c].input = call[c].input
        /\ call'[c].amount = call[c].amount /\ call'[c].own = call[c].own
        /\ call'[c].nonce = IF Direct(c) THEN call[c].nonce ELSE NextNonce
        /\ IF Direct(c) THEN slot' = slot
           ELSE Take([call |-> c, step |-> call[c].step,
                      value |-> call[c].input, state |-> "taken"])
        /\ rec'[c] = IF call[c].own THEN rec[c] ELSE NoRecord
<1>1. /\ UNCHANGED <<checks, mined, allowance, disturbed, zeroed, troubles>>
      /\ call[c].pc = "start"
      /\ IF Direct(c) THEN slot' = slot
           ELSE Take([call |-> c, step |-> call[c].step,
                      value |-> call[c].input, state |-> "taken"])
  BY DEF CreateData, At, chainVars, historyVars
<1>2. rec \in [Calls -> RecordTypes] /\ call \in [Calls -> CallTypes]
  BY DEF TypeOK
<1>3. rec' = IF call[c].own THEN rec ELSE [rec EXCEPT ![c] = NoRecord]
  BY DEF CreateData
<1>4. NoRecord \in RecordTypes
  BY DEF RecordTypes, NoRecord, Statuses
<1>5. /\ rec' \in [Calls -> RecordTypes]
      /\ \A d \in Calls : d # c => rec'[d] = rec[d]
      /\ rec'[c] = IF call[c].own THEN rec[c] ELSE NoRecord
  BY <1>2, <1>3, <1>4
<1> DEFINE n == IF Direct(c) THEN call[c].nonce ELSE NextNonce
           new == [call[c] EXCEPT !.pc = "signed", !.nonce = n]
<1>6. n \in Nat
  BY <1>2, CallTyped, NextNonceFacts DEF TypeOK
<1>7. call' = [call EXCEPT ![c] = new]
  <2>1. CASE Direct(c)
    <3>1. call' = [call EXCEPT ![c].pc = "signed"]
      BY <2>1 DEF CreateData
    <3>2. new = [call[c] EXCEPT !.pc = "signed"]
      BY <1>2, <2>1 DEF CallTypes
    <3> QED
      BY <3>1, <3>2
  <2>2. CASE ~ Direct(c)
    BY <2>2 DEF CreateData
  <2> QED
    BY <2>1, <2>2
<1> HIDE DEF n
<1>8. /\ new \in CallTypes /\ new.pc = "signed" /\ new.nonce = n
      /\ new.step = call[c].step /\ new.input = call[c].input
      /\ new.amount = call[c].amount
  BY <1>2, <1>6 DEF CallTypes, Pcs
<1>9. new.own = call[c].own
  BY <1>2 DEF CallTypes
<1> HIDE DEF new
<1>10. /\ call' \in [Calls -> CallTypes] /\ call'[c] = new
       /\ \A d \in Calls : d # c => call'[d] = call[d]
  BY <1>2, <1>7, <1>8
<1> QED
  BY <1>1, <1>5, <1>8, <1>9, <1>10 DEF n

(* PrepareFails and TransFailed alike.                                     *)
LEMMA FailWrites ==
  ASSUME TypeOK, NEW c \in Calls, PrepareFails(c) \/ TransFailed(c)
  PROVE /\ UNCHANGED <<checks, mined, allowance, disturbed>>
        /\ troubles' \in 0 .. MaxTroubles
        /\ call' \in [Calls -> CallTypes]
        /\ \A d \in Calls : d # c => call'[d] = call[d]
        /\ call[c].pc \in {"start", "signed", "sending"}
        /\ call'[c].pc = "error" /\ call'[c].nonce = 0
        /\ call'[c].step = call[c].step /\ call'[c].input = call[c].input
        /\ call'[c].amount = call[c].amount
        /\ AddNonceHole(call[c].nonce)
        /\ zeroed' = zeroed \cup {d \in {c} : call[c].step = "zero"}
<1>1. call \in [Calls -> CallTypes] /\ call[c] \in CallTypes
  BY DEF TypeOK
<1>2. ASSUME NEW own \in BOOLEAN,
             call' = [call EXCEPT ![c] = [call[c] EXCEPT
                       !.pc = "error", !.nonce = 0, !.own = own]]
      PROVE /\ call' \in [Calls -> CallTypes]
            /\ \A d \in Calls : d # c => call'[d] = call[d]
            /\ call'[c].pc = "error" /\ call'[c].nonce = 0
            /\ call'[c].step = call[c].step /\ call'[c].input = call[c].input
            /\ call'[c].amount = call[c].amount
  <2> DEFINE new == [call[c] EXCEPT !.pc = "error", !.nonce = 0, !.own = own]
  <2>1. /\ new \in CallTypes /\ new.pc = "error" /\ new.nonce = 0
        /\ new.step = call[c].step /\ new.input = call[c].input
        /\ new.amount = call[c].amount
    BY <1>1 DEF CallTypes, Pcs
  <2> HIDE DEF new
  <2>2. call' = [call EXCEPT ![c] = new]
    BY <1>2 DEF new
  <2> QED
    BY <1>1, <2>1, <2>2
<1>3. CASE PrepareFails(c)
  <2> DEFINE own == call[c].own \/ (At(c, "signed") /\ call[c].step = "zero")
  <2>1. own \in BOOLEAN
    BY <1>1 DEF CallTypes, At
  <2>2. call' = [call EXCEPT ![c] = [call[c] EXCEPT
                   !.pc = "error", !.nonce = 0, !.own = own]]
    BY <1>3 DEF PrepareFails
  <2> HIDE DEF own
  <2>3. /\ UNCHANGED <<checks, mined, allowance, disturbed>>
        /\ troubles' \in 0 .. MaxTroubles
        /\ call[c].pc \in {"start", "signed", "sending"}
        /\ AddNonceHole(call[c].nonce)
        /\ zeroed' = zeroed \cup {d \in {c} : call[c].step = "zero"}
    BY <1>3, ApproveAssumption
       DEF PrepareFails, Trouble, FailsZero, chainVars, TypeOK
  <2> QED
    BY <1>2, <2>1, <2>2, <2>3
<1>4. CASE TransFailed(c)
  <2>1. call' = [call EXCEPT ![c] = [call[c] EXCEPT
                   !.pc = "error", !.nonce = 0, !.own = call[c].own]]
    <3>1. call' = [call EXCEPT ![c] = [call[c] EXCEPT !.pc = "error", !.nonce = 0]]
      BY <1>4 DEF TransFailed
    <3>2. [call[c] EXCEPT !.pc = "error", !.nonce = 0]
           = [call[c] EXCEPT !.pc = "error", !.nonce = 0, !.own = call[c].own]
      BY <1>1 DEF CallTypes
    <3> QED
      BY <3>1, <3>2
  <2>2. /\ UNCHANGED <<checks, mined, allowance, disturbed>>
        /\ troubles' \in 0 .. MaxTroubles
        /\ call[c].pc \in {"start", "signed", "sending"}
        /\ AddNonceHole(call[c].nonce)
        /\ zeroed' = zeroed \cup {d \in {c} : call[c].step = "zero"}
    BY <1>4, ApproveAssumption
       DEF TransFailed, Trouble, FailsZero, chainVars, TypeOK, At
  <2> QED
    BY <1>1, <1>2, <2>1, <2>2 DEF CallTypes
<1> QED
  BY <1>3, <1>4

LEMMA PreSendWrites ==
  ASSUME TypeOK, NEW c \in Calls, PreSendTrans(c)
  PROVE /\ UNCHANGED <<checks, slot, mined, allowance, disturbed, zeroed, troubles>>
        /\ call' \in [Calls -> CallTypes] /\ rec' \in [Calls -> RecordTypes]
        /\ \A d \in Calls : d # c => call'[d] = call[d] /\ rec'[d] = rec[d]
        /\ call[c].pc = "signed" /\ call'[c].pc = "sending"
        /\ call'[c].step = call[c].step /\ call'[c].input = call[c].input
        /\ call'[c].amount = call[c].amount /\ call'[c].own = call[c].own
        /\ call'[c].nonce = call[c].nonce
        /\ rec'[c].status \in Sendings
        /\ rec'[c].value = IF call[c].step = "lock" /\ ~ Direct(c)
                           THEN rec[c].value ELSE call[c].input
<1>1. /\ UNCHANGED <<checks, slot, mined, allowance, disturbed, zeroed, troubles>>
      /\ call[c].pc = "signed"
  BY DEF PreSendTrans, At, chainVars, historyVars
<1>2. /\ rec \in [Calls -> RecordTypes] /\ call \in [Calls -> CallTypes]
      /\ call[c] \in CallTypes /\ rec[c] \in RecordTypes
  BY DEF TypeOK
<1> DEFINE new == [call[c] EXCEPT !.pc = "sending"]
<1>3. /\ new \in CallTypes /\ new.pc = "sending" /\ new.nonce = call[c].nonce
      /\ new.step = call[c].step /\ new.input = call[c].input
      /\ new.amount = call[c].amount
  BY <1>2 DEF CallTypes, Pcs
<1>4. new.own = call[c].own
  BY <1>2 DEF CallTypes
<1>5. call' = [call EXCEPT ![c] = new]
  BY DEF PreSendTrans
<1> HIDE DEF new
<1>6. /\ call' \in [Calls -> CallTypes] /\ call'[c] = new
      /\ \A d \in Calls : d # c => call'[d] = call[d]
  BY <1>2, <1>3, <1>5
<1> DEFINE status == Sending(c)
           value == IF call[c].step = "lock" /\ ~ Direct(c)
                    THEN rec[c].value ELSE call[c].input
           note == [rec[c] EXCEPT !.status = status, !.value = value]
<1>7. status \in Sendings /\ value \in Nat
  BY <1>2, CallTyped DEF Sending, Sendings, RecordTypes, Steps
<1>8. rec' = [rec EXCEPT ![c] = note]
  BY DEF PreSendTrans
<1> HIDE DEF status, value
<1>9. note \in RecordTypes /\ note.status = status /\ note.value = value
  BY <1>2, <1>7 DEF RecordTypes, Sendings, Statuses
<1> HIDE DEF note
<1>10. /\ rec' \in [Calls -> RecordTypes] /\ rec'[c] = note
       /\ \A d \in Calls : d # c => rec'[d] = rec[d]
  BY <1>2, <1>8, <1>9
<1> QED
  BY <1>1, <1>3, <1>4, <1>6, <1>7, <1>9, <1>10 DEF value

LEMMA PostSendWrites ==
  ASSUME TypeOK, NEW c \in Calls, PostSendTrans(c)
  PROVE /\ UNCHANGED <<checks, mined, allowance, disturbed, zeroed, troubles>>
        /\ call' \in [Calls -> CallTypes] /\ rec' \in [Calls -> RecordTypes]
        /\ \A d \in Calls : d # c => call'[d] = call[d] /\ rec'[d] = rec[d]
        /\ call[c].pc = "sending"
        /\ call'[c].pc = IF call[c].step = "lock" THEN "ok" ELSE "start"
        /\ call'[c].step = IF call[c].step = "zero" THEN "approve" ELSE "lock"
        /\ call'[c].input = call[c].amount /\ call'[c].amount = call[c].amount
        /\ call'[c].own = TRUE /\ call'[c].nonce = 0
        /\ slot' = IF Direct(c) THEN slot
                   ELSE [slot EXCEPT ![call[c].nonce].state = "sent"]
        /\ rec'[c].value = rec[c].value
        /\ rec'[c].status \in {"ApproveZeroSent", "ApproveSent", "LockSent"}
        /\ rec'[c].status = "ApproveZeroSent" =>
             call[c].step = "zero" /\ rec'[c].zeroTx = call[c].nonce
        /\ rec'[c].status = "ApproveSent" =>
             call[c].step = "approve" /\ rec'[c].approveTx = call[c].nonce
<1>1. /\ UNCHANGED <<checks, mined, allowance, disturbed, zeroed, troubles>>
      /\ call[c].pc = "sending"
      /\ slot' = IF Direct(c) THEN slot
                 ELSE [slot EXCEPT ![call[c].nonce].state = "sent"]
  BY DEF PostSendTrans, At, chainVars, historyVars
<1>2. /\ rec \in [Calls -> RecordTypes] /\ call \in [Calls -> CallTypes]
      /\ call[c] \in CallTypes /\ rec[c] \in RecordTypes
  BY DEF TypeOK
<1> DEFINE pc == IF call[c].step = "lock" THEN "ok" ELSE "start"
           step == IF call[c].step = "zero" THEN "approve" ELSE "lock"
           new == [call[c] EXCEPT !.pc = pc, !.step = step,
                     !.input = call[c].amount, !.own = TRUE, !.nonce = 0]
<1>3. call' = [call EXCEPT ![c] = new]
  BY <1>1 DEF PostSendTrans, Onwards
<1>4. pc \in Pcs /\ step \in Steps
  BY DEF Pcs, Steps
<1> HIDE DEF pc, step
<1>5. /\ new \in CallTypes /\ new.pc = pc /\ new.nonce = 0
      /\ new.step = step /\ new.input = call[c].amount
      /\ new.amount = call[c].amount
  BY <1>2, <1>4 DEF CallTypes
<1>6. new.own = TRUE
  BY <1>2 DEF CallTypes
<1> HIDE DEF new
<1>7. /\ call' \in [Calls -> CallTypes] /\ call'[c] = new
      /\ \A d \in Calls : d # c => call'[d] = call[d]
  BY <1>2, <1>3, <1>5
<1> DEFINE n == call[c].nonce
           note == CASE call[c].step = "zero" ->
                          [rec[c] EXCEPT !.status = "ApproveZeroSent", !.zeroTx = n]
                     [] call[c].step = "approve" ->
                          [rec[c] EXCEPT !.status = "ApproveSent", !.approveTx = n]
                     [] call[c].step = "lock" ->
                          [rec[c] EXCEPT !.status = "LockSent"]
<1>8. rec' = [rec EXCEPT ![c] = note]
  BY DEF PostSendTrans
<1>9. n \in Nat /\ call[c].step \in Steps
  BY <1>2, CallTyped
<1> HIDE DEF n
<1>10. /\ note \in RecordTypes /\ note.value = rec[c].value
       /\ note.status \in {"ApproveZeroSent", "ApproveSent", "LockSent"}
       /\ note.status = "ApproveZeroSent" =>
            call[c].step = "zero" /\ note.zeroTx = n
       /\ note.status = "ApproveSent" =>
            call[c].step = "approve" /\ note.approveTx = n
  <2>1. CASE call[c].step = "zero"
    BY <1>2, <1>9, <2>1 DEF RecordTypes, Statuses
  <2>2. CASE call[c].step = "approve"
    BY <1>2, <1>9, <2>2 DEF RecordTypes, Statuses
  <2>3. CASE call[c].step = "lock"
    BY <1>2, <1>9, <2>3 DEF RecordTypes, Statuses
  <2> QED
    BY <1>9, <2>1, <2>2, <2>3 DEF Steps
<1> HIDE DEF note
<1>11. /\ rec' \in [Calls -> RecordTypes] /\ rec'[c] = note
       /\ \A d \in Calls : d # c => rec'[d] = rec[d]
  BY <1>2, <1>8, <1>10
<1> QED
  BY <1>1, <1>5, <1>6, <1>7, <1>10, <1>11 DEF n, pc, step

-----------------------------------------------------------------------------
(* The invariant and each step of a call.                                  *)

LEMMA ReadDisturbs ==
  ASSUME TypeOK, NEW c \in Calls, ReadAllowance(c)
  PROVE /\ disturbed \subseteq disturbed' /\ disturbed' \subseteq Calls
        /\ \A d \in Calls : d # c /\ Busy(d) => {c, d} \subseteq disturbed'
        /\ \A i \in 1 .. Len(slot) : slot[i].state = "sent" => c \in disturbed'
<1> DEFINE others == {d \in Calls \ {c} : Busy(d)}
           pending == \E i \in DOMAIN slot : slot[i].state = "sent"
<1>1. disturbed' = IF others # {} \/ pending
                   THEN disturbed \cup others \cup {c} ELSE disturbed
  BY DEF ReadAllowance
<1>2. DOMAIN slot = 1 .. Len(slot) /\ disturbed \subseteq Calls
  BY DEF TypeOK
<1> QED
  BY <1>1, <1>2

LEMMA InvRead ==
  ASSUME IInv, NEW c \in Calls, ReadAllowance(c) PROVE IInv'
<1> USE DEF IInv
<1>1. /\ UNCHANGED <<checks, slot, mined, allowance, zeroed, troubles>>
      /\ \A d \in Calls : d # c => call'[d] = call[d] /\ rec'[d] = rec[d]
      /\ call[c].pc \in {"idle", "error"}
      /\ call'[c].pc = "start" /\ call'[c].nonce = 0
  BY ReadWrites
<1>2. /\ call'[c].amount = call[c].input
      /\ call'[c].step = IF Direct(c) THEN "lock" ELSE ApproveFirst(c)
      /\ call'[c].input = IF call'[c].step = "zero" THEN 0 ELSE call[c].input
      /\ rec'[c] = IF Direct(c) THEN NoRecord ELSE rec[c]
  BY ReadWrites
<1>3. ~ Busy(c) /\ call[c].nonce = 0
  BY <1>1 DEF Busy, HeldInv
<1>4. /\ disturbed \subseteq disturbed' /\ disturbed' \subseteq Calls
      /\ \A d \in Calls : d # c /\ Busy(d) => {c, d} \subseteq disturbed'
      /\ \A i \in 1 .. Len(slot) : slot[i].state = "sent" => c \in disturbed'
  BY ReadDisturbs
<1>5. \A d \in Calls : d # c => (Busy(d)' <=> Busy(d))
  BY <1>1 DEF Busy
<1>6. \A i \in 1 .. Len(slot) : slot[i].call \in Calls
  BY SlotTyped DEF TypeOK
<1>7. TypeOK'
  BY <1>1, <1>4, ReadWrites DEF TypeOK
<1>8. HeldInv'
  BY <1>1, <1>2 DEF HeldInv, Direct
<1>9. SlotInv'
  BY <1>1, <1>3, <1>6 DEF SlotInv
<1>10. AskedInv'
  <2>1. ASSUME NEW d \in Calls, d # c PROVE AskedInv!(d)'
    BY <1>1, <1>5, <2>1 DEF AskedInv, At, Direct
  <2>2. AskedInv!(c)'
    BY <1>1, <1>2, <1>3 DEF AskedInv, At, Busy, Direct, ApproveFirst
  <2> QED
    BY <2>1, <2>2 DEF AskedInv
<1>11. LockInv'
  BY <1>1, <1>6 DEF LockInv, At
<1>12. StatusInv'
  <2>1. ASSUME NEW d \in Calls, d # c PROVE StatusInv!(d)'
    BY <1>1, <2>1 DEF StatusInv, At
  <2>2. call'[c].own => call[c].own \/ Direct(c)
    BY ReadWrites
  <2>3. StatusInv!(c)'
    BY <1>1, <1>2, <2>2 DEF StatusInv, At, NoRecord, Sendings
  <2> QED
    BY <2>1, <2>3 DEF StatusInv
<1>13. AloneInv'
  BY <1>4, <1>5 DEF AloneInv
<1>14. QueueInv' /\ LoneLockIsCovered'
  BY <1>1, <1>4 DEF QueueInv, Follows, LoneLockIsCovered
<1>15. NextInv'
  <2>1. ASSUME NEW d \in Calls, Busy(d)', d \notin disturbed' PROVE d = c
    BY <1>4, <1>5, <2>1
  <2>2. ASSUME ~ Direct(c), c \notin disturbed'
        PROVE Queue(c, mined)' /\ Ready(c, mined)'
    <3>1. ASSUME NEW i \in 1 .. Len(slot), mined < i PROVE slot[i].state = "hole"
      <4>1. slot[i].state \in {"taken", "hole", "sent", "ok", "reverted"}
        BY SlotTyped DEF TypeOK
      <4>2. slot[i].state \notin {"ok", "reverted"}
        BY <3>1 DEF SlotInv, TypeOK
      <4>3. slot[i].state # "sent"
        BY <1>4, <2>2
      <4>4. CASE slot[i].state = "taken"
        <5>1. call[slot[i].call].nonce # 0
          BY <4>4 DEF SlotInv
        <5>2. Busy(slot[i].call)
          BY <1>6, <5>1 DEF HeldInv, Busy
        <5> QED
          BY <1>3, <1>4, <1>6, <2>2, <5>2
      <4> QED
        BY <4>1, <4>2, <4>3, <4>4
    <3>2. Queue(c, mined)'
      BY <1>1, <3>1 DEF Queue, TypeOK
    <3>3. Ready(c, mined)'
      BY <1>1, <1>2, <2>2 DEF Ready, ApproveFirst
    <3> QED
      BY <3>2, <3>3
  <2>3. mined' \in mined' .. Len(slot)'
    BY <1>1 DEF TypeOK
  <2> QED
    BY <1>1, <2>1, <2>2, <2>3 DEF NextInv, Direct
<1> QED
  BY <1>7, <1>8, <1>9, <1>10, <1>11, <1>12, <1>13, <1>14, <1>15

LEMMA InvPreSend ==
  ASSUME IInv, NEW c \in Calls, PreSendTrans(c) PROVE IInv'
<1> USE DEF IInv
<1>1. /\ UNCHANGED <<checks, slot, mined, allowance, disturbed, zeroed, troubles>>
      /\ \A d \in Calls : d # c => call'[d] = call[d] /\ rec'[d] = rec[d]
      /\ call[c].pc = "signed" /\ call'[c].pc = "sending"
  BY PreSendWrites
<1>2. /\ call'[c].step = call[c].step /\ call'[c].input = call[c].input
      /\ call'[c].amount = call[c].amount /\ call'[c].own = call[c].own
      /\ call'[c].nonce = call[c].nonce
  BY PreSendWrites
<1>3. /\ rec'[c].status \in Sendings
      /\ rec'[c].value = IF call[c].step = "lock" /\ ~ Direct(c)
                         THEN rec[c].value ELSE call[c].input
  BY PreSendWrites
<1>4. \A d \in Calls : Busy(d)' <=> Busy(d)
  BY <1>1 DEF Busy
<1>5. \A d \in Calls :
        /\ call'[d].step = call[d].step /\ call'[d].input = call[d].input
        /\ call'[d].nonce = call[d].nonce
  BY <1>1, <1>2
<1>6. TypeOK'
  <2>1. call' \in [Calls -> CallTypes] /\ rec' \in [Calls -> RecordTypes]
    BY PreSendWrites
  <2> QED
    BY <1>1, <1>5, <2>1 DEF TypeOK
<1>7. HeldInv'
  BY <1>1, <1>2 DEF HeldInv, Direct
<1>8. SlotInv'
  <2>1. \A i \in 1 .. Len(slot) : slot[i].call \in Calls
    BY SlotTyped DEF TypeOK
  <2> QED
    BY <1>1, <1>5, <2>1 DEF SlotInv
<1>9. AskedInv'
  <2>1. ASSUME NEW d \in Calls, d # c PROVE AskedInv!(d)'
    BY <1>1, <1>4, <2>1 DEF AskedInv, At, Direct
  <2>2. AskedInv!(c)'
    BY <1>1, <1>2, <1>3, <1>4 DEF AskedInv, At, Busy, Direct
  <2> QED
    BY <2>1, <2>2 DEF AskedInv
<1>10. LockInv'
  <2>1. ASSUME NEW i \in 1 .. Len(slot) PROVE LockInv!(i)'
    <3>1. slot[i].call \in Calls
      BY SlotTyped DEF TypeOK
    <3> QED
      BY <1>1, <3>1 DEF LockInv, At
  <2> QED
    BY <1>1, <2>1 DEF LockInv
<1>11. StatusInv'
  <2>1. ASSUME NEW d \in Calls, d # c PROVE StatusInv!(d)'
    BY <1>1, <2>1 DEF StatusInv, At
  <2>2. StatusInv!(c)'
    BY <1>1, <1>3 DEF StatusInv, At, Sendings
  <2> QED
    BY <2>1, <2>2 DEF StatusInv
<1>12. AloneInv' /\ LoneLockIsCovered'
  BY <1>1, <1>4 DEF AloneInv, LoneLockIsCovered
<1>13. QueueInv'
  BY <1>1 DEF QueueInv, Follows
<1>14. NextInv'
  BY <1>1, <1>4, <1>5 DEF NextInv, Queue, Ready, Direct
<1> QED
  BY <1>6, <1>7, <1>8, <1>9, <1>10, <1>11, <1>12, <1>13, <1>14

(* A failure keeps the value of the record; a failed sending of an input   *)
(* with a hashX leaves a status of a failure.                              *)
LEMMA FailNotes ==
  ASSUME TypeOK, StatusInv, NEW c \in Calls, PrepareFails(c) \/ TransFailed(c)
  PROVE /\ rec' \in [Calls -> RecordTypes]
        /\ \A d \in Calls : d # c => rec'[d] = rec[d]
        /\ rec'[c].value = rec[c].value
        /\ call'[c].own => rec'[c].status \notin Sendings
        /\ \/ rec'[c] = rec[c]
           \/ rec'[c].status \in {"ApproveFail", "LockFail"}
<1>1. /\ rec \in [Calls -> RecordTypes] /\ call \in [Calls -> CallTypes]
      /\ call[c] \in CallTypes /\ rec[c] \in RecordTypes
  BY DEF TypeOK
<1>2. CASE PrepareFails(c)
  <2>1. rec' = rec /\ call[c].pc \in {"start", "signed"}
    BY <1>2 DEF PrepareFails
  <2>2. call'[c].own => call[c].own \/ At(c, "signed")
    BY <1>1, <1>2 DEF PrepareFails, CallTypes, At
  <2> QED
    BY <1>1, <2>1, <2>2 DEF StatusInv, At
<1>3. CASE TransFailed(c)
  <2>1. rec' = [rec EXCEPT ![c].status = FailedStatus(c)]
    BY <1>3 DEF TransFailed
  <2>2. call'[c].own <=> call[c].own
    BY <1>1, <1>3 DEF TransFailed, CallTypes
  <2>3. FailedStatus(c) = IF ~ call[c].own THEN rec[c].status
                          ELSE IF call[c].step = "lock" THEN "LockFail"
                               ELSE "ApproveFail"
    BY DEF FailedStatus
  <2> DEFINE note == [rec[c] EXCEPT !.status = FailedStatus(c)]
  <2>4. /\ note \in RecordTypes /\ note.value = rec[c].value
        /\ call[c].own => note.status \in {"ApproveFail", "LockFail"}
    BY <1>1, <2>3 DEF RecordTypes, Statuses
  <2>5. ~ call[c].own => note = rec[c]
    BY <1>1, <2>3 DEF RecordTypes
  <2> HIDE DEF note
  <2>6. rec' = [rec EXCEPT ![c] = note]
    BY <2>1 DEF note
  <2>7. /\ rec' \in [Calls -> RecordTypes] /\ rec'[c] = note
        /\ \A d \in Calls : d # c => rec'[d] = rec[d]
    BY <1>1, <2>4, <2>6
  <2> QED
    BY <2>2, <2>4, <2>5, <2>7 DEF Sendings
<1> QED
  BY <1>2, <1>3

LEMMA HeldSlot ==
  ASSUME HeldInv, NEW c \in Calls, call[c].nonce # 0
  PROVE /\ call[c].nonce \in 1 .. Len(slot)
        /\ slot[call[c].nonce].call = c /\ slot[call[c].nonce].state = "taken"
        /\ slot[call[c].nonce].step = call[c].step
        /\ slot[call[c].nonce].value = call[c].input
<1>1. /\ call[c].nonce \in 1 .. Len(slot)
      /\ slot[call[c].nonce] = [call |-> c, step |-> call[c].step,
                                value |-> call[c].input, state |-> "taken"]
  BY DEF HeldInv
<1> QED
  BY <1>1

(* The slot of a call that fails becomes a hole, and was taken.            *)
LEMMA FailHole ==
  ASSUME TypeOK, HeldInv, NEW c \in Calls, AddNonceHole(call[c].nonce)
  PROVE /\ slot' \in Seq(TxTypes) /\ Len(slot') = Len(slot)
        /\ \A i \in 1 .. Len(slot) :
             /\ slot'[i].call = slot[i].call /\ slot'[i].step = slot[i].step
             /\ slot'[i].value = slot[i].value
             /\ i # call[c].nonce => slot'[i] = slot[i]
             /\ i = call[c].nonce => slot'[i].state = "hole"
                                     /\ slot[i].state = "taken"
                                     /\ slot[i].call = c
<1> DEFINE n == call[c].nonce
<1>1. CASE n = 0
  BY <1>1 DEF AddNonceHole, TypeOK
<1>2. CASE n # 0
  <2>1. /\ n \in 1 .. Len(slot)
        /\ slot[n].state = "taken" /\ slot[n].call = c
    BY <1>2, HeldSlot
  <2>2. slot' = [slot EXCEPT ![n].state = "hole"]
    BY <1>2 DEF AddNonceHole
  <2> HIDE DEF n
  <2>3. /\ slot' \in Seq(TxTypes) /\ Len(slot') = Len(slot)
        /\ slot'[n].call = slot[n].call /\ slot'[n].step = slot[n].step
        /\ slot'[n].value = slot[n].value /\ slot'[n].state = "hole"
        /\ \A i \in 1 .. Len(slot) : i # n => slot'[i] = slot[i]
    BY <2>1, <2>2, StateFacts DEF TypeOK
  <2> QED
    BY <2>1, <2>3 DEF n
<1> QED
  BY <1>1, <1>2

LEMMA InvFail ==
  ASSUME IInv, NEW c \in Calls, PrepareFails(c) \/ TransFailed(c) PROVE IInv'
<1> USE DEF IInv
<1>1. /\ UNCHANGED <<checks, mined, allowance, disturbed>>
      /\ troubles' \in 0 .. MaxTroubles
      /\ call' \in [Calls -> CallTypes]
      /\ \A d \in Calls : d # c => call'[d] = call[d]
      /\ call[c].pc \in {"start", "signed", "sending"}
  BY FailWrites
<1>2. /\ call'[c].pc = "error" /\ call'[c].nonce = 0
      /\ call'[c].step = call[c].step /\ call'[c].input = call[c].input
      /\ call'[c].amount = call[c].amount
      /\ AddNonceHole(call[c].nonce)
      /\ zeroed' = zeroed \cup {d \in {c} : call[c].step = "zero"}
  BY FailWrites
<1>3. /\ slot' \in Seq(TxTypes) /\ Len(slot') = Len(slot)
      /\ \A i \in 1 .. Len(slot) :
           /\ slot'[i].call = slot[i].call /\ slot'[i].step = slot[i].step
           /\ slot'[i].value = slot[i].value
           /\ i # call[c].nonce => slot'[i] = slot[i]
           /\ i = call[c].nonce => slot'[i].state = "hole"
                                   /\ slot[i].state = "taken"
                                   /\ slot[i].call = c
  BY <1>2, FailHole
<1>4. /\ rec' \in [Calls -> RecordTypes]
      /\ \A d \in Calls : d # c => rec'[d] = rec[d]
      /\ rec'[c].value = rec[c].value
      /\ call'[c].own => rec'[c].status \notin Sendings
      /\ \/ rec'[c] = rec[c]
         \/ rec'[c].status \in {"ApproveFail", "LockFail"}
  BY FailNotes
<1>5. \A d \in Calls : Busy(d)' <=> Busy(d) /\ d # c
  BY <1>1, <1>2 DEF Busy
<1>6. Busy(c)
  BY <1>1 DEF Busy
<1>7. \A i \in 1 .. Len(slot) : slot[i].call \in Calls
  BY SlotTyped DEF TypeOK
<1>8. TypeOK'
  <2>1. ASSUME NEW d \in Calls, call'[d].nonce # 0
        PROVE call'[d].nonce \in 1 .. Len(slot') /\ slot'[call'[d].nonce].call = d
    BY <1>1, <1>2, <1>3, <2>1 DEF TypeOK
  <2>2. zeroed' \subseteq Calls /\ mined' \in 0 .. Len(slot')
    BY <1>1, <1>2, <1>3 DEF TypeOK
  <2> QED
    BY <1>1, <1>3, <1>4, <2>1, <2>2 DEF TypeOK
<1>9. HeldInv'
  <2>1. ASSUME NEW d \in Calls, d # c PROVE HeldInv!(d)'
    BY <1>1, <1>3, <2>1 DEF HeldInv, Direct
  <2>2. HeldInv!(c)'
    BY <1>2 DEF HeldInv, Direct
  <2> QED
    BY <2>1, <2>2 DEF HeldInv
<1>10. SlotInv'
  <2>1. ASSUME NEW i \in 1 .. Len(slot) PROVE SlotInv!(i)'
    <3>1. CASE i = call[c].nonce
      BY <1>1, <1>3, <3>1 DEF SlotInv
    <3>2. CASE i # call[c].nonce
      BY <1>1, <1>3, <1>7, <3>2 DEF SlotInv
    <3> QED
      BY <3>1, <3>2
  <2> QED
    BY <1>3, <2>1 DEF SlotInv
<1>11. AskedInv'
  <2>1. ASSUME NEW d \in Calls, d # c PROVE AskedInv!(d)'
    <3>1. d \in zeroed' <=> d \in zeroed
      BY <1>2, <2>1
    <3> QED
      BY <1>1, <1>4, <1>5, <2>1, <3>1 DEF AskedInv, At, Direct
  <2>2. AskedInv!(c)'
    <3>1. c \notin zeroed' => c \notin zeroed /\ call[c].step # "zero"
      BY <1>2
    <3> QED
      BY <1>2, <1>5, <3>1 DEF AskedInv, At
  <2> QED
    BY <2>1, <2>2 DEF AskedInv
<1>12. LockInv'
  <2>1. ASSUME NEW i \in 1 .. Len(slot) PROVE LockInv!(i)'
    <3>1. CASE i = call[c].nonce
      BY <1>3, <3>1
    <3>2. CASE i # call[c].nonce
      <4>1. slot'[i] = slot[i] /\ slot[i].call \in Calls
        BY <1>3, <1>7, <3>2
      <4>2. CASE slot[i].call = c
        BY <1>1, <4>1, <4>2 DEF LockInv, At
      <4>3. CASE slot[i].call # c
        <5>1. slot[i].call \in zeroed => slot[i].call \in zeroed'
          BY <1>2
        <5> QED
          BY <1>1, <1>4, <4>1, <4>3, <5>1 DEF LockInv, At
      <4> QED
        BY <4>2, <4>3
    <3> QED
      BY <3>1, <3>2
  <2> QED
    BY <1>3, <2>1 DEF LockInv
<1>13. StatusInv'
  <2>1. ASSUME NEW d \in Calls, d # c PROVE StatusInv!(d)'
    BY <1>1, <1>3, <1>4, <2>1 DEF StatusInv, At
  <2>2. StatusInv!(c)'
    BY <1>2, <1>3, <1>4 DEF StatusInv, At
  <2> QED
    BY <2>1, <2>2 DEF StatusInv
<1>14. AloneInv'
  BY <1>1, <1>5 DEF AloneInv
<1>15. LoneLockIsCovered'
  <2>1. DOMAIN slot = 1 .. Len(slot) /\ DOMAIN slot' = 1 .. Len(slot)
    BY <1>3 DEF TypeOK
  <2> QED
    BY <1>1, <1>3, <2>1 DEF LoneLockIsCovered
<1>16. QueueInv'
  <2>1. ASSUME NEW i \in 1 .. Len(slot), slot'[i].state \in {"sent", "taken"},
               slot'[i].call \notin disturbed'
        PROVE Follows(i)'
    <3>1. slot'[i] = slot[i] /\ Follows(i)
      BY <1>1, <1>3, <2>1 DEF QueueInv
    <3>2. CASE i = mined + 1
      BY <1>1, <3>1, <3>2 DEF Follows
    <3>3. CASE i # mined + 1
      <4>1. i > mined + 1
        <5>1. slot[i].state \notin {"ok", "reverted"} /\ mined \in Nat
          BY <2>1, <3>1 DEF TypeOK
        <5>2. ~ (i <= mined)
          BY <5>1 DEF SlotInv
        <5> QED
          BY <3>3, <5>1, <5>2
      <4>2. i - 1 \in 1 .. Len(slot) /\ slot[i - 1].state = "sent"
        BY <3>1, <3>3, <4>1 DEF Follows, TypeOK
      <4>3. slot'[i - 1] = slot[i - 1]
        BY <1>3, <4>2
      <4> QED
        BY <1>1, <3>1, <3>3, <4>3 DEF Follows
    <3> QED
      BY <3>2, <3>3
  <2> QED
    BY <1>3, <2>1 DEF QueueInv
<1>17. NextInv'
  BY <1>1, <1>5, <1>6 DEF NextInv, AloneInv
<1> QED
  BY <1>8, <1>9, <1>10, <1>11, <1>12, <1>13, <1>14, <1>15, <1>16, <1>17

(* The slot that the data of a call take: of a direct call none, else a    *)
(* new one or a hole, behind everything that is mined.                     *)
LEMMA DataSlot ==
  ASSUME TypeOK, HeldInv, SlotInv, NEW c \in Calls, CreateData(c)
  PROVE LET n == call'[c].nonce
            t == [call |-> c, step |-> call[c].step,
                  value |-> call[c].input, state |-> "taken"]
        IN /\ slot' \in Seq(TxTypes) /\ Len(slot) <= Len(slot')
           /\ call[c].nonce = 0
           /\ \A i \in 1 .. Len(slot') :
                i # n => i \in 1 .. Len(slot) /\ slot'[i] = slot[i]
           /\ \A i \in 1 .. Len(slot) :
                i # n => i \in 1 .. Len(slot') /\ slot'[i] = slot[i]
           /\ IF Direct(c) THEN n = 0
              ELSE /\ n = NextNonce /\ n \in 1 .. Len(slot') /\ slot'[n] = t
                   /\ mined < n
           /\ n \in 1 .. Len(slot) => slot[n].state = "hole"
<1> DEFINE n == call'[c].nonce
           t == [call |-> c, step |-> call[c].step,
                 value |-> call[c].input, state |-> "taken"]
<1>1. call[c].nonce = 0
  BY DataWrites DEF HeldInv
<1>2. slot \in Seq(TxTypes) /\ Len(slot) \in Nat /\ mined \in 0 .. Len(slot)
  BY DEF TypeOK
<1>3. n = IF Direct(c) THEN 0 ELSE NextNonce
  BY <1>1, DataWrites
<1>4. CASE Direct(c)
  <2>1. slot' = slot /\ n = 0
    BY <1>3, <1>4, DataWrites
  <2> QED
    BY <1>1, <1>2, <1>4, <2>1
<1>5. CASE ~ Direct(c)
  <2>1. Take(t) /\ n = NextNonce
    BY <1>3, <1>5, DataWrites
  <2>2. t \in TxTypes
    BY CallTyped DEF TypeOK, TxTypes
  <2> HIDE DEF n, t
  <2>3. /\ slot' \in Seq(TxTypes) /\ Len(slot) <= Len(slot')
        /\ n \in 1 .. Len(slot') /\ slot'[n] = t
        /\ \A i \in 1 .. Len(slot') :
             i # n => i \in 1 .. Len(slot) /\ slot'[i] = slot[i]
        /\ \A i \in 1 .. Len(slot) :
             i # n => i \in 1 .. Len(slot') /\ slot'[i] = slot[i]
    BY <1>2, <2>1, <2>2, TakeFacts
  <2>4. n \in 1 .. Len(slot) => slot[n].state = "hole"
    BY <1>2, <2>1, NextNonceFacts
  <2>5. mined < n
    <3>1. CASE n \in 1 .. Len(slot)
      <4>1. ~ (n <= mined)
        BY <2>4, <3>1 DEF SlotInv
      <4> QED
        BY <1>2, <3>1, <4>1
    <3>2. CASE n \notin 1 .. Len(slot)
      BY <1>2, <2>1, <3>2, NextNonceFacts
    <3> QED
      BY <3>1, <3>2
  <2> QED
    BY <1>1, <1>5, <2>1, <2>3, <2>4, <2>5 DEF n, t
<1> QED
  BY <1>4, <1>5

(* The nonce of an undisturbed call is behind what it sent.                *)
LEMMA DataBehind ==
  ASSUME TypeOK, SlotInv, NextInv, NEW c \in Calls,
         Busy(c), ~ Direct(c), c \notin disturbed, call[c].nonce = 0
  PROVE \E k \in mined .. Len(slot) :
          NextNonce = k + 1 /\ Queue(c, k) /\ Ready(c, k)
<1>1. PICK k \in mined .. Len(slot) : Queue(c, k) /\ Ready(c, k)
  BY DEF NextInv
<1>2. /\ NextNonce \in 1 .. Len(slot) + 1
      /\ \A i \in 1 .. Len(slot) : slot[i].state = "hole" => NextNonce <= i
      /\ NextNonce \in 1 .. Len(slot) => slot[NextNonce].state = "hole"
  BY NextNonceFacts DEF TypeOK
<1>3. k \in Nat /\ Len(slot) \in Nat /\ mined \in Nat
  BY DEF TypeOK
<1>4. NextNonce > k
  <2>1. SUFFICES ASSUME NextNonce \in 1 .. Len(slot), NextNonce <= k
                 PROVE FALSE
    BY <1>2, <1>3
  <2>2. CASE NextNonce <= mined
    BY <1>2, <2>1, <2>2 DEF SlotInv
  <2>3. CASE mined < NextNonce
    BY <1>1, <1>2, <2>1, <2>3 DEF Queue
  <2> QED
    BY <1>2, <1>3, <2>2, <2>3
<1>5. NextNonce <= k + 1
  <2>1. CASE k = Len(slot)
    BY <1>2, <2>1
  <2>2. CASE k # Len(slot)
    <3>1. k + 1 \in 1 .. Len(slot) /\ k < k + 1
      BY <1>3, <2>2
    <3>2. slot[k + 1].state = "hole"
      BY <1>1, <3>1 DEF Queue
    <3> QED
      BY <1>2, <3>1, <3>2
  <2> QED
    BY <2>1, <2>2
<1> QED
  BY <1>1, <1>2, <1>3, <1>4, <1>5

LEMMA InvData ==
  ASSUME IInv, NEW c \in Calls, CreateData(c) PROVE IInv'
<1> USE DEF IInv
<1> DEFINE n == call'[c].nonce
<1>1. /\ UNCHANGED <<checks, mined, allowance, disturbed, zeroed, troubles>>
      /\ \A d \in Calls : d # c => call'[d] = call[d] /\ rec'[d] = rec[d]
      /\ call[c].pc = "start" /\ call'[c].pc = "signed"
  BY DataWrites
<1>2. /\ call'[c].step = call[c].step /\ call'[c].input = call[c].input
      /\ call'[c].amount = call[c].amount /\ call'[c].own = call[c].own
      /\ rec'[c] = IF call[c].own THEN rec[c] ELSE NoRecord
  BY DataWrites
<1>3. /\ slot' \in Seq(TxTypes) /\ Len(slot) <= Len(slot')
      /\ call[c].nonce = 0
      /\ \A i \in 1 .. Len(slot') :
           i # n => i \in 1 .. Len(slot) /\ slot'[i] = slot[i]
      /\ \A i \in 1 .. Len(slot) :
           i # n => i \in 1 .. Len(slot') /\ slot'[i] = slot[i]
      /\ n \in 1 .. Len(slot) => slot[n].state = "hole"
  BY DataSlot
<1>4. IF Direct(c) THEN n = 0
      ELSE /\ n = NextNonce /\ n \in 1 .. Len(slot') /\ mined < n
           /\ slot'[n] = [call |-> c, step |-> call[c].step,
                          value |-> call[c].input, state |-> "taken"]
  BY DataSlot
<1>5. \A i \in 1 .. Len(slot') : i = n => ~ Direct(c)
  BY <1>4
<1> HIDE DEF n
<1>6. Busy(c) /\ \A d \in Calls : Busy(d)' <=> Busy(d)
  BY <1>1 DEF Busy
<1>7. \A i \in 1 .. Len(slot) : slot[i].call \in Calls
  BY SlotTyped DEF TypeOK
<1>8. call'[c].nonce = n
  BY DEF n
<1>9. TypeOK'
  <2>1. ASSUME NEW d \in Calls, call'[d].nonce # 0
        PROVE call'[d].nonce \in 1 .. Len(slot') /\ slot'[call'[d].nonce].call = d
    <3>1. CASE d = c
      BY <1>4, <1>8, <2>1, <3>1
    <3>2. CASE d # c
      <4>1. /\ call[d].nonce \in 1 .. Len(slot) /\ call[d].nonce = call'[d].nonce
            /\ slot[call[d].nonce].call = d
        BY <1>1, <2>1, <3>2 DEF TypeOK
      <4>2. slot[call[d].nonce].state = "taken"
        BY <1>1, <2>1, <3>2, HeldSlot
      <4>3. call[d].nonce # n
        BY <1>3, <4>1, <4>2
      <4> QED
        BY <1>3, <4>1, <4>3
    <3> QED
      BY <3>1, <3>2
  <2>2. mined' \in 0 .. Len(slot')
    BY <1>1, <1>3 DEF TypeOK
  <2>3. checks' \in [Calls -> SUBSET ({"zero", "approve"} \X (1 .. Len(slot')))]
    BY <1>1, <1>3 DEF TypeOK
  <2> QED
    BY <1>1, <1>3, <2>1, <2>2, <2>3, DataWrites DEF TypeOK
<1>10. HeldInv'
  <2>1. ASSUME NEW d \in Calls, d # c PROVE HeldInv!(d)'
    <3>1. CASE call[d].nonce = 0
      BY <1>1, <2>1, <3>1 DEF HeldInv, Direct
    <3>2. CASE call[d].nonce # 0
      <4>1. /\ call[d].nonce \in 1 .. Len(slot)
            /\ slot[call[d].nonce].state = "taken"
        BY <3>2, HeldSlot
      <4>2. /\ call[d].nonce \in 1 .. Len(slot')
            /\ slot'[call[d].nonce] = slot[call[d].nonce]
        BY <1>3, <4>1
      <4> QED
        BY <1>1, <2>1, <3>2, <4>2 DEF HeldInv, Direct
    <3> QED
      BY <3>1, <3>2
  <2>2. HeldInv!(c)'
    <3>1. CASE Direct(c)
      BY <1>1, <1>2, <1>4, <1>8, <3>1 DEF HeldInv, Direct
    <3>2. CASE ~ Direct(c)
      <4>1. /\ n \in 1 .. Len(slot') /\ ~ Direct(c) /\ n # 0
            /\ slot'[n] = [call |-> c, step |-> call'[c].step,
                           value |-> call'[c].input, state |-> "taken"]
        BY <1>2, <1>4, <3>2
      <4> QED
        BY <1>1, <1>8, <4>1 DEF Direct
    <3> QED
      BY <3>1, <3>2
  <2> QED
    BY <2>1, <2>2 DEF HeldInv
<1>11. SlotInv'
  <2>1. ASSUME NEW i \in 1 .. Len(slot') PROVE SlotInv!(i)'
    <3>1. CASE i = n
      <4>1. /\ slot'[i].call = c /\ slot'[i].step = call[c].step
            /\ slot'[i].value = call[c].input /\ slot'[i].state = "taken"
            /\ mined < i
        BY <1>4, <1>5, <3>1
      <4>2. call[c].step = "zero" => call[c].input = 0
        BY <1>6 DEF AskedInv
      <4>3. ~ (i <= mined)
        BY <4>1 DEF TypeOK
      <4> QED
        BY <1>1, <1>8, <3>1, <4>1, <4>2, <4>3
    <3>2. CASE i # n
      <4>1. i \in 1 .. Len(slot) /\ slot'[i] = slot[i] /\ slot[i].call \in Calls
        BY <1>3, <1>7, <3>2
      <4>2. slot[i].state = "taken" => slot[i].call # c
        BY <1>3, <4>1 DEF SlotInv
      <4> QED
        BY <1>1, <4>1, <4>2 DEF SlotInv
    <3> QED
      BY <3>1, <3>2
  <2> QED
    BY <2>1 DEF SlotInv
<1>12. AskedInv'
  <2>1. ASSUME NEW d \in Calls, d # c PROVE AskedInv!(d)'
    BY <1>1, <1>6, <2>1 DEF AskedInv, At, Direct
  <2>2. AskedInv!(c)'
    <3>1. ~ Direct(c) /\ call[c].step = "lock" => rec'[c] = rec[c]
      BY <1>2, <1>6 DEF AskedInv
    <3> QED
      BY <1>1, <1>2, <1>6, <3>1 DEF AskedInv, At, Direct
  <2> QED
    BY <2>1, <2>2 DEF AskedInv
<1>13. LockInv'
  <2>1. ASSUME NEW i \in 1 .. Len(slot') PROVE LockInv!(i)'
    <3>1. CASE i = n
      <4>1. slot'[i].state = "taken"
        BY <1>4, <1>5, <3>1
      <4> QED
        BY <4>1
    <3>2. CASE i # n
      <4>1. i \in 1 .. Len(slot) /\ slot'[i] = slot[i] /\ slot[i].call \in Calls
        BY <1>3, <1>7, <3>2
      <4>2. CASE slot[i].call = c
        BY <1>1, <4>1, <4>2 DEF LockInv, At
      <4>3. CASE slot[i].call # c
        BY <1>1, <4>1, <4>3 DEF LockInv, At
      <4> QED
        BY <4>2, <4>3
    <3> QED
      BY <3>1, <3>2
  <2> QED
    BY <2>1 DEF LockInv
<1>14. StatusInv'
  <2>1. ASSUME NEW d \in Calls, rec'[d] = rec[d]
        PROVE /\ rec'[d].status = "ApproveZeroSent" =>
                   rec'[d].zeroTx \in 1 .. Len(slot')
              /\ rec'[d].status = "ApproveSent" =>
                   rec'[d].approveTx \in 1 .. Len(slot')
    BY <1>3, <2>1 DEF StatusInv, TypeOK
  <2>2. ASSUME NEW d \in Calls, d # c PROVE StatusInv!(d)'
    BY <1>1, <2>1, <2>2 DEF StatusInv, At
  <2>3. StatusInv!(c)'
    <3>1. CASE call[c].own
      BY <1>1, <1>2, <2>1, <3>1 DEF StatusInv, At
    <3>2. CASE ~ call[c].own
      BY <1>2, <3>2 DEF NoRecord, Sendings
    <3> QED
      BY <3>1, <3>2
  <2> QED
    BY <2>2, <2>3 DEF StatusInv
<1>15. AloneInv'
  BY <1>1, <1>6 DEF AloneInv
<1>16. LoneLockIsCovered'
  <2>1. DOMAIN slot = 1 .. Len(slot) /\ DOMAIN slot' = 1 .. Len(slot')
    BY <1>3 DEF TypeOK
  <2>2. ASSUME NEW i \in 1 .. Len(slot'), slot'[i].state = "reverted"
        PROVE slot'[i].call \in disturbed'
    <3>1. i # n
      BY <1>4, <1>5, <2>2
    <3> QED
      BY <1>1, <1>3, <2>1, <2>2, <3>1 DEF LoneLockIsCovered
  <2> QED
    BY <2>1, <2>2 DEF LoneLockIsCovered
<1>17. ASSUME ~ Direct(c), c \notin disturbed
       PROVE \E k \in mined .. Len(slot) :
               n = k + 1 /\ Queue(c, k) /\ Ready(c, k)
  <2>1. n = NextNonce
    BY <1>4, <1>17
  <2> QED
    BY <1>3, <1>6, <1>17, <2>1, DataBehind
<1>18. QueueInv'
  <2>1. ASSUME NEW i \in 1 .. Len(slot'), slot'[i].state \in {"sent", "taken"},
               slot'[i].call \notin disturbed'
        PROVE Follows(i)'
    <3>1. CASE i = n
      <4>1. /\ slot'[i].call = c /\ slot'[i].step = call[c].step
            /\ slot'[i].value = call[c].input /\ ~ Direct(c)
        BY <1>4, <1>5, <3>1
      <4>2. PICK k \in mined .. Len(slot) : n = k + 1 /\ Queue(c, k) /\ Ready(c, k)
        BY <1>1, <1>17, <2>1, <4>1
      <4>3. CASE k = mined
        BY <1>1, <3>1, <4>1, <4>2, <4>3 DEF Follows, Ready
      <4>4. CASE k # mined
        <5>1. k \in 1 .. Len(slot) /\ mined < k /\ i # mined + 1 /\ i - 1 = k
          BY <3>1, <4>2, <4>4 DEF TypeOK
        <5>2. slot[k].call = c /\ slot[k].state = "sent"
          BY <4>2, <5>1 DEF Queue
        <5>3. slot'[k] = slot[k]
          BY <1>3, <4>2, <5>1
        <5>4. call[c].step \in Steps
          BY CallTyped DEF TypeOK
        <5>5. \/ call[c].step = "approve" /\ slot[k].step = "zero"
              \/ /\ call[c].step = "lock" /\ slot[k].step = "approve"
                 /\ call[c].input = slot[k].value
          BY <4>2, <4>4, <5>4 DEF Ready, Steps
        <5> QED
          BY <1>1, <4>1, <5>1, <5>2, <5>3, <5>5 DEF Follows
      <4> QED
        BY <4>3, <4>4
    <3>2. CASE i # n
      <4>1. i \in 1 .. Len(slot) /\ slot'[i] = slot[i] /\ Follows(i)
        BY <1>1, <1>3, <2>1, <3>2 DEF QueueInv
      <4>2. CASE i = mined + 1
        BY <1>1, <4>1, <4>2 DEF Follows
      <4>3. CASE i # mined + 1
        <5>1. slot[i].state \notin {"ok", "reverted"} /\ mined \in Nat
          BY <2>1, <4>1 DEF TypeOK
        <5>2. ~ (i <= mined)
          BY <4>1, <5>1 DEF SlotInv
        <5>3. i - 1 \in 1 .. Len(slot) /\ slot[i - 1].state = "sent"
          BY <4>1, <4>3, <5>1, <5>2 DEF Follows
        <5>4. slot'[i - 1] = slot[i - 1]
          BY <1>3, <5>3
        <5> QED
          BY <1>1, <4>1, <4>3, <5>4 DEF Follows
      <4> QED
        BY <4>2, <4>3
    <3> QED
      BY <3>1, <3>2
  <2> QED
    BY <2>1 DEF QueueInv
<1>19. NextInv'
  <2>1. ASSUME NEW d \in Calls, Busy(d)', d \notin disturbed' PROVE d = c
    BY <1>1, <1>6, <2>1 DEF AloneInv
  <2>2. ASSUME ~ Direct(c), c \notin disturbed
        PROVE \E k \in mined' .. Len(slot') : Queue(c, k)' /\ n = k + 1
    <3>1. PICK k \in mined .. Len(slot) : n = k + 1 /\ Queue(c, k)
      BY <1>17, <2>2
    <3>2. k \in mined' .. Len(slot')
      BY <1>1, <1>3, <3>1 DEF TypeOK
    <3>3. ASSUME NEW i \in 1 .. Len(slot'), mined < i, i <= k
          PROVE slot'[i].call = c /\ slot'[i].state = "sent"
      <4>1. i # n
        BY <3>1, <3>3 DEF TypeOK
      <4> QED
        BY <1>3, <3>1, <3>3, <4>1 DEF Queue
    <3>4. ASSUME NEW i \in 1 .. Len(slot'), k < i, i # n
          PROVE slot'[i].state = "hole"
      BY <1>3, <3>1, <3>4 DEF Queue
    <3>5. Queue(c, k)'
      BY <1>1, <1>8, <3>1, <3>3, <3>4 DEF Queue
    <3> QED
      BY <3>1, <3>2, <3>5
  <2>3. ASSUME NEW k \in mined' .. Len(slot'), n = k + 1 PROVE n # 0
    BY <1>1, <2>3 DEF TypeOK
  <2> QED
    BY <1>1, <1>8, <2>1, <2>2, <2>3 DEF NextInv, Direct
<1> QED
  BY <1>9, <1>10, <1>11, <1>12, <1>13, <1>14, <1>15, <1>16, <1>18, <1>19

(* The slot of a call that sends was taken, and is sent.                   *)
LEMMA SendSlot ==
  ASSUME TypeOK, HeldInv, NEW c \in Calls, PostSendTrans(c)
  PROVE /\ slot' \in Seq(TxTypes) /\ Len(slot') = Len(slot)
        /\ ~ Direct(c) => call[c].nonce \in 1 .. Len(slot)
        /\ \A i \in 1 .. Len(slot) :
             /\ slot'[i].call = slot[i].call /\ slot'[i].step = slot[i].step
             /\ slot'[i].value = slot[i].value
             /\ i # call[c].nonce => slot'[i] = slot[i]
             /\ i = call[c].nonce =>
                  /\ slot[i].state = "taken" /\ slot'[i].state = "sent"
                  /\ slot[i].call = c /\ ~ Direct(c)
                  /\ slot[i].step = call[c].step
                  /\ slot[i].value = call[c].input
<1> DEFINE n == call[c].nonce
<1>1. /\ slot' = IF Direct(c) THEN slot ELSE [slot EXCEPT ![n].state = "sent"]
      /\ call[c].pc = "sending"
  BY PostSendWrites
<1>2. CASE Direct(c)
  <2>1. n = 0 /\ slot' = slot
    BY <1>1, <1>2 DEF HeldInv
  <2> QED
    BY <1>2, <2>1 DEF TypeOK
<1>3. CASE ~ Direct(c)
  <2>1. n # 0
    BY <1>1, <1>3 DEF HeldInv
  <2>2. /\ n \in 1 .. Len(slot)
        /\ slot[n].state = "taken" /\ slot[n].call = c
        /\ slot[n].step = call[c].step /\ slot[n].value = call[c].input
    BY <2>1, HeldSlot
  <2> HIDE DEF n
  <2>3. /\ slot' \in Seq(TxTypes) /\ Len(slot') = Len(slot)
        /\ slot'[n].call = slot[n].call /\ slot'[n].step = slot[n].step
        /\ slot'[n].value = slot[n].value /\ slot'[n].state = "sent"
        /\ \A i \in 1 .. Len(slot) : i # n => slot'[i] = slot[i]
    BY <1>1, <1>3, <2>2, StateFacts DEF TypeOK
  <2> QED
    BY <1>3, <2>2, <2>3 DEF n
<1> QED
  BY <1>2, <1>3

(* What follows a step of its own call that was sent just before still     *)
(* does when only a slot that was taken changes.                           *)
LEMMA FollowsKept ==
  ASSUME SlotInv, TypeOK, UNCHANGED <<mined, allowance>>,
         NEW i \in 1 .. Len(slot), Follows(i),
         slot[i].state \in {"sent", "taken"},
         slot'[i].call = slot[i].call, slot'[i].step = slot[i].step,
         slot'[i].value = slot[i].value,
         \A j \in 1 .. Len(slot) : slot[j].state = "sent" => slot'[j] = slot[j]
  PROVE Follows(i)'
<1>1. CASE i = mined + 1
  BY <1>1 DEF Follows
<1>2. CASE i # mined + 1
  <2>1. ~ (i <= mined) /\ mined \in Nat
    BY DEF SlotInv, TypeOK
  <2>2. i - 1 \in 1 .. Len(slot) /\ slot[i - 1].state = "sent"
    BY <1>2, <2>1 DEF Follows
  <2>3. slot'[i - 1] = slot[i - 1]
    BY <2>2
  <2> QED
    BY <1>2, <2>3 DEF Follows
<1> QED
  BY <1>1, <1>2

LEMMA InvPostSend ==
  ASSUME IInv, NEW c \in Calls, PostSendTrans(c) PROVE IInv'
<1> USE DEF IInv
<1> DEFINE n == call[c].nonce
<1>1. /\ UNCHANGED <<checks, mined, allowance, disturbed, zeroed, troubles>>
      /\ \A d \in Calls : d # c => call'[d] = call[d] /\ rec'[d] = rec[d]
      /\ call[c].pc = "sending"
      /\ call'[c].pc = IF call[c].step = "lock" THEN "ok" ELSE "start"
  BY PostSendWrites
<1>2. /\ call'[c].step = IF call[c].step = "zero" THEN "approve" ELSE "lock"
      /\ call'[c].input = call[c].amount /\ call'[c].amount = call[c].amount
      /\ call'[c].own = TRUE /\ call'[c].nonce = 0
      /\ rec'[c].value = rec[c].value
  BY PostSendWrites
<1>3. /\ rec'[c].status \in {"ApproveZeroSent", "ApproveSent", "LockSent"}
      /\ rec'[c].status = "ApproveZeroSent" =>
           call[c].step = "zero" /\ rec'[c].zeroTx = n
      /\ rec'[c].status = "ApproveSent" =>
           call[c].step = "approve" /\ rec'[c].approveTx = n
  BY PostSendWrites
<1>4. /\ slot' \in Seq(TxTypes) /\ Len(slot') = Len(slot)
      /\ ~ Direct(c) => n \in 1 .. Len(slot)
      /\ \A i \in 1 .. Len(slot) :
           /\ slot'[i].call = slot[i].call /\ slot'[i].step = slot[i].step
           /\ slot'[i].value = slot[i].value
           /\ i # n => slot'[i] = slot[i]
           /\ i = n =>
                /\ slot[i].state = "taken" /\ slot'[i].state = "sent"
                /\ slot[i].call = c /\ ~ Direct(c)
                /\ slot[i].step = call[c].step
                /\ slot[i].value = call[c].input
  BY SendSlot
<1>5. Busy(c) /\ call[c].step \in Steps
  BY <1>1, CallTyped DEF Busy, TypeOK
<1>6. \A d \in Calls : Busy(d)' => Busy(d)
  BY <1>1, <1>5 DEF Busy
<1>7. \A i \in 1 .. Len(slot) : slot[i].call \in Calls
  BY SlotTyped DEF TypeOK
<1>8. ~ Direct(c) => n # 0
  BY <1>1 DEF HeldInv
<1>9. n = call[c].nonce
  OBVIOUS
<1> HIDE DEF n
<1>10. TypeOK'
  <2>1. ASSUME NEW d \in Calls, call'[d].nonce # 0
        PROVE call'[d].nonce \in 1 .. Len(slot') /\ slot'[call'[d].nonce].call = d
    BY <1>1, <1>2, <1>4, <2>1 DEF TypeOK
  <2> QED
    BY <1>1, <1>4, <2>1, PostSendWrites DEF TypeOK
<1>11. HeldInv'
  <2>1. ASSUME NEW d \in Calls, d # c PROVE HeldInv!(d)'
    <3>1. CASE call[d].nonce = 0
      BY <1>1, <2>1, <3>1 DEF HeldInv, Direct
    <3>2. CASE call[d].nonce # 0
      <4>1. /\ call[d].nonce \in 1 .. Len(slot)
            /\ slot[call[d].nonce].call = d
        BY <3>2, HeldSlot
      <4>2. slot'[call[d].nonce] = slot[call[d].nonce]
        BY <1>4, <2>1, <4>1
      <4> QED
        BY <1>1, <1>4, <2>1, <3>2, <4>2 DEF HeldInv, Direct
    <3> QED
      BY <3>1, <3>2
  <2>2. HeldInv!(c)'
    BY <1>1, <1>2 DEF HeldInv, Direct
  <2> QED
    BY <2>1, <2>2 DEF HeldInv
<1>12. SlotInv'
  <2>1. ASSUME NEW i \in 1 .. Len(slot) PROVE SlotInv!(i)'
    <3>1. CASE i = n
      BY <1>1, <1>4, <3>1 DEF SlotInv
    <3>2. CASE i # n
      <4>1. slot'[i] = slot[i] /\ slot[i].call \in Calls
        BY <1>4, <1>7, <3>2
      <4>2. slot[i].state = "taken" => slot[i].call # c
        BY <1>9, <3>2 DEF SlotInv
      <4> QED
        BY <1>1, <4>1, <4>2 DEF SlotInv
    <3> QED
      BY <3>1, <3>2
  <2> QED
    BY <1>4, <2>1 DEF SlotInv
<1>13. AskedInv'
  <2>1. ASSUME NEW d \in Calls, d # c PROVE AskedInv!(d)'
    <3>1. Busy(d)' <=> Busy(d)
      BY <1>1, <2>1 DEF Busy
    <3> QED
      BY <1>1, <2>1, <3>1 DEF AskedInv, At, Direct
  <2>2. AskedInv!(c)'
    <3>1. c \notin zeroed => call[c].amount = Amount[c]
      BY DEF AskedInv
    <3>2. Busy(c)' => call[c].step # "lock"
      BY <1>1 DEF Busy
    <3>3. call[c].step = "approve" => rec[c].value = call[c].amount
      BY <1>1, <1>5 DEF AskedInv, At
    <3>4. ~ At(c, "sending")'
      BY <1>1 DEF At
    <3>5. /\ call'[c].step # "zero"
          /\ Busy(c)' /\ call'[c].step = "lock" => call[c].step = "approve"
      BY <1>2, <1>5, <3>2 DEF Steps
    <3> QED
      BY <1>1, <1>2, <3>1, <3>3, <3>4, <3>5
  <2> QED
    BY <2>1, <2>2 DEF AskedInv
<1>14. LockInv'
  <2>1. ASSUME NEW i \in 1 .. Len(slot) PROVE LockInv!(i)'
    <3>1. CASE i = n
      <4>1. /\ slot'[i].call = c /\ slot'[i].step = call[c].step
            /\ slot'[i].value = call[c].input /\ ~ Direct(c)
        BY <1>4, <3>1
      <4>2. call[c].step = "lock" =>
              /\ rec[c].value = call[c].input
              /\ call[c].input = Amount[c] \/ c \in zeroed
        BY <1>5, <4>1 DEF AskedInv
      <4> QED
        BY <1>1, <1>2, <4>1, <4>2 DEF At
    <3>2. CASE i # n
      <4>1. slot'[i] = slot[i] /\ slot[i].call \in Calls
        BY <1>4, <1>7, <3>2
      <4>2. CASE slot[i].call = c
        BY <1>1, <4>1, <4>2 DEF LockInv, At
      <4>3. CASE slot[i].call # c
        BY <1>1, <4>1, <4>3 DEF LockInv, At
      <4> QED
        BY <4>2, <4>3
    <3> QED
      BY <3>1, <3>2
  <2> QED
    BY <1>4, <2>1 DEF LockInv
<1>15. StatusInv'
  <2>1. ASSUME NEW d \in Calls, d # c PROVE StatusInv!(d)'
    BY <1>1, <1>4, <2>1 DEF StatusInv, At
  <2>2. StatusInv!(c)'
    <3>1. call[c].step \in {"zero", "approve"} => n \in 1 .. Len(slot)
      BY <1>4 DEF HeldInv
    <3> QED
      BY <1>3, <1>4, <3>1 DEF Sendings
  <2> QED
    BY <2>1, <2>2 DEF StatusInv
<1>16. AloneInv'
  BY <1>1, <1>6 DEF AloneInv
<1>17. LoneLockIsCovered'
  <2>1. DOMAIN slot = 1 .. Len(slot) /\ DOMAIN slot' = 1 .. Len(slot)
    BY <1>4 DEF TypeOK
  <2> QED
    BY <1>1, <1>4, <2>1 DEF LoneLockIsCovered
<1>18. QueueInv'
  <2>1. ASSUME NEW i \in 1 .. Len(slot), slot'[i].state \in {"sent", "taken"},
               slot'[i].call \notin disturbed'
        PROVE Follows(i)'
    <3>1. slot[i].state \in {"sent", "taken"} /\ Follows(i)
      BY <1>1, <1>4, <2>1 DEF QueueInv
    <3>2. \A j \in 1 .. Len(slot) : slot[j].state = "sent" => slot'[j] = slot[j]
      BY <1>4
    <3> QED
      BY <1>1, <1>4, <3>1, <3>2, FollowsKept
  <2> QED
    BY <1>4, <2>1 DEF QueueInv
<1>19. NextInv'
  <2>1. ASSUME NEW d \in Calls, Busy(d)', d \notin disturbed' PROVE d = c
    BY <1>1, <1>5, <1>6, <2>1 DEF AloneInv
  <2>2. ASSUME ~ Direct(c), c \notin disturbed, Busy(c)'
        PROVE \E k \in mined' .. Len(slot') : Queue(c, k)' /\ Ready(c, k)'
    <3>1. PICK k \in mined .. Len(slot) : Queue(c, k)
      BY <1>5, <2>2 DEF NextInv
    <3>2. /\ n = k + 1 /\ k + 1 \in 1 .. Len(slot) /\ mined < k + 1
          /\ k + 1 \in mined .. Len(slot)
      BY <1>4, <1>8, <1>9, <2>2, <3>1 DEF Queue, TypeOK
    <3>3. ASSUME NEW i \in 1 .. Len(slot), mined < i, i <= k + 1
          PROVE slot'[i].call = c /\ slot'[i].state = "sent"
      <4>1. CASE i = n
        BY <1>4, <4>1
      <4>2. CASE i # n
        BY <1>4, <3>1, <3>2, <3>3, <4>2 DEF Queue
      <4> QED
        BY <4>1, <4>2
    <3>4. ASSUME NEW i \in 1 .. Len(slot), k + 1 < i PROVE slot'[i].state = "hole"
      <4>1. i # n /\ k < i
        BY <3>2, <3>4
      <4> QED
        BY <1>4, <1>9, <3>1, <4>1 DEF Queue
    <3>5. Queue(c, k + 1)'
      BY <1>1, <1>2, <1>4, <3>3, <3>4 DEF Queue
    <3>6. Ready(c, k + 1)'
      <4>1. call[c].step # "lock"
        BY <1>1, <2>2 DEF Busy
      <4>2. call[c].step = "approve" => call[c].input = call[c].amount
        BY <1>5 DEF AskedInv
      <4>3. slot'[k + 1].step = call[c].step /\ slot'[k + 1].value = call[c].input
        BY <1>4, <3>2
      <4>4. k + 1 # mined'
        BY <1>1, <3>2 DEF TypeOK
      <4>5. call[c].step \in {"zero", "approve"}
        BY <1>5, <4>1 DEF Steps
      <4> QED
        BY <1>2, <4>2, <4>3, <4>4, <4>5 DEF Ready
    <3> QED
      BY <1>1, <1>4, <3>2, <3>5, <3>6
  <2>3. ASSUME NEW d \in Calls, Busy(d)', ~ Direct(d), d \notin disturbed'
        PROVE \E k \in mined' .. Len(slot') : Queue(d, k)' /\ Ready(d, k)'
    <3>1. d = c
      BY <2>1, <2>3
    <3>2. Busy(c)' /\ ~ Direct(c) /\ c \notin disturbed
      BY <1>1, <2>3, <3>1
    <3> QED
      BY <2>2, <3>1, <3>2
  <2>4. \A d \in Calls : Direct(d)' <=> Direct(d)
    BY DEF Direct
  <2> QED
    BY <2>3, <2>4 DEF NextInv
<1> QED
  BY <1>10, <1>11, <1>12, <1>13, <1>14, <1>15, <1>16, <1>17, <1>18, <1>19

(* What is mined of an undisturbed call is fine, and an approval leaves    *)
(* its value as the allowance.                                             *)
LEMMA MineFacts ==
  ASSUME TypeOK, SlotInv, QueueInv, Mine
  PROVE /\ UNCHANGED <<call, rec, checks, disturbed, zeroed, troubles>>
        /\ mined + 1 \in 1 .. Len(slot) /\ mined' = mined + 1
        /\ slot[mined + 1].state = "sent"
        /\ slot' \in Seq(TxTypes) /\ Len(slot') = Len(slot)
        /\ allowance' \in Nat
        /\ slot'[mined + 1].state \in {"ok", "reverted"}
        /\ \A i \in 1 .. Len(slot) :
             /\ slot'[i].call = slot[i].call /\ slot'[i].step = slot[i].step
             /\ slot'[i].value = slot[i].value
             /\ i # mined + 1 => slot'[i] = slot[i]
        /\ slot[mined + 1].call \notin disturbed =>
             /\ slot'[mined + 1].state = "ok"
             /\ slot[mined + 1].step # "lock" =>
                  allowance' = slot[mined + 1].value
<1> DEFINE n == mined + 1
           fine == IF slot[n].step = "lock" THEN slot[n].value <= allowance
                   ELSE slot[n].value = 0 \/ allowance = 0
           s == IF fine THEN "ok" ELSE "reverted"
<1>1. /\ UNCHANGED <<call, rec, checks, disturbed, zeroed, troubles>>
      /\ mined < Len(slot) /\ slot[n].state = "sent" /\ mined' = n
      /\ slot' = [slot EXCEPT ![n].state = s]
      /\ allowance' = IF ~ fine THEN allowance
                      ELSE IF slot[n].step = "lock" THEN allowance - slot[n].value
                      ELSE slot[n].value
  BY DEF Mine, historyVars
<1>2. /\ slot \in Seq(TxTypes) /\ Len(slot) \in Nat /\ mined \in Nat
      /\ allowance \in Nat
  BY DEF TypeOK
<1>3. n \in 1 .. Len(slot) /\ n = mined + 1
  BY <1>1, <1>2
<1>4. slot[n].value \in Nat /\ slot[n].step \in Steps
  BY <1>2, <1>3, SlotTyped
<1>5. allowance' \in Nat
  BY <1>1, <1>2, <1>4
<1>6. slot[n].call \notin disturbed => fine
  <2>1. SUFFICES ASSUME slot[n].call \notin disturbed PROVE fine
    OBVIOUS
  <2>2. Follows(n)
    BY <1>1, <1>3, <2>1 DEF QueueInv
  <2>3. /\ slot[n].step = "approve" => allowance = 0
        /\ slot[n].step = "lock" => allowance = slot[n].value
    BY <1>3, <2>2 DEF Follows
  <2>4. slot[n].step = "zero" => slot[n].value = 0
    BY <1>3 DEF SlotInv
  <2> QED
    BY <1>2, <1>4, <2>3, <2>4 DEF Steps
<1>7. s \in {"ok", "reverted"} /\ (fine => s = "ok")
  OBVIOUS
<1>8. fine /\ slot[n].step # "lock" => allowance' = slot[n].value
  BY <1>1
<1> HIDE DEF n, fine, s
<1>9. /\ slot' \in Seq(TxTypes) /\ Len(slot') = Len(slot)
      /\ slot'[n].call = slot[n].call /\ slot'[n].step = slot[n].step
      /\ slot'[n].value = slot[n].value /\ slot'[n].state = s
      /\ \A i \in 1 .. Len(slot) : i # n => slot'[i] = slot[i]
  BY <1>1, <1>2, <1>3, <1>7, StateFacts
<1> QED
  BY <1>1, <1>3, <1>5, <1>6, <1>7, <1>8, <1>9

LEMMA InvMine == IInv /\ Mine => IInv'
<1> SUFFICES ASSUME IInv, Mine PROVE IInv'
  OBVIOUS
<1> USE DEF IInv
<1>1. /\ UNCHANGED <<call, rec, checks, disturbed, zeroed, troubles>>
      /\ mined + 1 \in 1 .. Len(slot) /\ mined' = mined + 1
      /\ slot[mined + 1].state = "sent"
      /\ slot' \in Seq(TxTypes) /\ Len(slot') = Len(slot)
      /\ allowance' \in Nat
      /\ slot'[mined + 1].state \in {"ok", "reverted"}
  BY MineFacts
<1>2. \A i \in 1 .. Len(slot) :
        /\ slot'[i].call = slot[i].call /\ slot'[i].step = slot[i].step
        /\ slot'[i].value = slot[i].value
        /\ i # mined + 1 => slot'[i] = slot[i]
  BY MineFacts
<1>3. slot[mined + 1].call \notin disturbed =>
        /\ slot'[mined + 1].state = "ok"
        /\ slot[mined + 1].step # "lock" => allowance' = slot[mined + 1].value
  BY MineFacts
<1>4. mined \in Nat /\ Len(slot) \in Nat
  BY DEF TypeOK
<1>5. slot[mined + 1].call \notin disturbed => Follows(mined + 1)
  BY <1>1 DEF QueueInv
<1>6. TypeOK'
  <2>1. mined' \in 0 .. Len(slot')
    BY <1>1, <1>4
  <2> QED
    BY <1>1, <1>2, <2>1 DEF TypeOK
<1>7. HeldInv'
  <2>1. ASSUME NEW d \in Calls PROVE HeldInv!(d)'
    <3>1. CASE call[d].nonce = 0
      BY <1>1, <3>1 DEF HeldInv, Direct
    <3>2. CASE call[d].nonce # 0
      <4>1. /\ call[d].nonce \in 1 .. Len(slot)
            /\ slot[call[d].nonce].state = "taken"
        BY <3>2, HeldSlot
      <4>2. slot'[call[d].nonce] = slot[call[d].nonce]
        BY <1>1, <1>2, <4>1
      <4> QED
        BY <1>1, <3>2, <4>2 DEF HeldInv, Direct
    <3> QED
      BY <3>1, <3>2
  <2> QED
    BY <2>1 DEF HeldInv
<1>8. SlotInv'
  <2>1. ASSUME NEW i \in 1 .. Len(slot) PROVE SlotInv!(i)'
    <3>1. CASE i = mined + 1
      BY <1>1, <1>2, <3>1 DEF SlotInv
    <3>2. CASE i # mined + 1
      BY <1>1, <1>2, <1>4, <3>2 DEF SlotInv
    <3> QED
      BY <3>1, <3>2
  <2> QED
    BY <1>1, <2>1 DEF SlotInv
<1>9. AskedInv' /\ AloneInv'
  BY <1>1 DEF AskedInv, AloneInv, Busy, At, Direct
<1>10. LockInv'
  <2>1. ASSUME NEW i \in 1 .. Len(slot) PROVE LockInv!(i)'
    <3>1. CASE i = mined + 1
      BY <1>1, <1>2, <3>1 DEF LockInv, At
    <3>2. CASE i # mined + 1
      BY <1>1, <1>2, <3>2 DEF LockInv, At
    <3> QED
      BY <3>1, <3>2
  <2> QED
    BY <1>1, <2>1 DEF LockInv
<1>11. StatusInv'
  BY <1>1 DEF StatusInv, At
<1>12. LoneLockIsCovered'
  <2>1. DOMAIN slot = 1 .. Len(slot) /\ DOMAIN slot' = 1 .. Len(slot)
    BY <1>1 DEF TypeOK
  <2> QED
    BY <1>1, <1>2, <1>3, <2>1 DEF LoneLockIsCovered
<1>13. QueueInv'
  <2>1. ASSUME NEW i \in 1 .. Len(slot), slot'[i].state \in {"sent", "taken"},
               slot'[i].call \notin disturbed'
        PROVE Follows(i)'
    <3>1. i # mined + 1 /\ slot'[i] = slot[i]
      BY <1>1, <1>2, <2>1
    <3>2. mined + 1 < i
      BY <1>4, <2>1, <3>1 DEF SlotInv
    <3>3. slot[i].call \notin disturbed /\ Follows(i)
      BY <1>1, <2>1, <3>1 DEF QueueInv
    <3>4. /\ slot[i - 1].call = slot[i].call /\ slot[i - 1].state = "sent"
          /\ \/ slot[i].step = "approve" /\ slot[i - 1].step = "zero"
             \/ /\ slot[i].step = "lock" /\ slot[i - 1].step = "approve"
                /\ slot[i].value = slot[i - 1].value
      BY <3>1, <3>3 DEF Follows
    <3>5. CASE i = mined' + 1
      <4>1. i - 1 = mined + 1 /\ slot[mined + 1].call \notin disturbed
        BY <1>1, <1>4, <3>3, <3>4, <3>5
      <4>2. slot[mined + 1].step = "zero" => slot[mined + 1].value = 0
        BY <1>1 DEF SlotInv
      <4> QED
        BY <1>3, <3>1, <3>4, <3>5, <4>1, <4>2 DEF Follows
    <3>6. CASE i # mined' + 1
      <4>1. i - 1 \in 1 .. Len(slot) /\ i - 1 # mined + 1
        BY <1>1, <1>4, <3>2, <3>6
      <4>2. slot'[i - 1] = slot[i - 1]
        BY <1>2, <4>1
      <4> QED
        BY <3>1, <3>4, <3>6, <4>2 DEF Follows
    <3> QED
      BY <3>5, <3>6
  <2> QED
    BY <1>1, <2>1 DEF QueueInv
<1>14. NextInv'
  <2>1. ASSUME NEW d \in Calls, Busy(d), ~ Direct(d), d \notin disturbed
        PROVE \E k \in mined' .. Len(slot') :
                Queue(d, k)' /\ (call'[d].nonce = 0 => Ready(d, k)')
    <3>1. PICK k \in mined .. Len(slot) :
            Queue(d, k) /\ (call[d].nonce = 0 => Ready(d, k))
      BY <2>1 DEF NextInv
    <3>2. call[d].nonce # mined + 1
      BY <1>1, HeldSlot
    <3>3. mined + 1 <= k
      <4>1. ~ (k < mined + 1)
        BY <1>1, <3>1, <3>2 DEF Queue
      <4> QED
        BY <1>4, <3>1, <4>1
    <3>4. k \in mined' .. Len(slot')
      BY <1>1, <3>1, <3>3
    <3>5. Queue(d, k)'
      <4>1. ASSUME NEW i \in 1 .. Len(slot), mined + 1 < i, i <= k
            PROVE slot'[i].call = d /\ slot'[i].state = "sent"
        BY <1>2, <1>4, <3>1, <4>1 DEF Queue
      <4>2. ASSUME NEW i \in 1 .. Len(slot), k < i
            PROVE slot'[i].state = "hole" \/ i = call[d].nonce
        BY <1>2, <1>4, <3>1, <3>3, <4>2 DEF Queue
      <4>3. call[d].nonce \in {0, k + 1}
        BY <3>1 DEF Queue
      <4> QED
        BY <1>1, <4>1, <4>2, <4>3 DEF Queue
    <3>6. ASSUME call[d].nonce = 0 PROVE Ready(d, k)'
      <4>1. k # mined /\ k \in 1 .. Len(slot)
        BY <1>4, <3>1, <3>3
      <4>2. /\ call[d].step # "zero"
            /\ call[d].step = "approve" => slot[k].step = "zero"
            /\ call[d].step = "lock" =>
                 slot[k].step = "approve" /\ slot[k].value = call[d].input
        BY <3>1, <3>6, <4>1 DEF Ready
      <4>3. CASE k = mined + 1
        <5>1. slot[k].call = d
          BY <1>1, <1>4, <3>1, <4>1, <4>3 DEF Queue
        <5>2. slot[k].step # "lock" => allowance' = slot[k].value
          BY <1>3, <2>1, <4>3, <5>1
        <5>3. slot[k].step = "zero" => slot[k].value = 0
          BY <4>1 DEF SlotInv
        <5> QED
          BY <1>1, <4>2, <4>3, <5>2, <5>3 DEF Ready
      <4>4. CASE k # mined + 1
        <5>1. slot'[k] = slot[k] /\ k # mined'
          BY <1>1, <1>2, <4>1, <4>4
        <5> QED
          BY <1>1, <4>2, <5>1 DEF Ready
      <4> QED
        BY <4>3, <4>4
    <3> QED
      BY <1>1, <3>4, <3>5, <3>6
  <2>2. \A d \in Calls : (Busy(d)' <=> Busy(d)) /\ (Direct(d)' <=> Direct(d))
    BY <1>1 DEF Busy, Direct
  <2> QED
    BY <1>1, <2>1, <2>2 DEF NextInv
<1> QED
  BY <1>6, <1>7, <1>8, <1>9, <1>10, <1>11, <1>12, <1>13, <1>14

-----------------------------------------------------------------------------
(* The theorems.                                                           *)

LEMMA NextKeepsInv == IInv /\ [Next]_vars => IInv'
<1> SUFFICES ASSUME IInv, [Next]_vars PROVE IInv'
  OBVIOUS
<1>1. CASE Mine
  BY <1>1, InvMine
<1>2. ASSUME NEW c \in Calls, CallStep(c) PROVE IInv'
  <2>1. CASE ReadAllowance(c)
    BY <2>1, InvRead
  <2>2. CASE CreateData(c)
    BY <2>2, InvData
  <2>3. CASE PrepareFails(c) \/ TransFailed(c)
    BY <2>3, InvFail
  <2>4. CASE PreSendTrans(c)
    BY <2>4, InvPreSend
  <2>5. CASE PostSendTrans(c)
    BY <2>5, InvPostSend
  <2> QED
    BY <1>2, <2>1, <2>2, <2>3, <2>4, <2>5 DEF CallStep
<1>3. ASSUME NEW c \in Calls, MonitorStep(c) PROVE IInv'
  BY <1>3, InvMonitor
<1>4. CASE UNCHANGED vars
  <2>1. UNCHANGED <<call, rec, checks, slot, mined, allowance, disturbed,
                    zeroed, troubles>>
    BY <1>4 DEF vars, chainVars, historyVars
  <2>2. TypeOK' /\ HeldInv' /\ SlotInv' /\ LoneLockIsCovered'
    BY <2>1 DEF IInv, TypeOK, HeldInv, SlotInv, LoneLockIsCovered, Direct
  <2>3. AskedInv' /\ LockInv' /\ StatusInv' /\ AloneInv'
    BY <2>1 DEF IInv, AskedInv, LockInv, StatusInv, AloneInv, Busy, At, Direct
  <2>4. QueueInv' /\ NextInv'
    BY <2>1
       DEF IInv, QueueInv, Follows, NextInv, Queue, Ready, Busy, Direct
  <2> QED
    BY <2>2, <2>3, <2>4 DEF IInv
<1> QED
  BY <1>1, <1>2, <1>3, <1>4 DEF Next

(* The inductive invariant holds of every reachable state of the calls,    *)
(* the monitor and the chain.                                              *)
THEOREM Invariant == Spec => []IInv
<1>1. IInv /\ [Next]_vars => IInv'
  BY NextKeepsInv
<1> QED
  BY InitInv, <1>1, PTL DEF Spec

(* The variables keep their types, and a call's nonce is a slot of its own *)
(* (NonceManager behind createCommonData).                                 *)
THEOREM TypeCorrect == Spec => []TypeOK
<1>1. IInv => TypeOK
  BY DEF IInv
<1> QED
  BY Invariant, <1>1, PTL

(* However many calls an account makes, however they fail and whatever the *)
(* nonces that are reused, approve(0), approve and lock of a call that had *)
(* the account alone are mined in their order, and none is refused.        *)
THEOREM LoneLockCovered == Spec => []LoneLockIsCovered
<1>1. IInv => LoneLockIsCovered
  BY DEF IInv
<1> QED
  BY Invariant, <1>1, PTL

(* The amount that approve(0) puts aside is the one that the lock takes    *)
(* and its record says, unless approve(0) failed and the input was used    *)
(* again.                                                                  *)
THEOREM LocksAsAsked == Spec => []LockedAsAsked
<1>1. IInv => LockedAsAsked
  <2>1. SUFFICES ASSUME IInv, NEW i \in DOMAIN slot, slot[i].step = "lock",
                        slot[i].state \in {"sent", "ok"}
                 PROVE /\ slot[i].value = Amount[slot[i].call]
                            \/ slot[i].call \in zeroed
                       /\ slot[i].value = rec[slot[i].call].value
    BY DEF LockedAsAsked
  <2>2. i \in 1 .. Len(slot)
    BY <2>1 DEF IInv, TypeOK
  <2> QED
    BY <2>1, <2>2 DEF IInv, LockInv
<1> QED
  BY Invariant, <1>1, PTL

(* Whichever step fails, transFailed of an input with a hashX leaves no    *)
(* record as if it was being sent.                                         *)
THEOREM ErrorsRecorded == Spec => []ErrorIsRecorded
<1>1. IInv => ErrorIsRecorded
  <2>1. SUFFICES ASSUME IInv, NEW c \in Calls, At(c, "error"), call[c].own
                 PROVE rec[c].status \notin Sendings
    BY DEF ErrorIsRecorded, Sendings
  <2> QED
    BY <2>1 DEF IInv, StatusInv, At
<1> QED
  BY Invariant, <1>1, PTL

-----------------------------------------------------------------------------
(* The nonces of the account are served as by NonceDesk.                   *)

Having(s, states) == {i - 1 : i \in {j \in DOMAIN s : s[j].state \in states}}
Reached == {"sent", "ok", "reverted"}
Leases == [c \in Calls |-> call[c].nonce - 1]

LEMMA HavingIs ==
  ASSUME NEW s \in Seq(TxTypes), NEW states
  PROVE  Having(s, states)
           = {n \in Nat : n + 1 \in 1 .. Len(s) /\ s[n + 1].state \in states}
<1>1. DOMAIN s = 1 .. Len(s) /\ Len(s) \in Nat
  OBVIOUS
<1>2. ASSUME NEW i \in 1 .. Len(s) PROVE i - 1 \in Nat /\ (i - 1) + 1 = i
  BY <1>1
<1>3. ASSUME NEW n \in Nat PROVE (n + 1) - 1 = n
  OBVIOUS
<1> QED
  BY <1>1, <1>2, <1>3 DEF Having

(* One slot changes its state.                                             *)
LEMMA HavingChanges ==
  ASSUME NEW s \in Seq(TxTypes), NEW t \in Seq(TxTypes), Len(t) = Len(s),
         NEW m \in 1 .. Len(s), NEW states,
         \A i \in 1 .. Len(s) : i # m => t[i] = s[i]
  PROVE  /\ s[m].state \in states <=> m - 1 \in Having(s, states)
         /\ t[m].state \in states => Having(t, states) = Having(s, states) \cup {m - 1}
         /\ t[m].state \notin states => Having(t, states) = Having(s, states) \ {m - 1}
<1>1. m - 1 \in Nat /\ (m - 1) + 1 = m /\ Len(s) \in Nat
  OBVIOUS
<1>2. \A n \in Nat : n + 1 = m <=> n = m - 1
  BY <1>1
<1>3. \A n \in Nat : n # m - 1 => (n \in Having(t, states) <=> n \in Having(s, states))
  BY <1>2, HavingIs
<1>4. /\ s[m].state \in states <=> m - 1 \in Having(s, states)
      /\ t[m].state \in states <=> m - 1 \in Having(t, states)
  BY <1>1, HavingIs
<1>5. Having(s, states) \subseteq Nat /\ Having(t, states) \subseteq Nat
  BY HavingIs
<1> HIDE DEF Having
<1> QED
  BY <1>1, <1>3, <1>4, <1>5

(* A slot is added that has none of the states.                            *)
LEMMA HavingGrows ==
  ASSUME NEW s \in Seq(TxTypes), NEW t \in Seq(TxTypes), Len(t) = Len(s) + 1,
         NEW states, t[Len(t)].state \notin states,
         \A i \in 1 .. Len(s) : t[i] = s[i]
  PROVE  Having(t, states) = Having(s, states)
<1>1. Len(s) \in Nat /\ 1 .. Len(t) = (1 .. Len(s)) \cup {Len(t)}
  OBVIOUS
<1>2. \A n \in Nat : n + 1 = Len(t) \/ n + 1 \in 1 .. Len(s) \/ n + 1 \notin 1 .. Len(t)
  BY <1>1
<1>3. ASSUME NEW n \in Nat
      PROVE  /\ n + 1 \in 1 .. Len(t) /\ t[n + 1].state \in states
             <=> n + 1 \in 1 .. Len(s) /\ s[n + 1].state \in states
  <2>1. CASE n + 1 = Len(t)
    BY <1>1, <2>1
  <2>2. CASE n + 1 \in 1 .. Len(s)
    BY <1>1, <2>2
  <2> QED
    BY <1>1, <1>2, <2>1, <2>2
<1>4. /\ Having(t, states) =
           {n \in Nat : n + 1 \in 1 .. Len(t) /\ t[n + 1].state \in states}
      /\ Having(s, states) =
           {n \in Nat : n + 1 \in 1 .. Len(s) /\ s[n + 1].state \in states}
  BY HavingIs
<1> QED
  BY <1>3, <1>4

LEMMA LeaseWrites ==
  ASSUME NEW c \in Calls, \A d \in Calls : d # c => call'[d] = call[d]
  PROVE  Leases' = [Leases EXCEPT ![c] = call'[c].nonce - 1]
BY DEF Leases

LEMMA LeaseNone ==
  ASSUME TypeOK, NEW c \in Calls
  PROVE  /\ call[c].nonce = 0 <=> Leases[c] = Desk!None
         /\ Leases[c] = call[c].nonce - 1
<1>1. call[c].nonce \in Nat
  BY CallTyped DEF TypeOK
<1> QED
  BY <1>1 DEF Leases, Desk!None

(* The desk as the slots show it.                                          *)
LEMMA DeskView ==
  /\ [a \in {1} |-> NoncesWith({"hole"})] = [a \in {1} |-> Having(slot, {"hole"})]
  /\ [a \in {1} |-> NoncesWith({"sent", "ok", "reverted"})]
       = [a \in {1} |-> Having(slot, Reached)]
  /\ [c \in Calls |-> call[c].nonce - 1] = Leases
  /\ [a \in {1} |-> NoncesWith({"hole"})]' = [a \in {1} |-> Having(slot', {"hole"})]
  /\ [a \in {1} |-> NoncesWith({"sent", "ok", "reverted"})]'
       = [a \in {1} |-> Having(slot', Reached)]
  /\ [c \in Calls |-> call[c].nonce - 1]' = Leases'
  /\ [a \in {1} |-> Len(slot) - 1]' = [a \in {1} |-> Len(slot') - 1]
BY DEF NoncesWith, Having, Reached, Leases

LEMMA DeskQuiet ==
  ASSUME UNCHANGED Leases, Len(slot') = Len(slot),
         Having(slot', {"hole"}) = Having(slot, {"hole"}),
         Having(slot', Reached) = Having(slot, Reached)
  PROVE  UNCHANGED Desk!deskVars
BY DeskView DEF Desk!deskVars

(* A hole that is leased, and a lease that ends with a hole or at the node. *)
LEMMA RefillIs ==
  ASSUME NEW c \in Calls, NEW m \in Having(slot, {"hole"}), Leases[c] = Desk!None,
         Leases' = [Leases EXCEPT ![c] = m], Len(slot') = Len(slot),
         Having(slot', {"hole"}) = Having(slot, {"hole"}) \ {m},
         Having(slot', Reached) = Having(slot, Reached)
  PROVE  Desk!Refill(c, 1)
<1> DEFINE free == [a \in {1} |-> Having(slot, {"hole"})]
           next == [a \in {1} |-> Having(slot', {"hole"})]
<1>1. Desk!Give(c, m)
  BY DeskView DEF Desk!Give
<1>2. m \in free[1] /\ next = [free EXCEPT ![1] = @ \ {m}]
  OBVIOUS
<1> HIDE DEF free, next
<1>3. \E n \in free[1] : Desk!Give(c, n) /\ next = [free EXCEPT ![1] = @ \ {n}]
  BY <1>1, <1>2
<1>4. [a \in {1} |-> Having(slot, {"hole"})] = free
      /\ [a \in {1} |-> Having(slot', {"hole"})] = next
  BY DEF free, next
<1>5. /\ [a \in {1} |-> NoncesWith({"sent", "ok", "reverted"})]'
           = [a \in {1} |-> NoncesWith({"sent", "ok", "reverted"})]
      /\ [a \in {1} |-> Len(slot) - 1]' = [a \in {1} |-> Len(slot) - 1]
  BY DeskView
<1>6. [a \in {1} |-> NoncesWith({"hole"})] = free
      /\ [a \in {1} |-> NoncesWith({"hole"})]' = next
  BY <1>4, DeskView
<1> QED
  BY <1>3, <1>5, <1>6 DEF Desk!Refill

LEMMA EndIs ==
  ASSUME NEW c \in Calls, Leases[c] # Desk!None,
         Leases' = [Leases EXCEPT ![c] = Desk!None], Len(slot') = Len(slot)
  PROVE  /\ /\ Having(slot', {"hole"}) = Having(slot, {"hole"}) \cup {Leases[c]}
            /\ Having(slot', Reached) = Having(slot, Reached)
            => Desk!Return(c, 1)
         /\ /\ Having(slot', {"hole"}) = Having(slot, {"hole"})
            /\ Having(slot', Reached) = Having(slot, Reached) \cup {Leases[c]}
            => Desk!Spend(c, 1)
<1>1. Desk!TakeBack(c)
  BY DeskView DEF Desk!TakeBack
<1> QED
  BY <1>1, DeskView DEF Desk!Return, Desk!Spend

LEMMA ReachedStates ==
  /\ "sent" \in Reached /\ "ok" \in Reached /\ "reverted" \in Reached
  /\ "taken" \notin Reached /\ "hole" \notin Reached
BY DEF Reached

LEMMA DeskServes ==
  ASSUME NEW c \in Calls, Desk!Serve(c, 1) PROVE Desk!Next
<1>1. [d \in Calls |-> 1][c] = 1
  OBVIOUS
<1> QED
  BY <1>1 DEF Desk!Next

(* createCommonData takes the first hole, or the next nonce.               *)
LEMMA DataServes ==
  ASSUME IInv, NEW c \in Calls, CreateData(c)
  PROVE  [Desk!Next]_(Desk!deskVars)
<1> DEFINE n == call'[c].nonce
<1> USE DeskView DEF IInv
<1>1. /\ slot' \in Seq(TxTypes) /\ slot \in Seq(TxTypes)
      /\ Len(slot) \in Nat /\ call[c].nonce = 0
  <2>1. slot' \in Seq(TxTypes) /\ call[c].nonce = 0
    BY DataSlot
  <2> QED
    BY <2>1 DEF TypeOK
<1>2. Leases' = [Leases EXCEPT ![c] = n - 1]
  <2>1. \A d \in Calls : d # c => call'[d] = call[d]
    BY DataWrites
  <2> QED
    BY <2>1, LeaseWrites
<1>3. Leases[c] = Desk!None
  BY <1>1, LeaseNone
<1>4. CASE Direct(c)
  <2>1. n = 0 /\ slot' = slot
    BY <1>4, DataSlot, DataWrites
  <2>2. UNCHANGED Leases
    BY <1>1, <1>2, <2>1, LeaseNone DEF Leases
  <2> QED
    BY <2>1, <2>2, DeskQuiet
<1>5. CASE ~ Direct(c)
  <2>1. /\ n = NextNonce /\ n \in 1 .. Len(slot') /\ slot'[n].state = "taken"
        /\ Take([call |-> c, step |-> call[c].step, value |-> call[c].input,
                 state |-> "taken"])
    BY <1>5, DataSlot, DataWrites
  <2>2. \A i \in 1 .. Len(slot) : i # n => slot'[i] = slot[i]
    BY DataSlot
  <2> HIDE DEF n
  <2>3. CASE Holes = {}
    <3>1. Len(slot') = Len(slot) + 1 /\ n = Len(slot) + 1
      BY <1>1, <2>1, <2>3 DEF Take, NextNonce
    <3>2. \A i \in 1 .. Len(slot) : slot'[i] = slot[i]
      BY <1>1, <2>2, <3>1
    <3>3. /\ Having(slot', {"hole"}) = Having(slot, {"hole"})
          /\ Having(slot', Reached) = Having(slot, Reached)
      BY <1>1, <2>1, <3>1, <3>2, HavingGrows, ReachedStates
    <3>4. Having(slot, {"hole"}) = {}
      BY <2>3 DEF Having, Holes
    <3>5. n - 1 = (Len(slot) - 1) + 1 /\ Len(slot') - 1 = (Len(slot) - 1) + 1
      BY <1>1, <3>1
    <3>6. Desk!Issue(c, 1)
      BY <1>2, <1>3, <3>3, <3>4, <3>5 DEF Desk!Issue, Desk!Give
    <3> QED
      BY <3>6, DeskServes DEF Desk!Serve
  <2>4. CASE Holes # {}
    <3>1. /\ Len(slot') = Len(slot) /\ n \in 1 .. Len(slot)
          /\ slot[n].state = "hole"
      BY <1>1, <2>1, <2>4, NextNonceFacts DEF Take
    <3>2. /\ n - 1 \in Having(slot, {"hole"})
          /\ Having(slot', {"hole"}) = Having(slot, {"hole"}) \ {n - 1}
      BY <1>1, <2>1, <2>2, <3>1, HavingChanges
    <3>3. Having(slot', Reached) = Having(slot, Reached)
      <4>1. n - 1 \notin Having(slot, Reached)
        BY <1>1, <2>1, <2>2, <3>1, HavingChanges, ReachedStates
      <4>2. Having(slot', Reached) = Having(slot, Reached) \ {n - 1}
        BY <1>1, <2>1, <2>2, <3>1, HavingChanges, ReachedStates
      <4> QED
        BY <4>1, <4>2
    <3>4. Desk!Refill(c, 1)
      BY <1>2, <1>3, <3>1, <3>2, <3>3, RefillIs
    <3> QED
      BY <3>4, DeskServes DEF Desk!Serve
  <2> QED
    BY <2>3, <2>4
<1> QED
  BY <1>4, <1>5

(* A step that fails gives the nonce back, if it has one.                  *)
LEMMA FailServes ==
  ASSUME IInv, NEW c \in Calls, PrepareFails(c) \/ TransFailed(c)
  PROVE  [Desk!Next]_(Desk!deskVars)
<1> DEFINE n == call[c].nonce
<1> USE DeskView DEF IInv
<1>1. Leases' = [Leases EXCEPT ![c] = Desk!None] /\ Leases[c] = n - 1
  <2>1. call'[c].nonce = 0 /\ \A d \in Calls : d # c => call'[d] = call[d]
    BY FailWrites
  <2> QED
    BY <2>1, LeaseWrites, LeaseNone DEF Desk!None
<1>2. /\ AddNonceHole(n) /\ slot \in Seq(TxTypes) /\ slot' \in Seq(TxTypes)
      /\ Len(slot') = Len(slot)
  BY FailWrites, FailHole DEF TypeOK
<1>3. CASE n = 0
  <2>1. slot' = slot
    BY <1>2, <1>3 DEF AddNonceHole
  <2>2. UNCHANGED Leases
    BY <1>1, <1>3, LeaseNone DEF Leases
  <2> QED
    BY <2>1, <2>2, DeskQuiet
<1>4. CASE n # 0
  <2>1. n \in 1 .. Len(slot) /\ slot[n].state = "taken"
    BY <1>4, HeldSlot
  <2>2. slot'[n].state = "hole" /\ \A i \in 1 .. Len(slot) : i # n => slot'[i] = slot[i]
    BY <1>2, <2>1, FailHole
  <2>3. Leases[c] # Desk!None
    BY <1>4, LeaseNone
  <2> HIDE DEF n
  <2>4. Having(slot', {"hole"}) = Having(slot, {"hole"}) \cup {n - 1}
    BY <1>2, <2>1, <2>2, HavingChanges
  <2>5. n - 1 \notin Having(slot, Reached)
    BY <1>2, <2>1, <2>2, HavingChanges, ReachedStates
  <2>6. Having(slot', Reached) = Having(slot, Reached) \ {n - 1}
    BY <1>2, <2>1, <2>2, HavingChanges, ReachedStates
  <2> HIDE DeskView DEF IInv
  <2>7. Desk!Return(c, 1)
    BY <1>1, <1>2, <2>3, <2>4, <2>5, <2>6, EndIs
  <2> QED
    BY <2>7, DeskServes DEF Desk!Serve
<1> QED
  BY <1>3, <1>4

(* The node takes the transaction of the nonce.                            *)
LEMMA SendServes ==
  ASSUME IInv, NEW c \in Calls, PostSendTrans(c)
  PROVE  [Desk!Next]_(Desk!deskVars)
<1> DEFINE n == call[c].nonce
<1> USE DeskView DEF IInv
<1>1. Leases' = [Leases EXCEPT ![c] = Desk!None] /\ Leases[c] = n - 1
  <2>1. call'[c].nonce = 0 /\ \A d \in Calls : d # c => call'[d] = call[d]
    BY PostSendWrites
  <2> QED
    BY <2>1, LeaseWrites, LeaseNone DEF Desk!None
<1>2. /\ slot \in Seq(TxTypes) /\ slot' \in Seq(TxTypes) /\ Len(slot') = Len(slot)
  BY SendSlot DEF TypeOK
<1>3. CASE Direct(c)
  <2>1. n = 0 /\ slot' = slot
    BY <1>3, PostSendWrites DEF HeldInv
  <2>2. UNCHANGED Leases
    BY <1>1, <2>1, LeaseNone DEF Leases
  <2> QED
    BY <2>1, <2>2, DeskQuiet
<1>4. CASE ~ Direct(c)
  <2>1. /\ n \in 1 .. Len(slot) /\ slot[n].state = "taken" /\ slot'[n].state = "sent"
        /\ \A i \in 1 .. Len(slot) : i # n => slot'[i] = slot[i]
    BY <1>4, SendSlot
  <2>2. Leases[c] # Desk!None
    BY <1>2, <2>1, LeaseNone
  <2> HIDE DEF n
  <2>3. Having(slot', Reached) = Having(slot, Reached) \cup {n - 1}
    BY <1>2, <2>1, HavingChanges, ReachedStates
  <2>4. n - 1 \notin Having(slot, {"hole"})
    BY <1>2, <2>1, HavingChanges
  <2>5. Having(slot', {"hole"}) = Having(slot, {"hole"}) \ {n - 1}
    BY <1>2, <2>1, HavingChanges
  <2> HIDE DeskView DEF IInv
  <2>6. Desk!Spend(c, 1)
    BY <1>1, <1>2, <2>2, <2>3, <2>4, <2>5, EndIs
  <2> QED
    BY <2>6, DeskServes DEF Desk!Serve
<1> QED
  BY <1>3, <1>4

(* What the chain, the monitor and the other steps do, no desk notices.    *)
LEMMA OthersAreQuiet ==
  ASSUME IInv,
         \/ Mine \/ UNCHANGED vars
         \/ \E c \in Calls : MonitorStep(c) \/ ReadAllowance(c) \/ PreSendTrans(c)
  PROVE  UNCHANGED Desk!deskVars
<1> USE DEF IInv
<1>1. CASE Mine
  <2>1. /\ slot \in Seq(TxTypes) /\ slot' \in Seq(TxTypes) /\ Len(slot') = Len(slot)
        /\ mined + 1 \in 1 .. Len(slot) /\ slot[mined + 1].state = "sent"
        /\ slot'[mined + 1].state \in {"ok", "reverted"}
        /\ \A i \in 1 .. Len(slot) : i # mined + 1 => slot'[i] = slot[i]
        /\ UNCHANGED call
    BY <1>1, MineFacts DEF TypeOK
  <2> DEFINE m == mined + 1
  <2>m. /\ m \in 1 .. Len(slot) /\ slot[m].state = "sent"
        /\ slot'[m].state \in {"ok", "reverted"}
        /\ \A i \in 1 .. Len(slot) : i # m => slot'[i] = slot[i]
    BY <2>1
  <2> HIDE DEF m
  <2>r. /\ slot[m].state \in Reached /\ slot'[m].state \in Reached
        /\ slot[m].state \notin {"hole"} /\ slot'[m].state \notin {"hole"}
    BY <2>m, ReachedStates
  <2>a. m - 1 \in Having(slot, Reached) /\ m - 1 \notin Having(slot, {"hole"})
    BY <2>1, <2>m, <2>r, HavingChanges
  <2>b. Having(slot', Reached) = Having(slot, Reached) \cup {m - 1}
    BY <2>1, <2>m, <2>r, HavingChanges
  <2>c. Having(slot', {"hole"}) = Having(slot, {"hole"}) \ {m - 1}
    BY <2>1, <2>m, <2>r, HavingChanges
  <2>2. /\ m - 1 \in Having(slot, Reached) /\ m - 1 \notin Having(slot, {"hole"})
        /\ Having(slot', Reached) = Having(slot, Reached) \cup {m - 1}
        /\ Having(slot', {"hole"}) = Having(slot, {"hole"}) \ {m - 1}
    BY <2>a, <2>b, <2>c
  <2>3. UNCHANGED Leases
    BY <2>1 DEF Leases
  <2> QED
    BY <2>1, <2>2, <2>3, DeskQuiet
<1>2. ASSUME UNCHANGED slot, \A d \in Calls : call'[d].nonce = call[d].nonce
      PROVE  UNCHANGED Desk!deskVars
  BY <1>2, DeskQuiet DEF Leases
<1>3. ASSUME NEW c \in Calls, MonitorStep(c) PROVE UNCHANGED <<slot, call>>
  BY <1>3, MonitorWrites
<1>4. ASSUME NEW c \in Calls, ReadAllowance(c)
      PROVE  UNCHANGED slot /\ \A d \in Calls : call'[d].nonce = call[d].nonce
  BY <1>4, ReadWrites DEF HeldInv
<1>5. ASSUME NEW c \in Calls, PreSendTrans(c)
      PROVE  UNCHANGED slot /\ \A d \in Calls : call'[d].nonce = call[d].nonce
  BY <1>5, PreSendWrites
<1>6. CASE UNCHANGED vars
  BY <1>2, <1>6 DEF vars
<1> QED
  BY <1>1, <1>2, <1>3, <1>4, <1>5, <1>6

LEMMA LocksStartAsDesk == Init => Desk!Init
<1>1. SUFFICES ASSUME Init PROVE Desk!Init
  OBVIOUS
<1>2. slot = <<>> /\ Len(slot) - 1 = Desk!None
  BY <1>1 DEF Init, Desk!None
<1>3. Having(slot, {"hole"}) = {} /\ Having(slot, Reached) = {}
  BY <1>2 DEF Having
<1>4. Leases = [c \in Calls |-> Desk!None]
  <2>1. \A c \in Calls : call[c].nonce = 0
    BY <1>1 DEF Init
  <2> QED
    BY <2>1 DEF Leases, Desk!None
<1> QED
  BY <1>2, <1>3, <1>4, DeskView DEF Desk!Init

LEMMA LocksStepAsDesk == IInv /\ [Next]_vars => [Desk!Next]_(Desk!deskVars)
<1>1. SUFFICES ASSUME IInv, [Next]_vars PROVE [Desk!Next]_(Desk!deskVars)
  OBVIOUS
<1>2. ASSUME NEW c \in Calls, CallStep(c) PROVE [Desk!Next]_(Desk!deskVars)
  BY <1>1, <1>2, DataServes, FailServes, SendServes, OthersAreQuiet DEF CallStep
<1> QED
  BY <1>1, <1>2, OthersAreQuiet DEF Next

(* ApproveLock implements NonceDesk with careful holders: of a nonce there *)
(* is one, and whichever step of a lock fails, it is handed out again.     *)
THEOREM LocksServeAsDesk == Spec => ServesAsDesk
<1> QED
  BY LocksStartAsDesk, LocksStepAsDesk, Invariant, PTL
     DEF Spec, ServesAsDesk, Desk!Spec

-----------------------------------------------------------------------------
(* What NonceDeskProofs shows of every desk, for the account of the locks. *)

Served == INSTANCE NonceDeskProofs
            WITH Accounts <- {1}, Account <- [c \in Calls |-> 1],
                 Holders <- Calls, Careless <- {},
                 top <- [a \in {1} |-> Len(slot) - 1],
                 free <- [a \in {1} |-> NoncesWith({"hole"})],
                 lease <- [c \in Calls |-> call[c].nonce - 1],
                 node <- [a \in {1} |-> NoncesWith({"sent", "ok", "reverted"})]

LEMMA SameDesk ==
  /\ Desk!Init => Served!Init
  /\ [Desk!Next]_(Desk!deskVars) => [Served!Next]_(Served!deskVars)
BY DEF Desk!Init, Served!Init, Desk!Next, Served!Next, Desk!Serve,
       Served!Serve, Desk!Refill, Served!Refill, Desk!Issue, Served!Issue,
       Desk!CatchUp, Served!CatchUp, Desk!Return, Served!Return, Desk!Lose,
       Served!Lose, Desk!Spend, Served!Spend, Desk!Arrive, Served!Arrive,
       Desk!Close, Served!Close, Desk!Give, Served!Give, Desk!TakeBack,
       Served!TakeBack, Desk!None, Served!None, Desk!deskVars,
       Served!deskVars

LEMMA SameMissing == Served!NothingMissing => NoNonceIsMissing
BY DEF Served!NothingMissing, NoNonceIsMissing, Desk!NothingMissing

(* Whatever fails, every nonce up to the last is at the node, with a call  *)
(* that runs, or a hole for the next call: none blocks the account.        *)
THEOREM NoNonceMissing == Spec => []NoNonceIsMissing
<1>0. [c \in Calls |-> 1] \in [Calls -> {1}]
  OBVIOUS
<1>1. Init => Served!DeskInv /\ Served!NothingMissing
  <2>1. Served!Init => Served!DeskInv
    BY Served!DeskInit
  <2>2. Served!Init => Served!NothingMissing
    BY DEF Served!Init, Served!NothingMissing, Served!None
  <2> QED
    BY <2>1, <2>2, SameDesk, LocksStartAsDesk
<1>2. Served!DeskInv /\ Served!NothingMissing /\ IInv /\ [Next]_vars
        => (Served!DeskInv /\ Served!NothingMissing)'
  <2>1. IInv /\ [Next]_vars => [Served!Next]_(Served!deskVars)
    BY SameDesk, LocksStepAsDesk
  <2> QED
    BY <1>0, <2>1, Served!DeskStep, Served!MissingStep
<1> QED
  BY <1>1, <1>2, Invariant, SameMissing, PTL DEF Spec
=============================================================================
