---------------------------- MODULE NormalProofs ----------------------------
(***************************************************************************)
(* Proofs about NormalTx: its types, that a call recorded as failed left   *)
(* nothing on the chain, that an OTA marked as refunded is spent, and that *)
(* NormalTx implements TxReport, for any calls of any classes, tries,      *)
(* failures, closings and crashes.                                         *)
(***************************************************************************)
EXTENDS NormalTx, TLAPS

PC(c) == call[c].pc

CallTyped == call \in [Calls -> [pc: Pcs, tries: 0 .. TryTimes]]
RecordTyped ==
  /\ open \in BOOLEAN
  /\ mem \in [Calls -> Records] /\ file \in [Calls -> Records]
CheckTyped == checks \in [Calls -> SUBSET Checks]
NodeTyped ==
  /\ chain \in [Calls -> {"none", "pool", "mined", "reverted"}]
  /\ given \subseteq Calls /\ lost \subseteq Calls /\ unread \subseteq Calls
OtaTyped == ota \in [Otas -> {"Found", "Refund"}] /\ spent \subseteq Otas
CountTyped == troubles \in 0 .. MaxTroubles

LEMMA TypeGroups ==
  TypeOK <=> CallTyped /\ RecordTyped /\ CheckTyped /\ NodeTyped /\ OtaTyped
             /\ CountTyped
BY DEF TypeOK, CallTyped, RecordTyped, CheckTyped, NodeTyped, OtaTyped,
       CountTyped

LEMMA TypeGroupsNext ==
  ASSUME CallTyped', RecordTyped', CheckTyped', NodeTyped', OtaTyped',
         CountTyped'
  PROVE  TypeOK'
BY DEF TypeOK, CallTyped, RecordTyped, CheckTyped, NodeTyped, OtaTyped,
       CountTyped

(* A call that may send has a try left.                                    *)
TryLeft ==
  \A c \in Calls :
    PC(c) \in {"idle", "ready", "sending", "taken"} => call[c].tries < TryTimes
CallGood == CallTyped /\ TryLeft

(* A call has nothing at the node before it is taken and after it gave up, *)
(* and only a call that ended gave its nonce back.                         *)
NotYet == {"idle", "ready", "sending", "failing"}
NotSent ==
  \A c \in Calls :
    /\ c \notin lost /\ PC(c) \in NotYet => chain[c] = "none"
    /\ c \notin lost /\ c \in given => chain[c] = "none"
    /\ c \in given => PC(c) = "error"

(* A record that failed, in memory or in the file, reverted or was never   *)
(* at the node and never will be.                                          *)
FailedFine(db) ==
  \A c \in Calls :
    c \notin lost /\ db[c].status = "Failed"
      => chain[c] = "reverted" \/ (chain[c] = "none" /\ PC(c) = "error")
FailedGood == FailedFine(mem) /\ FailedFine(file)

(* A check that has a receipt of success is about a mined transaction, and *)
(* a mined refund spent its OTA.                                           *)
BlockIsMined ==
  \A c \in Calls : HasBlockCheck(c) => chain[c] = "mined"
MinedIsSpent ==
  \A c \in Calls : IsRefund(c) /\ chain[c] = "mined" => OtaTx[c] \in spent
OtaGood == BlockIsMined /\ MinedIsSpent /\ RefundIsSpent

CallSide == CallGood /\ NotSent
RecordSide == RecordTyped /\ FailedGood
OtaSide == CheckTyped /\ OtaTyped /\ OtaGood
Inv == CallSide /\ RecordSide /\ OtaSide /\ NodeTyped /\ CountTyped

-----------------------------------------------------------------------------
(* What the steps of a call do to it.                                      *)

Moves(c, p) ==
  \A d \in Calls : PC(d)' = IF d = c THEN p ELSE PC(d)

LEMMA GotoMoves ==
  ASSUME CallGood, NEW c \in Calls, NEW p \in Pcs, Goto(c, p),
         p \in {"error", "ok", "failing"}
           \/ PC(c) \in {"idle", "ready", "sending", "taken"}
  PROVE  CallGood' /\ Moves(c, p)
<1>1. call' \in [Calls -> [pc: Pcs, tries: 0 .. TryTimes]]
  BY DEF CallGood, CallTyped, Goto
<1>2. \A d \in Calls : call'[d].pc = IF d = c THEN p ELSE call[d].pc
  BY DEF CallGood, CallTyped, Goto
<1>3. \A d \in Calls : call'[d].tries = call[d].tries
  BY DEF CallGood, CallTyped, Goto
<1>4. TryLeft'
  BY <1>2, <1>3 DEF CallGood, TryLeft, PC
<1> QED BY <1>1, <1>2, <1>4 DEF CallGood, CallTyped, Moves, PC

LEMMA RetryMoves ==
  ASSUME CallGood, NEW c \in Calls, PC(c) \in {"sending", "taken"}, Retry(c)
  PROVE  CallGood' /\ \E p \in {"sending", "failing"} : Moves(c, p)
<1>1. TryTimes \in Nat /\ call[c].tries \in 0 .. TryTimes
  BY NormalAssumption DEF CallGood, CallTyped
<1>2. call[c].tries < TryTimes
  BY DEF CallGood, TryLeft
<1> DEFINE p == IF call[c].tries + 1 < TryTimes THEN "sending" ELSE "failing"
<1>3. call' = [call EXCEPT ![c] = [pc |-> p, tries |-> call[c].tries + 1]]
  BY DEF Retry
<1>4. p \in {"sending", "failing"} /\ p \in Pcs
  BY DEF Pcs
<1>5. call[c].tries + 1 \in 0 .. TryTimes
  BY <1>1, <1>2
<1>6. p = "sending" => call[c].tries + 1 < TryTimes
  OBVIOUS
<1> HIDE DEF p
<1>7. call' \in [Calls -> [pc: Pcs, tries: 0 .. TryTimes]]
  BY <1>3, <1>4, <1>5 DEF CallGood, CallTyped
<1>8. \A d \in Calls : d # c => call'[d] = call[d]
  BY <1>3 DEF CallGood, CallTyped
<1>9. call'[c].pc = p /\ call'[c].tries = call[c].tries + 1
  BY <1>3 DEF CallGood, CallTyped
<1>10. Moves(c, p)
  BY <1>8, <1>9 DEF Moves, PC
<1>11. TryLeft'
  BY <1>4, <1>6, <1>8, <1>9 DEF CallGood, TryLeft, PC
<1> QED BY <1>4, <1>7, <1>10, <1>11 DEF CallGood, CallTyped

(* A write of the record of c that is fine leaves both copies fine.        *)
LEMMA WriteGood ==
  ASSUME RecordTyped, NEW c \in Calls, NEW rec \in Records, Write(c, rec),
         UNCHANGED open
  PROVE  /\ RecordTyped'
         /\ mem' = file'
         /\ \A d \in Calls : mem'[d] = IF d = c THEN rec ELSE mem[d]
BY DEF RecordTyped, Write

LEMMA RecordIsTyped ==
  ASSUME NEW st \in Statuses, NEW b \in BOOLEAN
  PROVE  Record(st, b) \in Records /\ Record(st, b).status = st
BY DEF Record, Records

LEMMA StatusIsTyped ==
  ASSUME RecordTyped, NEW c \in Calls, NEW st \in Statuses
  PROVE  /\ [mem[c] EXCEPT !.status = st] \in Records
         /\ [mem[c] EXCEPT !.status = st].status = st
BY DEF RecordTyped, Records

LEMMA GiveBackGood ==
  ASSUME NEW c \in Calls, NodeTyped, GiveBack(c)
  PROVE  given' \subseteq Calls /\ given' \subseteq given \cup {c}
BY DEF GiveBack, NodeTyped

-----------------------------------------------------------------------------
(* What a step leaves alone keeps what it was.                             *)

LEMMA CallKept ==
  ASSUME CallSide, UNCHANGED <<runVars, chain, lost>>
  PROVE  CallSide'
BY DEF CallSide, CallGood, CallTyped, TryLeft, NotSent, PC, runVars

LEMMA OtaKept ==
  ASSUME OtaSide, UNCHANGED <<checks, ota, chain, spent>>
  PROVE  OtaSide'
BY DEF OtaSide, CheckTyped, OtaTyped, OtaGood, BlockIsMined, MinedIsSpent,
       RefundIsSpent, HasBlockCheck

(* Nothing a failed record relies on is taken back.                        *)
Onward ==
  \A c \in Calls :
    c \notin lost' =>
      /\ c \notin lost
      /\ chain[c] = "reverted" => chain'[c] = "reverted"
      /\ chain[c] = "none" /\ PC(c) = "error"
           => chain'[c] = "none" /\ PC(c)' = "error"

LEMMA RecordKept ==
  ASSUME RecordSide, Onward, UNCHANGED <<open, recordVars>>
  PROVE  RecordSide'
BY DEF RecordSide, RecordTyped, FailedGood, FailedFine, Onward, recordVars

LEMMA RecordWritten ==
  ASSUME RecordSide, Onward, UNCHANGED open,
         NEW c \in Calls, NEW rec \in Records, Write(c, rec),
         c \notin lost' /\ rec.status = "Failed" =>
           chain'[c] = "reverted" \/ (chain'[c] = "none" /\ PC(c)' = "error")
  PROVE  RecordSide'
<1>1. RecordTyped' /\ mem' = file'
  BY WriteGood DEF RecordSide
<1>2. \A d \in Calls : mem'[d] = IF d = c THEN rec ELSE mem[d]
  BY WriteGood DEF RecordSide
<1>3. FailedFine(mem)'
  BY <1>2 DEF RecordSide, FailedGood, FailedFine, Onward
<1> QED BY <1>1, <1>3 DEF RecordSide, FailedGood, FailedFine

LEMMA OnwardKept ==
  ASSUME UNCHANGED <<call, chain, lost>> PROVE Onward
BY DEF Onward, PC

LEMMA OnwardMoves ==
  ASSUME NEW c \in Calls, NEW p, Moves(c, p), PC(c) # "error",
         UNCHANGED <<chain, lost>>
  PROVE  Onward
BY DEF Onward, Moves

(* A call that moves before or after the node, and gives nothing back      *)
(* unless it ends.                                                         *)
LEMMA CallMoved ==
  ASSUME CallSide, NEW c \in Calls, NEW p \in Pcs, Goto(c, p),
         PC(c) \in {"idle", "ready", "sending", "taken", "failing"},
         p \in NotYet => PC(c) \in NotYet,
         p \in {"error", "ok", "failing"} \/ PC(c) # "failing",
         UNCHANGED <<given, chain, lost>>
  PROVE  CallSide' /\ Onward
<1>1. CallGood' /\ Moves(c, p)
  BY GotoMoves DEF CallSide
<1>2. NotSent'
  BY <1>1 DEF CallSide, NotSent, Moves, NotYet
<1>3. Onward
  BY <1>1, OnwardMoves
<1> QED BY <1>1, <1>2, <1>3 DEF CallSide

LEMMA CallGaveBack ==
  ASSUME CallSide, NodeTyped, NEW c \in Calls, Goto(c, "error"),
         PC(c) \in NotYet, GiveBack(c), UNCHANGED <<chain, lost>>
  PROVE  CallSide' /\ Onward /\ PC(c)' = "error"
<1>1. CallGood' /\ Moves(c, "error")
  BY GotoMoves DEF CallSide, Pcs
<1>2. given' \subseteq given \cup {c}
  BY GiveBackGood
<1>3. NotSent'
  BY <1>1, <1>2 DEF CallSide, NotSent, Moves, NotYet
<1>4. Onward
  BY <1>1, OnwardMoves DEF NotYet
<1> QED BY <1>1, <1>3, <1>4 DEF CallSide, Moves

-----------------------------------------------------------------------------
(* The steps of run().                                                     *)
Good == CallSide' /\ RecordSide' /\ OtaSide' /\ NodeTyped' /\ CountTyped'

LEMMA RefusedGood ==
  ASSUME Inv, NEW c \in Calls, Refused(c) \/ Prepare(c) PROVE Good
<1>1. PICK p \in {"error", "ready"} : Goto(c, p)
  BY DEF Refused, Prepare
<1>2. PC(c) = "idle" /\ UNCHANGED <<open, given, recordVars, checks, ota,
                                   nodeVars, unread, troubles>>
  BY DEF Refused, Prepare, At, PC
<1>3. CallSide' /\ Onward
  BY <1>1, <1>2, CallMoved DEF Inv, NotYet, Pcs, nodeVars
<1>4. RecordSide'
  BY <1>2, <1>3, RecordKept DEF Inv
<1>5. OtaSide'
  BY <1>2, OtaKept DEF Inv, nodeVars
<1> QED BY <1>2, <1>3, <1>4, <1>5 DEF Inv, Good, NodeTyped, CountTyped, nodeVars

LEMMA PrepareFailsGood ==
  ASSUME Inv, NEW c \in Calls, PrepareFails(c) PROVE Good
<1>1. PC(c) = "idle" /\ Goto(c, "error") /\ GiveBack(c)
      /\ UNCHANGED <<open, recordVars, checks, ota, nodeVars, unread, troubles>>
  BY DEF PrepareFails, At, PC
<1>2. CallSide' /\ Onward
  BY <1>1, CallGaveBack DEF Inv, NotYet, nodeVars
<1>3. RecordSide'
  BY <1>1, <1>2, RecordKept DEF Inv
<1>4. OtaSide'
  BY <1>1, OtaKept DEF Inv, nodeVars
<1>5. NodeTyped'
  BY <1>1, GiveBackGood DEF Inv, NodeTyped, nodeVars
<1> QED BY <1>1, <1>2, <1>3, <1>4, <1>5 DEF Inv, Good, CountTyped

LEMMA PreSendTransGood ==
  ASSUME Inv, NEW c \in Calls, PreSendTrans(c) PROVE Good
<1>1. PC(c) = "ready" /\ UNCHANGED <<open, checks, ota, nodeVars, unread,
                                    troubles>>
  BY DEF PreSendTrans, At, PC
<1>2. OtaSide'
  BY <1>1, OtaKept DEF Inv, nodeVars
<1>3. CASE open
  <2>1. Write(c, Record("Sending", FALSE)) /\ Goto(c, "sending")
        /\ UNCHANGED given
    BY <1>3 DEF PreSendTrans
  <2>2. CallSide' /\ Onward
    BY <1>1, <2>1, CallMoved DEF Inv, NotYet, Pcs, nodeVars
  <2>3. /\ Record("Sending", FALSE) \in Records
        /\ Record("Sending", FALSE).status = "Sending"
    BY RecordIsTyped DEF Statuses
  <2>4. RecordSide'
    BY <1>1, <2>1, <2>2, <2>3, RecordWritten DEF Inv
  <2> QED BY <1>1, <1>2, <2>1, <2>2, <2>4 DEF Inv, Good, NodeTyped, CountTyped,
                                             nodeVars
<1>4. CASE ~ open
  <2>1. Goto(c, "error") /\ GiveBack(c) /\ UNCHANGED recordVars
    BY <1>4 DEF PreSendTrans
  <2>2. CallSide' /\ Onward
    BY <1>1, <2>1, CallGaveBack DEF Inv, NotYet, nodeVars
  <2>3. RecordSide'
    BY <1>1, <2>1, <2>2, RecordKept DEF Inv
  <2>4. NodeTyped'
    BY <1>1, <2>1, GiveBackGood DEF Inv, NodeTyped, nodeVars
  <2> QED BY <1>1, <1>2, <2>2, <2>3, <2>4 DEF Inv, Good, CountTyped
<1> QED BY <1>3, <1>4

LEMMA NodeTakesGood ==
  ASSUME Inv, NEW c \in Calls, NodeTakes(c) PROVE Good
<1>1. /\ PC(c) = "sending" /\ chain[c] = "none" /\ Goto(c, "taken")
      /\ chain' = [chain EXCEPT ![c] = "pool"]
      /\ UNCHANGED <<open, given, recordVars, checks, ota, spent, lost, unread,
                     troubles>>
  BY DEF NodeTakes, At, PC
<1>2. CallGood' /\ Moves(c, "taken")
  BY <1>1, GotoMoves DEF Inv, CallSide, Pcs
<1>3. \A d \in Calls : chain'[d] = IF d = c THEN "pool" ELSE chain[d]
  BY <1>1 DEF Inv, NodeTyped
<1>4. NotSent'
  BY <1>1, <1>2, <1>3 DEF Inv, CallSide, NotSent, Moves, NotYet
<1>5. Onward
  BY <1>1, <1>2, <1>3 DEF Onward, Moves
<1>6. RecordSide'
  BY <1>1, <1>5, RecordKept DEF Inv
<1>7. OtaSide'
  <2>1. CheckTyped' /\ OtaTyped' /\ RefundIsSpent'
    BY <1>1 DEF Inv, OtaSide, OtaGood, CheckTyped, OtaTyped, RefundIsSpent
  <2>2. BlockIsMined' /\ MinedIsSpent'
    BY <1>1, <1>3 DEF Inv, OtaSide, OtaGood, BlockIsMined, MinedIsSpent,
                      HasBlockCheck
  <2> QED BY <2>1, <2>2 DEF OtaSide, OtaGood
<1>8. NodeTyped'
  BY <1>1 DEF Inv, NodeTyped
<1> QED BY <1>1, <1>2, <1>4, <1>6, <1>7, <1>8 DEF Inv, Good, CallSide, CountTyped

LEMMA NodeKnowsGood ==
  ASSUME Inv, NEW c \in Calls, NodeKnows(c) PROVE Good
<1>1. /\ PC(c) = "sending" /\ chain[c] # "none" /\ Retry(c)
      /\ UNCHANGED <<open, given, recordVars, checks, ota, nodeVars, unread,
                     troubles>>
  BY DEF NodeKnows, At, PC
<1>2. CallGood' /\ \E p \in {"sending", "failing"} : Moves(c, p)
  BY <1>1, RetryMoves DEF Inv, CallSide
<1>3. NotSent'
  BY <1>1, <1>2 DEF Inv, CallSide, NotSent, Moves, NotYet, nodeVars
<1>4. Onward
  BY <1>1, <1>2, OnwardMoves DEF nodeVars
<1>5. RecordSide'
  BY <1>1, <1>4, RecordKept DEF Inv
<1>6. OtaSide'
  BY <1>1, OtaKept DEF Inv, nodeVars
<1> QED BY <1>1, <1>2, <1>3, <1>5, <1>6 DEF Inv, Good, CallSide, NodeTyped,
                                           CountTyped, nodeVars

LEMMA SendRefusedGood ==
  ASSUME Inv, NEW c \in Calls, SendRefused(c) PROVE Good
<1>1. /\ PC(c) = "sending" /\ OtaTx[c] \in spent /\ Goto(c, "failing")
      /\ ota' = [ota EXCEPT ![OtaTx[c]] = "Refund"]
      /\ UNCHANGED <<open, given, recordVars, checks, nodeVars, unread,
                     troubles>>
  BY DEF SendRefused, At, PC, OtaReused
<1>2. CallSide' /\ Onward
  BY <1>1, CallMoved DEF Inv, NotYet, Pcs, nodeVars
<1>3. RecordSide'
  BY <1>1, <1>2, RecordKept DEF Inv
<1>4. OtaSide'
  <2>1. CheckTyped' /\ BlockIsMined' /\ MinedIsSpent'
    BY <1>1 DEF Inv, OtaSide, OtaGood, CheckTyped, BlockIsMined, MinedIsSpent,
                HasBlockCheck, nodeVars
  <2>2. OtaTyped' /\ RefundIsSpent'
    BY <1>1 DEF Inv, OtaSide, OtaGood, OtaTyped, RefundIsSpent, nodeVars
  <2> QED BY <2>1, <2>2 DEF OtaSide, OtaGood
<1> QED BY <1>1, <1>2, <1>3, <1>4 DEF Inv, Good, NodeTyped, CountTyped, nodeVars

LEMMA TroubleCounts ==
  ASSUME CountTyped, Trouble PROVE CountTyped'
BY NormalAssumption DEF CountTyped, Trouble

LEMMA SendLostGood ==
  ASSUME Inv, NEW c \in Calls, SendLost(c) PROVE Good
<1>1. /\ PC(c) \in {"sending", "taken"} /\ Retry(c) /\ Trouble
      /\ lost' = lost \cup {c}
      /\ UNCHANGED <<open, given, recordVars, checks, ota, chain, spent, unread>>
  BY DEF SendLost, PC
<1>2. CallGood' /\ \E p \in {"sending", "failing"} : Moves(c, p)
  BY <1>1, RetryMoves DEF Inv, CallSide
<1>3. NotSent'
  BY <1>1, <1>2 DEF Inv, CallSide, NotSent, Moves, NotYet
<1>4. Onward
  BY <1>1, <1>2 DEF Onward, Moves
<1>5. RecordSide'
  BY <1>1, <1>4, RecordKept DEF Inv
<1>6. OtaSide'
  BY <1>1, OtaKept DEF Inv
<1>7. NodeTyped'
  BY <1>1 DEF Inv, NodeTyped
<1> QED BY <1>1, <1>2, <1>3, <1>5, <1>6, <1>7, TroubleCounts
        DEF Inv, Good, CallSide

LEMMA PostSendTransGood ==
  ASSUME Inv, NEW c \in Calls, PostSendTrans(c) PROVE Good
<1>1. PC(c) = "taken" /\ UNCHANGED <<open, given, checks, ota, nodeVars, unread,
                                    troubles>>
  BY DEF PostSendTrans, At, PC
<1>2. OtaSide'
  BY <1>1, OtaKept DEF Inv, nodeVars
<1>3. CallSide' /\ RecordSide'
  <2>1. CASE open
    <3>1. Write(c, Record(Kind[c].after, FALSE)) /\ Goto(c, "ok")
      BY <2>1 DEF PostSendTrans
    <3>2. Kind[c].after \in {"Sent", "Success"}
      <4>1. \A n, a, st : Class(n, a, st).after = st
        BY DEF Class
      <4>2. Kind[c] \in Classes
        BY NormalAssumption
      <4>3. PICK n, a, st : Kind[c] = Class(n, a, st)
                            /\ st \in {"Sent", "Success"}
        BY <4>2
        DEF Classes, NormalChainEth, NormalChainE20, NormalChainEos,
            NormalChainBtc, PrivateChainWanSend, PrivateChainWanRefund,
            PosDelegateIn, PosDelegateOut, PosStakeIn, PosStakeAppend,
            PosStakeUpdate, PosStakeUpdateFeeRate, PosStakeRegister
      <4> QED BY <4>1, <4>3
    <3>3. /\ Record(Kind[c].after, FALSE) \in Records
          /\ Record(Kind[c].after, FALSE).status # "Failed"
      BY <3>2, RecordIsTyped DEF Statuses
    <3>4. CallSide' /\ Onward
      BY <1>1, <3>1, CallMoved DEF Inv, NotYet, Pcs, nodeVars
    <3>5. RecordSide'
      BY <1>1, <3>1, <3>3, <3>4, RecordWritten DEF Inv
    <3> QED BY <3>4, <3>5
  <2>2. CASE ~ open
    <3>1. Goto(c, "error") /\ UNCHANGED recordVars
      BY <2>2 DEF PostSendTrans
    <3>2. CallSide' /\ Onward
      BY <1>1, <3>1, CallMoved DEF Inv, NotYet, Pcs, nodeVars
    <3> QED BY <1>1, <3>1, <3>2, RecordKept DEF Inv
  <2> QED BY <2>1, <2>2
<1> QED BY <1>1, <1>2, <1>3 DEF Inv, Good, NodeTyped, CountTyped, nodeVars

LEMMA TransFailedGood ==
  ASSUME Inv, NEW c \in Calls, TransFailed(c) PROVE Good
<1>1. /\ PC(c) = "failing" /\ GiveBack(c) /\ Goto(c, "error")
      /\ UNCHANGED <<open, checks, ota, nodeVars, unread, troubles>>
  BY DEF TransFailed, At, PC
<1>2. CallSide' /\ Onward /\ PC(c)' = "error"
  BY <1>1, CallGaveBack DEF Inv, NotYet, nodeVars
<1>3. RecordSide'
  <2>1. CASE open
    <3>1. Write(c, [mem[c] EXCEPT !.status = "Failed"])
      BY <2>1 DEF TransFailed
    <3>2. [mem[c] EXCEPT !.status = "Failed"] \in Records
      BY StatusIsTyped DEF Inv, RecordSide, Statuses
    <3>3. c \notin lost' => chain'[c] = "none"
      BY <1>1 DEF Inv, CallSide, NotSent, NotYet, nodeVars
    <3> QED BY <1>1, <1>2, <3>1, <3>2, <3>3, RecordWritten DEF Inv
  <2>2. CASE ~ open
    BY <1>1, <1>2, <2>2, RecordKept DEF Inv, TransFailed
  <2> QED BY <2>1, <2>2
<1>4. OtaSide'
  BY <1>1, OtaKept DEF Inv, nodeVars
<1>5. NodeTyped'
  BY <1>1, GiveBackGood DEF Inv, NodeTyped, nodeVars
<1> QED BY <1>1, <1>2, <1>3, <1>4, <1>5 DEF Inv, Good, CountTyped

-----------------------------------------------------------------------------
(* The steps of the monitor.                                               *)

LEMMA StartCheckGood ==
  ASSUME Inv, NEW c \in Calls, StartCheck(c) PROVE Good
<1>1. /\ checks' = [checks EXCEPT ![c] = @ \cup {Check("receipt", FALSE)}]
      /\ UNCHANGED <<open, runVars, recordVars, ota, nodeVars, unread, troubles>>
  BY DEF StartCheck
<1>2. Check("receipt", FALSE) \in Checks /\ Check("receipt", FALSE).stage # "block"
  BY DEF Check, Checks
<1>3. CallSide' /\ Onward
  BY <1>1, CallKept, OnwardKept DEF Inv, nodeVars, runVars
<1>4. RecordSide'
  BY <1>1, <1>3, RecordKept DEF Inv
<1>5. CheckTyped' /\ BlockIsMined'
  BY <1>1, <1>2 DEF Inv, OtaSide, OtaGood, CheckTyped, BlockIsMined,
                    HasBlockCheck, nodeVars
<1>6. OtaSide'
  BY <1>1, <1>5 DEF Inv, OtaSide, OtaGood, OtaTyped, MinedIsSpent,
                    RefundIsSpent, nodeVars
<1> QED BY <1>1, <1>3, <1>4, <1>6 DEF Inv, Good, NodeTyped, CountTyped, nodeVars,
                                     runVars

(* A check that moves on with a receipt of success, or ends.               *)
LEMMA MoveGood ==
  ASSUME Inv, NEW c \in Calls, NEW k \in Checks, NEW S \in SUBSET Checks,
         Move(c, k, S), (\E j \in S : j.stage = "block") => chain[c] = "mined",
         UNCHANGED chain
  PROVE  CheckTyped' /\ BlockIsMined'
BY DEF Inv, OtaSide, OtaGood, CheckTyped, BlockIsMined, HasBlockCheck, Move

LEMMA ReceiptSuccessGood ==
  ASSUME Inv, NEW c \in Calls, NEW k \in Checks, ReceiptSuccess(c, k) PROVE Good
<1>1. /\ chain[c] = "mined"
      /\ mem' = IF k.old THEN mem ELSE [mem EXCEPT ![c].status = "Success"]
      /\ Move(c, k, {Check("block", k.old)})
      /\ UNCHANGED <<open, runVars, file, ota, nodeVars, unread, troubles>>
  BY DEF ReceiptSuccess
<1>2. CallSide' /\ Onward
  BY <1>1, CallKept, OnwardKept DEF Inv, nodeVars, runVars
<1>3. {Check("block", k.old)} \in SUBSET Checks
  BY DEF Check, Checks
<1>4. CheckTyped' /\ BlockIsMined'
  BY <1>1, <1>3, MoveGood DEF nodeVars
<1>5. OtaSide'
  BY <1>1, <1>4 DEF Inv, OtaSide, OtaGood, OtaTyped, MinedIsSpent,
                    RefundIsSpent, nodeVars
<1>6. RecordSide'
  <2>1. RecordTyped'
    BY <1>1 DEF Inv, RecordSide, RecordTyped, Records, Statuses
  <2>2. \A d \in Calls : mem'[d].status = "Failed" => mem[d].status = "Failed"
    BY <1>1 DEF Inv, RecordSide, RecordTyped, Records
  <2>3. FailedFine(mem)'
    BY <1>2, <2>2 DEF Inv, RecordSide, FailedGood, FailedFine, Onward
  <2>4. FailedFine(file)'
    BY <1>1, <1>2 DEF Inv, RecordSide, FailedGood, FailedFine, Onward
  <2> QED BY <2>1, <2>3, <2>4 DEF RecordSide, FailedGood
<1> QED BY <1>1, <1>2, <1>5, <1>6 DEF Inv, Good, NodeTyped, CountTyped, nodeVars,
                                     runVars

LEMMA ReceiptFailedGood ==
  ASSUME Inv, NEW c \in Calls, NEW k \in Checks, ReceiptFailed(c, k) PROVE Good
<1>1. /\ chain[c] = "reverted" /\ Move(c, k, {})
      /\ UNCHANGED <<open, runVars, ota, nodeVars, unread, troubles>>
  BY DEF ReceiptFailed
<1>2. CallSide' /\ Onward
  BY <1>1, CallKept, OnwardKept DEF Inv, nodeVars, runVars
<1>3. CheckTyped' /\ BlockIsMined'
  BY <1>1, MoveGood DEF nodeVars
<1>4. OtaSide'
  BY <1>1, <1>3 DEF Inv, OtaSide, OtaGood, OtaTyped, MinedIsSpent,
                    RefundIsSpent, nodeVars
<1>5. RecordSide'
  <2>1. CASE open
    <3>1. Write(c, [mem[c] EXCEPT !.status = "Failed"])
      BY <2>1 DEF ReceiptFailed
    <3>2. [mem[c] EXCEPT !.status = "Failed"] \in Records
      BY StatusIsTyped DEF Inv, RecordSide, Statuses
    <3> QED BY <1>1, <1>2, <3>1, <3>2, RecordWritten DEF Inv, nodeVars
  <2>2. CASE ~ open
    BY <1>1, <1>2, <2>2, RecordKept DEF Inv, ReceiptFailed
  <2> QED BY <2>1, <2>2
<1> QED BY <1>1, <1>2, <1>4, <1>5 DEF Inv, Good, NodeTyped, CountTyped, nodeVars,
                                     runVars

LEMMA BlockReadGood ==
  ASSUME Inv, NEW c \in Calls, NEW k \in Checks, BlockRead(c, k) PROVE Good
<1>1. /\ k \in checks[c] /\ k.stage = "block" /\ Move(c, k, {})
      /\ UNCHANGED <<open, runVars, nodeVars, troubles>>
  BY DEF BlockRead
<1>2. CallSide' /\ Onward
  BY <1>1, CallKept, OnwardKept DEF Inv, nodeVars, runVars
<1>3. CheckTyped' /\ BlockIsMined'
  BY <1>1, MoveGood DEF nodeVars
<1>4. chain[c] = "mined"
  BY <1>1 DEF Inv, OtaSide, OtaGood, BlockIsMined, HasBlockCheck
<1>5. CASE open
  <2>1. /\ Write(c, Record("Success", TRUE)) /\ UNCHANGED unread
        /\ ota' = IF IsRefund(c) THEN [ota EXCEPT ![OtaTx[c]] = "Refund"]
                                 ELSE ota
    BY <1>5 DEF BlockRead
  <2>2. Record("Success", TRUE) \in Records
        /\ Record("Success", TRUE).status # "Failed"
    BY RecordIsTyped DEF Statuses
  <2>3. RecordSide'
    BY <1>1, <1>2, <2>1, <2>2, RecordWritten DEF Inv
  <2>4. IsRefund(c) => OtaTx[c] \in spent
    BY <1>4 DEF Inv, OtaSide, OtaGood, MinedIsSpent
  <2>5. OtaTyped' /\ RefundIsSpent'
    BY <1>1, <2>1, <2>4 DEF Inv, OtaSide, OtaGood, OtaTyped, RefundIsSpent,
                            nodeVars
  <2>6. OtaSide'
    BY <1>1, <1>3, <2>5 DEF Inv, OtaSide, OtaGood, MinedIsSpent, nodeVars
  <2> QED BY <1>1, <1>2, <2>1, <2>3, <2>6
          DEF Inv, Good, NodeTyped, CountTyped, nodeVars, runVars
<1>6. CASE ~ open
  <2>1. UNCHANGED <<recordVars, ota>> /\ unread' = unread \cup {c}
    BY <1>6 DEF BlockRead
  <2>2. RecordSide'
    BY <1>1, <1>2, <2>1, RecordKept DEF Inv
  <2>3. OtaSide'
    BY <1>1, <1>3, <2>1 DEF Inv, OtaSide, OtaGood, OtaTyped, MinedIsSpent,
                            RefundIsSpent, nodeVars
  <2> QED BY <1>1, <1>2, <2>1, <2>2, <2>3
          DEF Inv, Good, NodeTyped, CountTyped, nodeVars, runVars
<1> QED BY <1>5, <1>6

(* A check that ends without an answer.                                    *)
LEMMA CheckEndsGood ==
  ASSUME Inv, NEW c \in Calls, NEW k \in Checks,
         ReceiptMissing(c, k) \/ BlockRejected(c, k)
  PROVE  Good
<1>1. Move(c, k, {}) /\ UNCHANGED <<open, runVars, recordVars, ota, nodeVars>>
  BY DEF ReceiptMissing, BlockRejected
<1>2. unread' \subseteq Calls /\ CountTyped'
  BY TroubleCounts DEF Inv, NodeTyped, CountTyped, ReceiptMissing, BlockRejected
<1>3. CallSide' /\ Onward
  BY <1>1, CallKept, OnwardKept DEF Inv, nodeVars, runVars
<1>4. RecordSide'
  BY <1>1, <1>3, RecordKept DEF Inv
<1>5. CheckTyped' /\ BlockIsMined'
  BY <1>1, MoveGood DEF nodeVars
<1>6. OtaSide'
  BY <1>1, <1>5 DEF Inv, OtaSide, OtaGood, OtaTyped, MinedIsSpent,
                    RefundIsSpent, nodeVars
<1> QED BY <1>1, <1>2, <1>3, <1>4, <1>6 DEF Inv, Good, NodeTyped, nodeVars,
                                           runVars

-----------------------------------------------------------------------------
(* The chain, the wallet and the process.                                  *)

LEMMA MineGood ==
  ASSUME Inv, NEW c \in Calls, Mine(c) PROVE Good
<1>1. /\ chain[c] = "pool"
      /\ UNCHANGED <<open, runVars, recordVars, checks, ota, lost, unread,
                     troubles>>
  BY DEF Mine
<1>2. PICK st \in {"mined", "reverted"} :
        /\ chain' = [chain EXCEPT ![c] = st]
        /\ st = "mined" => spent' = IF IsRefund(c) THEN spent \cup {OtaTx[c]}
                                                   ELSE spent
        /\ st = "reverted" => spent' = spent
  BY DEF Mine
<1>3. \A d \in Calls : chain'[d] = IF d = c THEN st ELSE chain[d]
  BY <1>2 DEF Inv, NodeTyped
<1>4. spent \subseteq spent' /\ spent' \subseteq Otas
  BY <1>2, NormalAssumption DEF Inv, OtaSide, OtaTyped
<1>5. CallGood' /\ NotSent'
  BY <1>1, <1>3 DEF Inv, CallSide, CallGood, CallTyped, TryLeft, NotSent, PC,
                    runVars
<1>6. Onward
  BY <1>1, <1>3 DEF Onward, PC, runVars
<1>7. RecordSide'
  BY <1>1, <1>6, RecordKept DEF Inv
<1>8. BlockIsMined' /\ CheckTyped'
  BY <1>1, <1>3 DEF Inv, OtaSide, OtaGood, BlockIsMined, HasBlockCheck,
                    CheckTyped
<1>9. MinedIsSpent'
  <2> SUFFICES ASSUME NEW d \in Calls, IsRefund(d), chain'[d] = "mined"
               PROVE  OtaTx[d] \in spent'
    BY DEF MinedIsSpent, IsRefund
  <2>1. CASE d = c
    BY <1>2, <1>3, <2>1
  <2>2. CASE d # c
    BY <1>3, <1>4, <2>2 DEF Inv, OtaSide, OtaGood, MinedIsSpent
  <2> QED BY <2>1, <2>2
<1>10. OtaTyped' /\ RefundIsSpent'
  BY <1>1, <1>4 DEF Inv, OtaSide, OtaGood, OtaTyped, RefundIsSpent
<1>11. NodeTyped'
  BY <1>1, <1>2 DEF Inv, NodeTyped, runVars
<1> QED BY <1>1, <1>5, <1>7, <1>8, <1>9, <1>10, <1>11
        DEF Inv, Good, CallSide, OtaSide, OtaGood, CountTyped

LEMMA LandsLateGood ==
  ASSUME Inv, NEW c \in Calls, LandsLate(c) PROVE Good
<1>1. /\ c \in lost /\ chain[c] = "none" /\ chain' = [chain EXCEPT ![c] = "pool"]
      /\ UNCHANGED <<open, runVars, recordVars, checks, ota, spent, lost, unread,
                     troubles>>
  BY DEF LandsLate
<1>2. \A d \in Calls : chain'[d] = IF d = c THEN "pool" ELSE chain[d]
  BY <1>1 DEF Inv, NodeTyped
<1>3. CallGood' /\ NotSent'
  BY <1>1, <1>2 DEF Inv, CallSide, CallGood, CallTyped, TryLeft, NotSent, PC,
                    runVars
<1>4. Onward
  BY <1>1, <1>2 DEF Onward, PC, runVars
<1>5. RecordSide'
  BY <1>1, <1>4, RecordKept DEF Inv
<1>6. BlockIsMined' /\ MinedIsSpent' /\ CheckTyped'
  BY <1>1, <1>2 DEF Inv, OtaSide, OtaGood, BlockIsMined, MinedIsSpent,
                    HasBlockCheck, CheckTyped
<1>7. OtaTyped' /\ RefundIsSpent'
  BY <1>1 DEF Inv, OtaSide, OtaGood, OtaTyped, RefundIsSpent
<1>8. NodeTyped'
  BY <1>1 DEF Inv, NodeTyped, runVars
<1> QED BY <1>1, <1>3, <1>5, <1>6, <1>7, <1>8
        DEF Inv, Good, CallSide, OtaSide, OtaGood, CountTyped

LEMMA CloseGood ==
  ASSUME Inv, Close PROVE Good
<1>1. /\ open' = FALSE /\ mem' = file /\ Trouble
      /\ checks' = [c \in Calls |-> {Check(k.stage, TRUE) : k \in checks[c]}]
      /\ UNCHANGED <<runVars, file, ota, nodeVars, unread>>
  BY DEF Close
<1>2. CallSide' /\ Onward
  BY <1>1, CallKept, OnwardKept DEF Inv, nodeVars, runVars
<1>3. RecordSide'
  BY <1>1, <1>2 DEF Inv, RecordSide, RecordTyped, FailedGood, FailedFine, Onward
<1>4. CheckTyped'
  <2>1. \A k \in Checks : Check(k.stage, TRUE) \in Checks
    BY DEF Checks, Check
  <2>2. \A c \in Calls :
          {Check(k.stage, TRUE) : k \in checks[c]} \in SUBSET Checks
    BY <2>1 DEF Inv, OtaSide, CheckTyped
  <2> QED BY <1>1, <2>2 DEF CheckTyped
<1>5. \A c \in Calls : HasBlockCheck(c)' => HasBlockCheck(c)
  BY <1>1 DEF HasBlockCheck, Check
<1>6. OtaTyped' /\ OtaGood'
  BY <1>1, <1>5 DEF Inv, OtaSide, OtaGood, OtaTyped, BlockIsMined, MinedIsSpent,
                    RefundIsSpent, nodeVars
<1> QED BY <1>1, <1>2, <1>3, <1>4, <1>6, TroubleCounts
        DEF Inv, Good, OtaSide, NodeTyped, nodeVars, runVars

LEMMA OpenGood ==
  ASSUME Inv, Open PROVE Good
<1>1. /\ open' = TRUE
      /\ UNCHANGED <<runVars, recordVars, checks, ota, nodeVars, unread,
                     troubles>>
  BY DEF Open
<1>2. CallSide' /\ Onward
  BY <1>1, CallKept, OnwardKept DEF Inv, nodeVars, runVars
<1>3. RecordSide'
  BY <1>1, <1>2 DEF Inv, RecordSide, RecordTyped, FailedGood, FailedFine, Onward,
                    recordVars
<1>4. OtaSide'
  BY <1>1, OtaKept DEF Inv, nodeVars
<1> QED BY <1>1, <1>2, <1>3, <1>4 DEF Inv, Good, NodeTyped, CountTyped, nodeVars,
                                     runVars

LEMMA CrashGood ==
  ASSUME Inv, Crash PROVE Good
<1>1. /\ open' = TRUE /\ mem' = file /\ Trouble
      /\ lost \subseteq lost' /\ lost' \subseteq lost \cup Calls
      /\ unread' = unread \cup {c \in Calls : HasBlockCheck(c)}
      /\ checks' = [c \in Calls |-> {}]
      /\ UNCHANGED <<given, file, ota, chain, spent>>
  BY DEF Crash
<1>2. call' = [c \in Calls |->
                 IF call[c].pc \in {"ready", "sending", "taken", "failing"}
                 THEN [call[c] EXCEPT !.pc = "dead"] ELSE call[c]]
  BY DEF Crash
<1>3. CallTyped'
  BY <1>2 DEF Inv, CallSide, CallGood, CallTyped, Pcs
<1>4. \A c \in Calls :
        /\ PC(c)' = IF PC(c) \in {"ready", "sending", "taken", "failing"}
                    THEN "dead" ELSE PC(c)
        /\ call'[c].tries = call[c].tries
  BY <1>2 DEF Inv, CallSide, CallGood, CallTyped, PC
<1>5. TryLeft'
  BY <1>4 DEF Inv, CallSide, CallGood, TryLeft
<1>6. NotSent'
  BY <1>1, <1>4 DEF Inv, CallSide, NotSent, NotYet
<1>7. Onward
  BY <1>1, <1>4 DEF Onward
<1>8. RecordSide'
  BY <1>1, <1>7 DEF Inv, RecordSide, RecordTyped, FailedGood, FailedFine, Onward
<1>9. CheckTyped' /\ BlockIsMined'
  BY <1>1 DEF CheckTyped, BlockIsMined, HasBlockCheck
<1>10. OtaTyped' /\ MinedIsSpent' /\ RefundIsSpent'
  BY <1>1 DEF Inv, OtaSide, OtaGood, OtaTyped, MinedIsSpent, RefundIsSpent
<1>11. NodeTyped'
  BY <1>1 DEF Inv, NodeTyped
<1> QED BY <1>1, <1>3, <1>5, <1>6, <1>8, <1>9, <1>10, <1>11, TroubleCounts
        DEF Inv, Good, CallSide, CallGood, OtaSide, OtaGood

-----------------------------------------------------------------------------
LEMMA InvInit == Init => Inv
<1> SUFFICES ASSUME Init PROVE Inv
  OBVIOUS
<1>1. CallSide
  BY NormalAssumption
  DEF Init, CallSide, CallGood, CallTyped, TryLeft, NotSent, PC, Pcs
<1>2. Record("none", FALSE) \in Records /\ Record("none", FALSE).status = "none"
  BY RecordIsTyped DEF Statuses
<1>3. RecordSide
  BY <1>2 DEF Init, RecordSide, RecordTyped, FailedGood, FailedFine
<1>4. OtaSide
  BY DEF Init, OtaSide, CheckTyped, OtaTyped, OtaGood, BlockIsMined,
         HasBlockCheck, MinedIsSpent, RefundIsSpent
<1>5. NodeTyped /\ CountTyped
  BY NormalAssumption DEF Init, NodeTyped, CountTyped
<1> QED BY <1>1, <1>3, <1>4, <1>5 DEF Inv

LEMMA InvStep == Inv /\ [Next]_vars => Inv'
<1> SUFFICES ASSUME Inv, [Next]_vars PROVE Inv'
  OBVIOUS
<1>1. ASSUME NEW c \in Calls, RunStep(c) PROVE Good
  BY <1>1, PreSendTransGood, NodeTakesGood, NodeKnowsGood, SendRefusedGood,
     PostSendTransGood, TransFailedGood DEF RunStep
<1>2. ASSUME NEW c \in Calls, NEW k \in Checks,
             Answered(c, k) \/ ReceiptMissing(c, k) \/ BlockRejected(c, k)
      PROVE  Good
  BY <1>2, ReceiptSuccessGood, ReceiptFailedGood, BlockReadGood, CheckEndsGood
     DEF Answered
<1>3. ASSUME NEW c \in Calls,
             \/ Refused(c) \/ Prepare(c) \/ PrepareFails(c) \/ SendLost(c)
             \/ StartCheck(c) \/ Mine(c) \/ LandsLate(c)
      PROVE  Good
  BY <1>3, RefusedGood, PrepareFailsGood, SendLostGood, StartCheckGood, MineGood,
     LandsLateGood
<1>4. CASE Close \/ Open \/ Crash
  <2>1. Good
    BY <1>4, CloseGood, OpenGood, CrashGood
  <2> QED BY <2>1 DEF Good, Inv
<1>5. CASE UNCHANGED vars
  <2>1. CallSide' /\ Onward /\ OtaSide'
    BY <1>5, CallKept, OnwardKept, OtaKept DEF Inv, vars, nodeVars, runVars
  <2>2. RecordSide'
    BY <1>5, <2>1, RecordKept DEF Inv, vars
  <2> QED BY <1>5, <2>1, <2>2 DEF Inv, NodeTyped, CountTyped, vars, nodeVars,
                                 runVars
<1>6. CASE \E c \in Calls :
             \/ Refused(c) \/ Prepare(c) \/ PrepareFails(c)
             \/ RunStep(c) \/ SendLost(c)
             \/ StartCheck(c) \/ Mine(c) \/ LandsLate(c)
             \/ \E k \in Checks :
                  Answered(c, k) \/ ReceiptMissing(c, k) \/ BlockRejected(c, k)
  <2>1. Good
    BY <1>1, <1>2, <1>3, <1>6
  <2> QED BY <2>1 DEF Good, Inv
<1> QED BY <1>4, <1>5, <1>6 DEF Next

LEMMA InvAlways == Spec => []Inv
BY InvInit, InvStep, PTL DEF Spec

(* Every variable keeps its type: in particular no call sends more often   *)
(* than tryTimes.                                                          *)
THEOREM TypeCorrect == Spec => []TypeOK
<1>1. Inv => TypeOK
  BY TypeGroups DEF Inv, CallSide, CallGood, RecordSide, OtaSide
<1> QED BY <1>1, InvAlways, PTL

(* A call recorded as failed, or whose nonce went to the list of holes,    *)
(* has nothing on the chain or on its way there, unless an answer of the   *)
(* node was lost: for any classes of calls, tries and troubles.            *)
THEOREM FailedLeftNothing == Spec => []FailedIsNotSent
<1>1. Inv => FailedIsNotSent
  BY DEF Inv, CallSide, NotSent, RecordSide, FailedGood, FailedFine,
         FailedIsNotSent
<1> QED BY <1>1, InvAlways, PTL

(* An OTA that monitorNormal or a refused sending marks as refunded is     *)
(* spent on the chain, whatever number of refunds compete for it.          *)
THEOREM MarkedMeansSpent == Spec => []RefundIsSpent
<1>1. Inv => RefundIsSpent
  BY DEF Inv, OtaSide, OtaGood
<1> QED BY <1>1, InvAlways, PTL

-----------------------------------------------------------------------------
(* What the records tell of their transactions: TxReport.                  *)

St(c) == mem[c].status
OnFile(c) == file[c].status

(* The file may only lag behind with a success whose block was not read.   *)
FileAgrees(c) ==
  \/ OnFile(c) = St(c)
  \/ OnFile(c) = "Sent" /\ St(c) = "Success" /\ Kind[c].after = "Sent"

(* What the record tells while its call runs.                              *)
RunTells(c) ==
  /\ PC(c) \in {"idle", "ready"} => St(c) = "none"
  /\ PC(c) \in {"sending", "taken", "failing"} => St(c) = "Sending"
  /\ PC(c) = "taken" => chain[c] # "none"

(* What the node must have for the record to tell a sending or a success.  *)
SentTells(c) ==
  /\ St(c) = "Sent" => Kind[c].after = "Sent"
  /\ St(c) \in {"Sent", "Success"} => chain[c] # "none"
  /\ St(c) = "Success" /\ Kind[c].after = "Sent" => chain[c] = "mined"

(* A check is about a record that was Sent, and at most another check has  *)
(* settled it since.                                                       *)
CheckTells(c) ==
  checks[c] # {} =>
    /\ Kind[c].after = "Sent"
    /\ St(c) \in {"Sent", "Success"}
         \/ (St(c) = "Failed" /\ chain[c] = "reverted")

Story(c) == FileAgrees(c) /\ RunTells(c) /\ SentTells(c) /\ CheckTells(c)
Stories == \A c \in Calls : Story(c)

(* What a step may do to the record of a call, to its transaction, to its  *)
(* checks and to the call.                                                 *)
Writes(c, st) == St(c)' = st /\ OnFile(c)' = st
RecordMoves(c) ==
  \/ St(c)' = St(c) /\ OnFile(c)' \in {OnFile(c), St(c)}
  \/ St(c)' = OnFile(c) /\ OnFile(c)' = OnFile(c)
  \/ PC(c) = "ready" /\ PC(c)' = "sending" /\ Writes(c, "Sending")
  \/ PC(c) = "taken" /\ PC(c)' = "ok" /\ Writes(c, Kind[c].after)
  \/ PC(c) = "failing" /\ PC(c)' = "error" /\ Writes(c, "Failed")
  \/ /\ checks[c] # {} /\ chain[c] = "mined"
     /\ St(c)' = "Success" /\ OnFile(c)' \in {OnFile(c), "Success"}
  \/ checks[c] # {} /\ chain[c] = "reverted" /\ Writes(c, "Failed")
ChainMoves(c) ==
  \/ chain'[c] = chain[c]
  \/ chain[c] = "none" /\ chain'[c] = "pool" /\ (PC(c) = "sending" \/ c \in lost)
  \/ chain[c] = "pool" /\ chain'[c] \in {"mined", "reverted"}
ChecksMove(c) ==
  checks'[c] # {} => checks[c] # {} \/ (St(c) = "Sent" /\ St(c)' = "Sent")
CallMoves(c) ==
  \/ PC(c)' = PC(c)
  \/ PC(c)' \in {"ok", "error", "dead"}
  \/ PC(c) = "idle" /\ PC(c)' = "ready"
  \/ PC(c) = "ready" /\ PC(c)' = "sending" /\ St(c)' = "Sending"
  \/ PC(c) = "sending" /\ PC(c)' = "taken" /\ chain'[c] # "none"
  \/ PC(c) \in {"sending", "taken"} /\ PC(c)' \in {"sending", "failing"}
Effect(c) == RecordMoves(c) /\ ChainMoves(c) /\ ChecksMove(c) /\ CallMoves(c)
Effects == lost \subseteq lost' /\ \A c \in Calls : Effect(c)

LEMMA AfterIsKnown ==
  ASSUME NEW c \in Calls PROVE Kind[c].after \in {"Sent", "Success"}
<1>1. \A n, a, st : Class(n, a, st).after = st
  BY DEF Class
<1>2. Kind[c] \in Classes
  BY NormalAssumption
<1>3. PICK n, a, st : Kind[c] = Class(n, a, st) /\ st \in {"Sent", "Success"}
  BY <1>2
  DEF Classes, NormalChainEth, NormalChainE20, NormalChainEos, NormalChainBtc,
      PrivateChainWanSend, PrivateChainWanRefund, PosDelegateIn, PosDelegateOut,
      PosStakeIn, PosStakeAppend, PosStakeUpdate, PosStakeUpdateFeeRate,
      PosStakeRegister
<1> QED BY <1>1, <1>3

(* Such a step keeps the story of a call.                                  *)
LEMMA StoryKept ==
  ASSUME NEW c \in Calls, Inv, Story(c), Effect(c) PROVE Story(c)'
<1>1. Kind[c].after \in {"Sent", "Success"}
  BY AfterIsKnown
<1>2. /\ St(c) \in Statuses /\ OnFile(c) \in Statuses /\ PC(c) \in Pcs
      /\ chain[c] \in {"none", "pool", "mined", "reverted"}
  BY DEF Inv, RecordSide, RecordTyped, Records, CallSide, CallGood, CallTyped,
         NodeTyped, St, OnFile, PC
<1>3. FileAgrees(c)'
  BY <1>1, <1>2 DEF Story, FileAgrees, RunTells, SentTells, CheckTells, Effect,
     RecordMoves, Writes, ChainMoves, Statuses
<1>4. SentTells(c)'
  BY <1>1, <1>2 DEF Story, FileAgrees, RunTells, SentTells, CheckTells, Effect,
     RecordMoves, Writes, ChainMoves, Statuses
<1>5. RunTells(c)'
  <2>1. PC(c)' \in {"idle", "ready"} => PC(c) \in {"idle", "ready"}
    BY DEF Effect, CallMoves
  <2>2. PC(c)' \in {"idle", "ready"} => St(c)' = "none"
    BY <2>1 DEF Story, FileAgrees, RunTells, CheckTells, Effect, RecordMoves
  <2>3. PC(c)' \in {"sending", "taken", "failing"} =>
          PC(c) \in {"sending", "taken", "failing"} \/ St(c)' = "Sending"
    BY DEF Effect, CallMoves
  <2>4. PC(c)' \in {"sending", "taken", "failing"} => St(c)' = "Sending"
    BY <2>3 DEF Story, FileAgrees, RunTells, CheckTells, Effect, RecordMoves,
                Writes
  <2>5. PC(c)' = "taken" => chain'[c] # "none"
    <3>1. PC(c)' = "taken" => PC(c) = "taken" \/ chain'[c] # "none"
      BY DEF Effect, CallMoves
    <3>2. chain[c] # "none" => chain'[c] # "none"
      BY DEF Effect, ChainMoves
    <3> QED BY <3>1, <3>2 DEF Story, RunTells
  <2> QED BY <2>2, <2>4, <2>5 DEF RunTells
<1>6. CheckTells(c)'
  BY <1>1, <1>2 DEF Story, FileAgrees, RunTells, SentTells, CheckTells, Effect,
     RecordMoves, Writes, ChainMoves, ChecksMove, Statuses
<1> QED BY <1>3, <1>4, <1>5, <1>6 DEF Story

(* And it is a step of the report.                                         *)
LEMMA EffectIsTold ==
  ASSUME NEW c \in Calls, Inv, Inv', Story(c), Story(c)', Effect(c)
  PROVE  /\ \/ Fate(c)' = Fate(c)
            \/ /\ Fate(c) = "unsent" /\ Fate(c)' = "pool"
               /\ Tale(c) # "failed" \/ c \in lost
            \/ Fate(c) = "pool" /\ Fate(c)' \in {"mined", "reverted"}
         /\ Tale(c)' \in Report!After(Tale(c))
         /\ Tale(c)' = "sent" => Fate(c)' # "unsent"
         /\ Tale(c)' = "succeeded" => Fate(c)' = "mined"
         /\ Tale(c)' = "failed" =>
              Fate(c)' \in {"unsent", "reverted"} \/ c \in lost'
<1>1. Kind[c].after \in {"Sent", "Success"}
  BY AfterIsKnown
<1>2. /\ St(c) \in Statuses /\ PC(c) \in Pcs /\ St(c)' \in Statuses
      /\ chain[c] \in {"none", "pool", "mined", "reverted"}
      /\ chain'[c] \in {"none", "pool", "mined", "reverted"}
  BY DEF Inv, RecordSide, RecordTyped, Records, CallSide, CallGood, CallTyped,
         NodeTyped, St, PC
<1>3. /\ Tale(c) = CASE St(c) \in {"none", "Sending"} -> "nothing"
                     [] St(c) = "Sent" -> "sent"
                     [] St(c) = "Success" ->
                          IF Kind[c].after = "Success" THEN "sent"
                                                       ELSE "succeeded"
                     [] St(c) = "Failed" -> "failed"
      /\ Tale(c)' = CASE St(c)' \in {"none", "Sending"} -> "nothing"
                      [] St(c)' = "Sent" -> "sent"
                      [] St(c)' = "Success" ->
                           IF Kind[c].after = "Success" THEN "sent"
                                                        ELSE "succeeded"
                      [] St(c)' = "Failed" -> "failed"
  BY DEF Tale, St
<1>4. /\ Fate(c) = IF chain[c] = "none" THEN "unsent" ELSE chain[c]
      /\ Fate(c)' = IF chain'[c] = "none" THEN "unsent" ELSE chain'[c]
  BY DEF Fate
<1>5. \/ Fate(c)' = Fate(c)
      \/ /\ Fate(c) = "unsent" /\ Fate(c)' = "pool"
         /\ Tale(c) # "failed" \/ c \in lost
      \/ Fate(c) = "pool" /\ Fate(c)' \in {"mined", "reverted"}
  BY <1>2, <1>3, <1>4 DEF Effect, ChainMoves, Story, RunTells, Statuses
<1>6. Tale(c)' \in Report!After(Tale(c))
  <2>1. \/ St(c)' = St(c)
        \/ St(c) = "Success" /\ St(c)' = "Sent"
        \/ St(c) = "none" /\ St(c)' = "Sending"
        \/ St(c) = "Sending" /\ St(c)' \in {Kind[c].after, "Failed"}
        \/ Kind[c].after = "Sent" /\ St(c) = "Sent"
             /\ St(c)' \in {"Success", "Failed"}
    BY <1>1, <1>2
    DEF Effect, RecordMoves, Writes, Story, FileAgrees, RunTells, SentTells,
        CheckTells
  <2>2. Kind[c].after = "Success" => St(c) # "Sent" /\ St(c)' # "Sent"
    BY DEF Story, SentTells
  <2> QED BY <1>1, <1>2, <1>3, <2>1, <2>2 DEF Report!After, Statuses
<1>7. Tale(c)' = "sent" => Fate(c)' # "unsent"
  BY <1>2, <1>3, <1>4 DEF Story, SentTells, Statuses
<1>8. Tale(c)' = "succeeded" => Fate(c)' = "mined"
  BY <1>1, <1>2, <1>3, <1>4 DEF Story, SentTells, Statuses
<1>9. Tale(c)' = "failed" => Fate(c)' \in {"unsent", "reverted"} \/ c \in lost'
  <2>1. c \notin lost' /\ St(c)' = "Failed" => chain'[c] \in {"none", "reverted"}
    BY DEF Inv, RecordSide, FailedGood, FailedFine, St
  <2> QED BY <1>2, <1>3, <1>4, <2>1 DEF Statuses
<1> QED BY <1>5, <1>6, <1>7, <1>8, <1>9

-----------------------------------------------------------------------------
(* Every step has only such effects.                                       *)

LEMMA RecordsRest ==
  ASSUME UNCHANGED recordVars
  PROVE  \A c \in Calls : RecordMoves(c)
BY DEF RecordMoves, recordVars, St, OnFile

LEMMA RecordsReopen ==
  ASSUME mem' = file, UNCHANGED file
  PROVE  \A c \in Calls : RecordMoves(c)
BY DEF RecordMoves, St, OnFile

LEMMA WriteIsSeen ==
  ASSUME Inv, NEW c \in Calls, NEW rec \in Records, Write(c, rec), UNCHANGED open
  PROVE  /\ Writes(c, rec.status)
         /\ \A d \in Calls : d # c => RecordMoves(d)
<1>1. /\ mem' = file'
      /\ \A d \in Calls : mem'[d] = IF d = c THEN rec ELSE mem[d]
  BY WriteGood DEF Inv, RecordSide
<1> QED BY <1>1 DEF Writes, RecordMoves, St, OnFile

LEMMA GotoIsSeen ==
  ASSUME Inv, NEW c \in Calls, NEW p, Goto(c, p)
  PROVE  \A d \in Calls : PC(d)' = IF d = c THEN p ELSE PC(d)
BY DEF Inv, CallSide, CallGood, CallTyped, Goto, PC

LEMMA RestKept ==
  ASSUME UNCHANGED <<chain, checks>>
  PROVE  \A c \in Calls : ChainMoves(c) /\ ChecksMove(c)
BY DEF ChainMoves, ChecksMove

LEMMA CallsKept ==
  ASSUME UNCHANGED runVars
  PROVE  \A c \in Calls : CallMoves(c)
BY DEF CallMoves, PC, runVars

LEMMA PreparationTold ==
  ASSUME Inv, NEW c \in Calls, Refused(c) \/ Prepare(c) \/ PrepareFails(c)
  PROVE  Effects
<1>1. /\ PC(c) = "idle" /\ (Goto(c, "error") \/ Goto(c, "ready"))
      /\ UNCHANGED <<recordVars, checks, chain, lost>>
  BY DEF Refused, Prepare, PrepareFails, At, PC, nodeVars
<1>2. \A d \in Calls : CallMoves(d)
  BY <1>1, GotoIsSeen DEF CallMoves
<1> QED BY <1>1, <1>2, RecordsRest, RestKept DEF Effects, Effect

LEMMA PreSendTransTold ==
  ASSUME Inv, NEW c \in Calls, PreSendTrans(c) PROVE Effects
<1>1. PC(c) = "ready" /\ UNCHANGED <<open, checks, chain, lost>>
  BY DEF PreSendTrans, At, PC, nodeVars
<1>2. CASE open
  <2>1. Write(c, Record("Sending", FALSE)) /\ Goto(c, "sending")
    BY <1>2 DEF PreSendTrans
  <2>2. Writes(c, "Sending") /\ \A d \in Calls : d # c => RecordMoves(d)
    <3>1. /\ Record("Sending", FALSE) \in Records
          /\ Record("Sending", FALSE).status = "Sending"
      BY RecordIsTyped DEF Statuses
    <3> QED BY <1>1, <2>1, <3>1, WriteIsSeen
  <2>3. \A d \in Calls : PC(d)' = IF d = c THEN "sending" ELSE PC(d)
    BY <2>1, GotoIsSeen
  <2>4. RecordMoves(c)
    BY <1>1, <2>2, <2>3 DEF RecordMoves
  <2>5. \A d \in Calls : CallMoves(d)
    BY <1>1, <2>2, <2>3 DEF CallMoves, Writes
  <2> QED BY <1>1, <2>2, <2>4, <2>5, RestKept DEF Effects, Effect
<1>3. CASE ~ open
  <2>1. Goto(c, "error") /\ UNCHANGED recordVars
    BY <1>3 DEF PreSendTrans
  <2>2. \A d \in Calls : CallMoves(d)
    BY <2>1, GotoIsSeen DEF CallMoves
  <2> QED BY <1>1, <2>1, <2>2, RecordsRest, RestKept DEF Effects, Effect
<1> QED BY <1>2, <1>3

LEMMA NodeTakesTold ==
  ASSUME Inv, NEW c \in Calls, NodeTakes(c) PROVE Effects
<1>1. /\ PC(c) = "sending" /\ chain[c] = "none" /\ Goto(c, "taken")
      /\ chain' = [chain EXCEPT ![c] = "pool"]
      /\ UNCHANGED <<recordVars, checks, lost>>
  BY DEF NodeTakes, At, PC
<1>2. \A d \in Calls : chain'[d] = IF d = c THEN "pool" ELSE chain[d]
  BY <1>1 DEF Inv, NodeTyped
<1>3. \A d \in Calls : PC(d)' = IF d = c THEN "taken" ELSE PC(d)
  BY <1>1, GotoIsSeen
<1>4. \A d \in Calls : ChainMoves(d) /\ ChecksMove(d) /\ CallMoves(d)
  BY <1>1, <1>2, <1>3 DEF ChainMoves, ChecksMove, CallMoves
<1> QED BY <1>1, <1>4, RecordsRest DEF Effects, Effect

(* The tries that the node answers with an error, or that are lost.        *)
LEMMA RetryTold ==
  ASSUME Inv, NEW c \in Calls, NodeKnows(c) \/ SendLost(c) \/ SendRefused(c)
  PROVE  Effects
<1>1. /\ PC(c) \in {"sending", "taken"}
      /\ UNCHANGED <<recordVars, checks, chain>> /\ lost \subseteq lost'
  BY DEF NodeKnows, SendLost, SendRefused, At, PC, nodeVars
<1>2. \E p \in {"sending", "failing"} : Moves(c, p)
  <2>1. CASE Retry(c)
    BY <1>1, <2>1, RetryMoves DEF Inv, CallSide
  <2>2. CASE Goto(c, "failing")
    BY <2>2, GotoIsSeen DEF Moves
  <2> QED BY <2>1, <2>2 DEF NodeKnows, SendLost, SendRefused
<1>3. \A d \in Calls : CallMoves(d)
  BY <1>1, <1>2 DEF Moves, CallMoves
<1> QED BY <1>1, <1>3, RecordsRest, RestKept DEF Effects, Effect

LEMMA PostSendTransTold ==
  ASSUME Inv, NEW c \in Calls, PostSendTrans(c) PROVE Effects
<1>1. PC(c) = "taken" /\ UNCHANGED <<open, checks, chain, lost>>
  BY DEF PostSendTrans, At, PC, nodeVars
<1>2. CASE open
  <2>1. Write(c, Record(Kind[c].after, FALSE)) /\ Goto(c, "ok")
    BY <1>2 DEF PostSendTrans
  <2>2. Writes(c, Kind[c].after) /\ \A d \in Calls : d # c => RecordMoves(d)
    <3>1. /\ Record(Kind[c].after, FALSE) \in Records
          /\ Record(Kind[c].after, FALSE).status = Kind[c].after
      BY AfterIsKnown, RecordIsTyped DEF Statuses
    <3> QED BY <1>1, <2>1, <3>1, WriteIsSeen
  <2>3. \A d \in Calls : PC(d)' = IF d = c THEN "ok" ELSE PC(d)
    BY <2>1, GotoIsSeen
  <2>4. RecordMoves(c)
    BY <1>1, <2>2, <2>3 DEF RecordMoves
  <2>5. \A d \in Calls : CallMoves(d)
    BY <2>3 DEF CallMoves
  <2> QED BY <1>1, <2>2, <2>4, <2>5, RestKept DEF Effects, Effect
<1>3. CASE ~ open
  <2>1. Goto(c, "error") /\ UNCHANGED recordVars
    BY <1>3 DEF PostSendTrans
  <2>2. \A d \in Calls : CallMoves(d)
    BY <2>1, GotoIsSeen DEF CallMoves
  <2> QED BY <1>1, <2>1, <2>2, RecordsRest, RestKept DEF Effects, Effect
<1> QED BY <1>2, <1>3

LEMMA TransFailedTold ==
  ASSUME Inv, NEW c \in Calls, TransFailed(c) PROVE Effects
<1>1. /\ PC(c) = "failing" /\ Goto(c, "error")
      /\ UNCHANGED <<open, checks, chain, lost>>
  BY DEF TransFailed, At, PC, nodeVars
<1>2. \A d \in Calls : PC(d)' = IF d = c THEN "error" ELSE PC(d)
  BY <1>1, GotoIsSeen
<1>3. \A d \in Calls : CallMoves(d)
  BY <1>2 DEF CallMoves
<1>4. \A d \in Calls : RecordMoves(d)
  <2>1. CASE open
    <3>1. Write(c, [mem[c] EXCEPT !.status = "Failed"])
      BY <2>1 DEF TransFailed
    <3>2. /\ [mem[c] EXCEPT !.status = "Failed"] \in Records
          /\ [mem[c] EXCEPT !.status = "Failed"].status = "Failed"
      BY StatusIsTyped DEF Inv, RecordSide, Statuses
    <3>3. Writes(c, "Failed") /\ \A d \in Calls : d # c => RecordMoves(d)
      BY <1>1, <3>1, <3>2, WriteIsSeen
    <3> QED BY <1>1, <1>2, <3>3 DEF RecordMoves
  <2>2. CASE ~ open
    BY <2>2, RecordsRest DEF TransFailed
  <2> QED BY <2>1, <2>2
<1> QED BY <1>1, <1>3, <1>4, RestKept DEF Effects, Effect

LEMMA StartCheckTold ==
  ASSUME Inv, NEW c \in Calls, StartCheck(c) PROVE Effects
<1>1. /\ St(c) = "Sent"
      /\ checks' = [checks EXCEPT ![c] = @ \cup {Check("receipt", FALSE)}]
      /\ UNCHANGED <<runVars, recordVars, chain, lost>>
  BY DEF StartCheck, St, nodeVars
<1>2. \A d \in Calls : d # c => checks'[d] = checks[d]
  BY <1>1 DEF Inv, OtaSide, CheckTyped
<1>3. \A d \in Calls : ChecksMove(d) /\ ChainMoves(d)
  BY <1>1, <1>2 DEF ChecksMove, ChainMoves, St, recordVars
<1> QED BY <1>1, <1>3, RecordsRest, CallsKept DEF Effects, Effect

(* A check goes on, so that it had begun.                                  *)
LEMMA MoveIsSeen ==
  ASSUME Inv, NEW c \in Calls, NEW k, NEW S, k \in checks[c], Move(c, k, S)
  PROVE  \A d \in Calls : ChecksMove(d)
BY DEF Inv, OtaSide, CheckTyped, Move, ChecksMove

LEMMA AnsweredTold ==
  ASSUME Inv, NEW c \in Calls, NEW k \in Checks, Answered(c, k) PROVE Effects
<1>1. /\ k \in checks[c] /\ UNCHANGED <<open, runVars, chain, lost>>
      /\ \E S : Move(c, k, S)
  BY DEF Answered, ReceiptSuccess, ReceiptFailed, BlockRead, nodeVars
<1>2. \A d \in Calls : ChecksMove(d) /\ ChainMoves(d) /\ CallMoves(d)
  BY <1>1, MoveIsSeen, CallsKept DEF ChainMoves
<1>3. ReceiptSuccess(c, k) => \A d \in Calls : RecordMoves(d)
  <2> SUFFICES ASSUME ReceiptSuccess(c, k), NEW d \in Calls
               PROVE  RecordMoves(d)
    OBVIOUS
  <2>1. /\ chain[c] = "mined" /\ UNCHANGED file
        /\ mem' = IF k.old THEN mem ELSE [mem EXCEPT ![c].status = "Success"]
    BY DEF ReceiptSuccess
  <2>2. St(d)' = St(d) \/ (d = c /\ St(d)' = "Success")
    BY <2>1 DEF Inv, RecordSide, RecordTyped, Records, St
  <2>3. OnFile(d)' = OnFile(d)
    BY <2>1 DEF OnFile
  <2> QED BY <1>1, <2>1, <2>2, <2>3 DEF RecordMoves
<1>4. ReceiptFailed(c, k) => \A d \in Calls : RecordMoves(d)
  <2> SUFFICES ASSUME ReceiptFailed(c, k) PROVE \A d \in Calls : RecordMoves(d)
    OBVIOUS
  <2>1. chain[c] = "reverted"
    BY DEF ReceiptFailed
  <2>2. CASE open
    <3>1. Write(c, [mem[c] EXCEPT !.status = "Failed"])
      BY <2>2 DEF ReceiptFailed
    <3>2. /\ [mem[c] EXCEPT !.status = "Failed"] \in Records
          /\ [mem[c] EXCEPT !.status = "Failed"].status = "Failed"
      BY StatusIsTyped DEF Inv, RecordSide, Statuses
    <3>3. Writes(c, "Failed") /\ \A d \in Calls : d # c => RecordMoves(d)
      BY <1>1, <3>1, <3>2, WriteIsSeen
    <3> QED BY <1>1, <2>1, <3>3 DEF RecordMoves
  <2>3. CASE ~ open
    BY <2>3, RecordsRest DEF ReceiptFailed
  <2> QED BY <2>2, <2>3
<1>5. BlockRead(c, k) => \A d \in Calls : RecordMoves(d)
  <2> SUFFICES ASSUME BlockRead(c, k) PROVE \A d \in Calls : RecordMoves(d)
    OBVIOUS
  <2>1. chain[c] = "mined"
    BY <1>1 DEF BlockRead, Inv, OtaSide, OtaGood, BlockIsMined, HasBlockCheck
  <2>2. CASE open
    <3>1. Write(c, Record("Success", TRUE))
      BY <2>2 DEF BlockRead
    <3>2. /\ Record("Success", TRUE) \in Records
          /\ Record("Success", TRUE).status = "Success"
      BY RecordIsTyped DEF Statuses
    <3>3. Writes(c, "Success") /\ \A d \in Calls : d # c => RecordMoves(d)
      BY <1>1, <3>1, <3>2, WriteIsSeen
    <3> QED BY <1>1, <2>1, <3>3 DEF RecordMoves, Writes
  <2>3. CASE ~ open
    BY <2>3, RecordsRest DEF BlockRead
  <2> QED BY <2>2, <2>3
<1> QED BY <1>1, <1>2, <1>3, <1>4, <1>5 DEF Answered, Effects, Effect

LEMMA CheckEndsTold ==
  ASSUME Inv, NEW c \in Calls, NEW k \in Checks,
         ReceiptMissing(c, k) \/ BlockRejected(c, k)
  PROVE  Effects
<1>1. /\ k \in checks[c] /\ Move(c, k, {})
      /\ UNCHANGED <<runVars, recordVars, chain, lost>>
  BY DEF ReceiptMissing, BlockRejected, nodeVars
<1>2. \A d \in Calls : ChecksMove(d) /\ ChainMoves(d)
  BY <1>1, MoveIsSeen DEF ChainMoves
<1> QED BY <1>1, <1>2, RecordsRest, CallsKept DEF Effects, Effect

LEMMA ChainTold ==
  ASSUME Inv, NEW c \in Calls, Mine(c) \/ LandsLate(c) PROVE Effects
<1>1. UNCHANGED <<runVars, recordVars, checks, lost>>
  BY DEF Mine, LandsLate
<1>2. PICK st : /\ chain' = [chain EXCEPT ![c] = st]
                /\ \/ chain[c] = "pool" /\ st \in {"mined", "reverted"}
                   \/ chain[c] = "none" /\ st = "pool" /\ c \in lost
  BY DEF Mine, LandsLate
<1>3. \A d \in Calls : chain'[d] = IF d = c THEN st ELSE chain[d]
  BY <1>2 DEF Inv, NodeTyped
<1>4. \A d \in Calls : ChainMoves(d) /\ ChecksMove(d)
  BY <1>1, <1>2, <1>3 DEF ChainMoves, ChecksMove
<1> QED BY <1>1, <1>4, RecordsRest, CallsKept DEF Effects, Effect

LEMMA WalletTold ==
  ASSUME Inv, Close \/ Open \/ Crash PROVE Effects
<1>1. /\ lost \subseteq lost' /\ UNCHANGED <<chain, file>>
      /\ mem' = file \/ mem' = mem
  BY DEF Close, Open, Crash, nodeVars, recordVars
<1>2. \A c \in Calls : RecordMoves(c) /\ ChainMoves(c)
  BY <1>1 DEF RecordMoves, ChainMoves, St, OnFile
<1>3. \A c \in Calls : checks'[c] # {} => checks[c] # {}
  BY DEF Close, Open, Crash
<1>4. \A c \in Calls : PC(c)' \in {PC(c), "dead"}
  <2>1. CASE Close \/ Open
    BY <2>1 DEF Close, Open, runVars, PC
  <2>2. CASE Crash
    <3>1. call' = [c \in Calls |->
                     IF call[c].pc \in {"ready", "sending", "taken", "failing"}
                     THEN [call[c] EXCEPT !.pc = "dead"] ELSE call[c]]
      BY <2>2 DEF Crash
    <3> QED BY <3>1 DEF PC, Inv, CallSide, CallGood, CallTyped
  <2> QED BY <2>1, <2>2
<1> QED BY <1>1, <1>2, <1>3, <1>4 DEF Effects, Effect, ChecksMove, CallMoves

LEMMA StepIsTold ==
  ASSUME Inv, [Next]_vars PROVE Effects
<1>1. ASSUME NEW c \in Calls, RunStep(c) PROVE Effects
  BY <1>1, PreSendTransTold, NodeTakesTold, RetryTold, PostSendTransTold,
     TransFailedTold DEF RunStep
<1>2. ASSUME NEW c \in Calls, NEW k \in Checks,
             Answered(c, k) \/ ReceiptMissing(c, k) \/ BlockRejected(c, k)
      PROVE  Effects
  BY <1>2, AnsweredTold, CheckEndsTold
<1>3. ASSUME NEW c \in Calls,
             \/ Refused(c) \/ Prepare(c) \/ PrepareFails(c) \/ SendLost(c)
             \/ StartCheck(c) \/ Mine(c) \/ LandsLate(c)
      PROVE  Effects
  BY <1>3, PreparationTold, RetryTold, StartCheckTold, ChainTold
<1>4. CASE UNCHANGED vars
  <2>1. UNCHANGED <<runVars, recordVars, chain, checks, lost>>
    BY <1>4 DEF vars, nodeVars
  <2> QED BY <2>1, RecordsRest, RestKept, CallsKept DEF Effects, Effect
<1> QED BY <1>1, <1>2, <1>3, <1>4, WalletTold DEF Next

LEMMA StoriesInit == Init => Stories /\ Report!Init
<1> SUFFICES ASSUME Init PROVE Stories /\ Report!Init
  OBVIOUS
<1>1. \A c \in Calls :
        /\ PC(c) = "idle" /\ St(c) = "none" /\ OnFile(c) = "none"
        /\ chain[c] = "none" /\ checks[c] = {}
  BY DEF Init, Record, PC, St, OnFile
<1>2. \A c \in Calls : Fate(c) = "unsent" /\ Tale(c) = "nothing"
  BY <1>1 DEF Fate, Tale, St
<1>3. Stories
  BY <1>1 DEF Stories, Story, FileAgrees, RunTells, SentTells, CheckTells
<1>4. lost = {}
  BY DEF Init
<1> QED BY <1>2, <1>3, <1>4 DEF Report!Init

LEMMA StoriesStep == Inv /\ Inv' /\ Stories /\ [Next]_vars => Stories' /\ Report!Next
<1> SUFFICES ASSUME Inv, Inv', Stories, [Next]_vars
             PROVE  Stories' /\ Report!Next
  OBVIOUS
<1>1. Effects
  BY StepIsTold
<1>2. \A c \in Calls : Story(c)'
  BY <1>1, StoryKept DEF Stories, Effects
<1>3. lost \subseteq lost' /\ lost' \subseteq Calls
  BY <1>1 DEF Effects, Inv, NodeTyped
<1>4. \A c \in Calls : Fate(c)' \in Report!Fates /\ Tale(c)' \in Report!Tales
  <2> TAKE c \in Calls
  <2>1. /\ chain'[c] \in {"none", "pool", "mined", "reverted"}
        /\ mem'[c].status \in Statuses
    BY DEF Inv, NodeTyped, RecordSide, RecordTyped, Records
  <2> QED BY <2>1 DEF Fate, Tale, Statuses, Report!Fates, Report!Tales
<1>5. \A c \in Calls : Report!Fares(c)
  BY <1>1, <1>2, EffectIsTold DEF Report!Fares, Stories, Effects
<1>6. \A c \in Calls : Report!Tells(c)
  <2> TAKE c \in Calls
  <2>1. /\ Tale(c)' \in Report!After(Tale(c))
        /\ Tale(c)' = "sent" => Fate(c)' # "unsent"
        /\ Tale(c)' = "succeeded" => Fate(c)' = "mined"
        /\ Tale(c)' = "failed" =>
             Fate(c)' \in {"unsent", "reverted"} \/ c \in lost'
    BY <1>1, <1>2, EffectIsTold DEF Stories, Effects
  <2>2. Tale(c)' \in {"nothing", "sent", "succeeded", "failed"}
    BY <1>4 DEF Report!Tales
  <2> QED BY <2>1, <2>2 DEF Report!Tells, Report!TrueOf, Report!After
<1> QED BY <1>2, <1>3, <1>4, <1>5, <1>6 DEF Stories, Report!Next

(* The records tell the fate of their transactions: a success is told only *)
(* of a mined transaction, a failure of one that reverted or never reached *)
(* the node, and no step of a call, a check, a closing or a restart takes  *)
(* a failure back or turns an untold transaction into a success: for any   *)
(* calls and classes.                                                      *)
THEOREM RecordsTellTheFate == Spec => TellsItsFate
<1>1. Init => Inv /\ Stories /\ Report!Init
  BY InvInit, StoriesInit
<1>2. Inv /\ Stories /\ [Next]_vars => (Inv /\ Stories)' /\ [Report!Next]_(Report!reportVars)
  BY InvStep, StoriesStep
<1> QED BY <1>1, <1>2, PTL DEF Spec, TellsItsFate, Report!Spec
=============================================================================
