---------------------------- MODULE ApproveLock ----------------------------
(***************************************************************************)
(* The lock of an ERC20 or EOS token: up to three runs of CrossChain.run   *)
(* behind each other, approve(0) when an allowance is left, approve and    *)
(* lock.  None of them waits for the one before to be mined; that they are *)
(* mined in that order is the work of the nonces.  The calls here are of   *)
(* one account and one token, and share its nonces and its allowance.      *)
(*                                                                         *)
(* Meanwhile the monitor watches the approvals, and writes the record that *)
(* the call writes.  An input object is changed by the call, and may be    *)
(* invoked again after an error.  An action is the code between two        *)
(* awaits; a sending with all its tries is one step, see CrossTx.          *)
(***************************************************************************)
EXTENDS Integers, Sequences, FiniteSets, FiniteSetsExt

CONSTANTS Calls,      \* the input objects of LOCK calls
          Class,      \* their class and chain, one of Classes
          Amount,     \* the amount they ask for
          Invokes,    \* bound: how often each input object is invoked
          MaxTroubles \* bound: rejected calls, signatures and sendings

(* The class says how the lock is prepared: by approvals, for a contract   *)
(* that takes the tokens of its caller; or directly, on the EOS chain.     *)
CrossChainE20Lock == "approved"
CrossChainEosLockWan == "approved"
CrossChainEosLockEos == "direct"
Classes == {CrossChainE20Lock, CrossChainEosLockWan, CrossChainEosLockEos}

ASSUME ApproveAssumption ==
  /\ Class \in [Calls -> Classes]
  /\ Amount \in [Calls -> Nat \ {0}]
  /\ Invokes \in [Calls -> Nat] /\ MaxTroubles \in Nat

VARIABLES call,      \* where a call is, and its input object
          rec,       \* the record of the last x of the input
          checks,    \* checks of the monitor under way, by step and nonce
          slot,      \* the transactions of the account, by nonce
          mined,     \* the number of nonces that are mined
          allowance, \* of the account, for the HTLC contract
          disturbed, \* history: calls that did not have the account alone
          zeroed,    \* history: inputs whose approve(0) failed
          troubles

chainVars == <<mined, allowance>>
historyVars == <<disturbed, zeroed>>
vars == <<call, rec, checks, slot, chainVars, historyVars, troubles>>

Steps == {"zero", "approve", "lock"}
Pcs == {"idle", "start", "signed", "sending", "ok", "error"}
Statuses ==
  {"none", "ApproveZeroSending", "ApproveZeroSent", "ApprovedZero",
   "ApproveSending", "ApproveSent", "Approved", "ApproveFail",
   "LockSending", "LockSent", "LockFail"}

(* input.amount is changed for the time of approve(0); amount keeps what   *)
(* it was; own: the input has an x and a hashX.                            *)
CallTypes ==
  [pc: Pcs, step: Steps, input: Nat, amount: Nat, own: BOOLEAN, nonce: Nat,
   left: Nat]
RecordTypes == [status: Statuses, value: Nat, zeroTx: Nat, approveTx: Nat]
NoRecord == [status |-> "none", value |-> 0, zeroTx |-> 0, approveTx |-> 0]
TxTypes ==
  [call: Calls, step: Steps, value: Nat,
   state: {"taken", "hole", "sent", "ok", "reverted"}]

(* Every variable keeps its type; the nonces of a call are its own.        *)
TypeOK ==
  /\ call \in [Calls -> CallTypes]
  /\ rec \in [Calls -> RecordTypes]
  /\ checks \in [Calls -> SUBSET ({"zero", "approve"} \X (1 .. Len(slot)))]
  /\ slot \in Seq(TxTypes)
  /\ mined \in 0 .. Len(slot) /\ allowance \in Nat
  /\ disturbed \subseteq Calls /\ zeroed \subseteq Calls
  /\ troubles \in 0 .. MaxTroubles
  /\ \A c \in Calls :
       call[c].nonce # 0 =>
         call[c].nonce \in 1 .. Len(slot) /\ slot[call[c].nonce].call = c

At(c, pc) == call[c].pc = pc
Direct(c) == Class[c] = "direct"
Busy(c) == call[c].pc \in {"start", "signed", "sending"}
Trouble == troubles < MaxTroubles /\ troubles' = troubles + 1

-----------------------------------------------------------------------------
(* The nonces, see NonceManager: a hole first, else the next.              *)

HolesAndTaken == {i \in DOMAIN slot : slot[i].state \in {"hole", "taken"}}

Holes == {i \in DOMAIN slot : slot[i].state = "hole"}
NextNonce == IF Holes = {} THEN Len(slot) + 1 ELSE Min(Holes)
Take(tx) ==
  slot' = IF Holes = {} THEN Append(slot, tx)
                        ELSE [slot EXCEPT ![NextNonce] = tx]
AddNoHole(n) == slot' = slot

AddNonceHole(n) ==
  slot' = IF n = 0 THEN slot ELSE [slot EXCEPT ![n].state = "hole"]

-----------------------------------------------------------------------------
(* The calls.                                                              *)

ApproveFirstIfShort(c) ==
  IF allowance # 0 /\ allowance < call[c].input THEN "zero" ELSE "approve"

ApproveFirst(c) == IF allowance # 0 THEN "zero" ELSE "approve"

(* run() reads the allowance and turns to the first step.                  *)
ReadAllowance(c) ==
  LET step == IF Direct(c) THEN "lock" ELSE ApproveFirst(c)
      others == {d \in Calls \ {c} : Busy(d)}
      pending == \E i \in DOMAIN slot : slot[i].state = "sent"
  IN /\ call[c].pc \in {"idle", "error"} /\ call[c].left > 0
     /\ call' = [call EXCEPT
                   ![c].pc = "start", ![c].step = step, ![c].left = @ - 1,
                   ![c].amount = call[c].input, ![c].nonce = 0,
                   ![c].input = IF step = "zero" THEN 0 ELSE @,
                   ![c].own = @ \/ Direct(c)]
     /\ rec' = IF Direct(c) THEN [rec EXCEPT ![c] = NoRecord] ELSE rec
     /\ disturbed' = IF others # {} \/ pending
                     THEN disturbed \cup others \cup {c} ELSE disturbed
     /\ UNCHANGED <<checks, slot, chainVars, zeroed, troubles>>

(* createCommonData and createContractData: a nonce, an x unless the input *)
(* has one, and the amount.                                                *)
CreateData(c) ==
  /\ At(c, "start")
  /\ IF Direct(c)
     THEN call' = [call EXCEPT ![c].pc = "signed"] /\ UNCHANGED slot
     ELSE /\ call' = [call EXCEPT ![c].pc = "signed", ![c].nonce = NextNonce]
          /\ Take([call |-> c, step |-> call[c].step, value |-> call[c].input,
                   state |-> "taken"])
  /\ rec' = IF call[c].own THEN rec ELSE [rec EXCEPT ![c] = NoRecord]
  /\ UNCHANGED <<checks, chainVars, historyVars, troubles>>

FailsZero(c) == zeroed' = zeroed \cup {d \in {c} : call[c].step = "zero"}

(* A step fails before the sending: the call returns.  Of approve(0) the   *)
(* hashX is copied to the input once there is one.                         *)
PrepareFails(c) ==
  /\ call[c].pc \in {"start", "signed"} /\ Trouble
  /\ call' = [call EXCEPT
                ![c].pc = "error", ![c].nonce = 0,
                ![c].own = @ \/ (At(c, "signed") /\ call[c].step = "zero")]
  /\ AddNonceHole(call[c].nonce)
  /\ FailsZero(c)
  /\ UNCHANGED <<rec, checks, chainVars, disturbed>>

(* The record before the sending; one that exists is ApproveSending even   *)
(* when it is for approve(0).                                              *)
Sending(c) ==
  CASE call[c].step = "zero" ->
         IF rec[c] = NoRecord THEN "ApproveZeroSending" ELSE "ApproveSending"
    [] call[c].step = "approve" -> "ApproveSending"
    [] call[c].step = "lock" -> "LockSending"

PreSendTrans(c) ==
  /\ At(c, "signed")
  /\ call' = [call EXCEPT ![c].pc = "sending"]
  /\ rec' = [rec EXCEPT
               ![c].status = Sending(c),
               ![c].value = IF call[c].step = "lock" /\ ~ Direct(c) THEN @
                            ELSE call[c].input]
  /\ UNCHANGED <<checks, slot, chainVars, historyVars, troubles>>

OnwardsWithInput(c) ==
  call' = [call EXCEPT
             ![c].pc = IF @ = "sending" /\ call[c].step = "lock" THEN "ok"
                                                               ELSE "start",
             ![c].step = IF @ = "zero" THEN "approve" ELSE "lock",
             ![c].own = TRUE, ![c].nonce = 0]

(* What follows the sending of a step: the next step, with the amount put  *)
(* back and the hashX copied, or the end.                                  *)
Onwards(c) ==
  call' = [call EXCEPT
             ![c].pc = IF @ = "sending" /\ call[c].step = "lock" THEN "ok"
                                                               ELSE "start",
             ![c].step = IF @ = "zero" THEN "approve" ELSE "lock",
             ![c].input = call[c].amount,
             ![c].own = TRUE, ![c].nonce = 0]

(* The node takes the transaction, and postSendTrans.                      *)
PostSendTrans(c) ==
  LET n == call[c].nonce
  IN /\ At(c, "sending")
     /\ Onwards(c)
     /\ rec' = [rec EXCEPT ![c] =
                  CASE call[c].step = "zero" ->
                         [@ EXCEPT !.status = "ApproveZeroSent", !.zeroTx = n]
                    [] call[c].step = "approve" ->
                         [@ EXCEPT !.status = "ApproveSent", !.approveTx = n]
                    [] call[c].step = "lock" ->
                         [@ EXCEPT !.status = "LockSent"]]
     /\ slot' = IF Direct(c) THEN slot ELSE [slot EXCEPT ![n].state = "sent"]
     /\ UNCHANGED <<checks, chainVars, historyVars, troubles>>

FailedStatusOfApprove(c) ==
  IF ~ call[c].own \/ call[c].step = "lock" THEN rec[c].status
  ELSE "ApproveFail"

(* The tries are used up.  transFailed finds the record by the hashX of    *)
(* the input: an approval of an input without one throws, which run()      *)
(* turns into an error.                                                    *)
FailedStatus(c) ==
  IF ~ call[c].own THEN rec[c].status
  ELSE IF call[c].step = "lock" THEN "LockFail" ELSE "ApproveFail"

TransFailed(c) ==
  /\ At(c, "sending") /\ Trouble
  /\ call' = [call EXCEPT ![c].pc = "error", ![c].nonce = 0]
  /\ AddNonceHole(call[c].nonce)
  /\ rec' = [rec EXCEPT ![c].status = FailedStatus(c)]
  /\ FailsZero(c)
  /\ UNCHANGED <<checks, chainVars, disturbed>>

-----------------------------------------------------------------------------
(* The monitor: a check of an approval starts with the status of its       *)
(* sending, and ends by writing its own, whatever the status is then.      *)

StartCheck(c) ==
  /\ \/ /\ rec[c].status = "ApproveZeroSent"
        /\ checks' = [checks EXCEPT ![c] = @ \cup {<<"zero", rec[c].zeroTx>>}]
     \/ /\ rec[c].status = "ApproveSent"
        /\ checks' = [checks EXCEPT ![c] =
                        @ \cup {<<"approve", rec[c].approveTx>>}]
  /\ UNCHANGED <<call, rec, slot, chainVars, historyVars, troubles>>

Done(c, k) == checks' = [checks EXCEPT ![c] = @ \ {k}]

(* waitApproveZeroConfirm and waitApproveConfirm with a receipt of success.*)
Confirmed(c, k) ==
  /\ k \in checks[c] /\ slot[k[2]].state = "ok"
  /\ rec' = [rec EXCEPT ![c].status = IF k[1] = "zero" THEN "ApprovedZero"
                                                       ELSE "Approved"]
  /\ Done(c, k)
  /\ UNCHANGED <<call, slot, chainVars, historyVars, troubles>>

(* No receipt, or one of a failure: the next round asks again.             *)
Unconfirmed(c, k) ==
  /\ k \in checks[c]
  /\ Done(c, k)
  /\ UNCHANGED <<call, rec, slot, chainVars, historyVars, troubles>>

-----------------------------------------------------------------------------
(* The chain mines in the order of the nonces.  An approval of an amount   *)
(* is refused while another is left, which is what approve(0) is for; a    *)
(* lock takes the tokens that are approved.                                *)
Mine ==
  LET n == mined + 1
      tx == slot[n]
      fine == IF tx.step = "lock" THEN tx.value <= allowance
              ELSE tx.value = 0 \/ allowance = 0
  IN /\ mined < Len(slot) /\ tx.state = "sent"
     /\ mined' = n
     /\ slot' = [slot EXCEPT ![n].state = IF fine THEN "ok" ELSE "reverted"]
     /\ allowance' = IF ~ fine THEN allowance
                     ELSE IF tx.step = "lock" THEN allowance - tx.value
                     ELSE tx.value
     /\ UNCHANGED <<call, rec, checks, historyVars, troubles>>

Init ==
  /\ call = [c \in Calls |->
               [pc |-> "idle", step |-> "lock", input |-> Amount[c],
                amount |-> Amount[c], own |-> FALSE, nonce |-> 0,
                left |-> Invokes[c]]]
  /\ rec = [c \in Calls |-> NoRecord]
  /\ checks = [c \in Calls |-> {}]
  /\ slot = <<>> /\ mined = 0 /\ allowance = 0
  /\ disturbed = {} /\ zeroed = {}
  /\ troubles = 0

CallStep(c) ==
  ReadAllowance(c) \/ CreateData(c) \/ PrepareFails(c) \/ PreSendTrans(c)
  \/ PostSendTrans(c) \/ TransFailed(c)
MonitorStep(c) ==
  \/ StartCheck(c)
  \/ \E k \in checks[c] : Confirmed(c, k) \/ Unconfirmed(c, k)

Next == Mine \/ \E c \in Calls : CallStep(c) \/ MonitorStep(c)

Spec == Init /\ [][Next]_vars

-----------------------------------------------------------------------------
(* No transaction of a call is refused by the chain, if the call read the  *)
(* allowance when nothing of the account was on its way, and no other call *)
(* of the account ran with it.                                             *)
LoneLockIsCovered ==
  \A i \in DOMAIN slot :
    slot[i].state = "reverted" => slot[i].call \in disturbed

(* What a lock takes is what its record says, and what was asked for,      *)
(* unless the input was invoked again after its approve(0) failed.         *)
LockedAsAsked ==
  \A i \in DOMAIN slot :
    LET c == slot[i].call
    IN slot[i].step = "lock" /\ slot[i].state \in {"sent", "ok"} =>
         /\ slot[i].value = Amount[c] \/ c \in zeroed
         /\ ~ Busy(c) => slot[i].value = rec[c].value

(* A call that returned an error leaves no record that is being sent, but  *)
(* for an approval of an input that had no hashX yet.                      *)
ErrorIsRecorded ==
  \A c \in Calls :
    At(c, "error") /\ call[c].own =>
      rec[c].status
        \notin {"ApproveZeroSending", "ApproveSending", "LockSending"}

(* The nonces of the account are handed out as NonceDesk has it, with      *)
(* careful holders: whatever fails, and however the steps of the calls     *)
(* mix, a nonce has one holder and is never missing.                       *)
NoncesWith(states) == {i - 1 : i \in {j \in DOMAIN slot : slot[j].state \in states}}

Desk == INSTANCE NonceDesk
          WITH Accounts <- {1}, Account <- [c \in Calls |-> 1],
               Holders <- Calls, Careless <- {},
               top <- [a \in {1} |-> Len(slot) - 1],
               free <- [a \in {1} |-> NoncesWith({"hole"})],
               lease <- [c \in Calls |-> call[c].nonce - 1],
               node <- [a \in {1} |-> NoncesWith({"sent", "ok", "reverted"})]
ServesAsDesk == Desk!Spec

(* Every nonce below the next one is at the node, with a running call, or  *)
(* a hole that the next call fills, or the node would keep all later       *)
(* transactions of the account waiting.                                    *)
NoNonceIsMissing == Desk!NothingMissing

(* The order in which the tests wait for the statuses.                     *)
LockState ==
  <<"ApproveSending", "ApproveSent", "Approved", "LockSending", "LockSent">>
StatusMovesForward ==
  [][\A c \in Calls : \A i, j \in DOMAIN LockState :
       LockState[i] = rec[c].status /\ LockState[j] = rec[c].status' => i <= j
    ]_vars
=============================================================================
