# A verification project for wanchain-js-sdk

The SDK lets a wallet move coins between Wanchain and Ethereum, Bitcoin and EOS
with hash time-locked contracts (HTLC), and send ordinary transactions on each.
It runs in one JavaScript process on one event loop. It talks to an API server
over a web socket, which reads the chains for it, and it keeps records of what it
started in small JSON databases (lowdb). Nothing in it runs in parallel, but
every `await` lets timers and other calls in: the hard part of the code is what
happens between two awaits, what an answer is worth when it arrives, and what is
left of a record after an error or a restart.

The models are TLA+ modules; TLC checks them on small instances and TLAPS proves
the main properties for every value of the constants. Paths below are relative
to the repository.

## Parts of the system

| part | state | operations | hard behaviour |
|---|---|---|---|
| wallet core (`src/core/walletCore.js`, `CrossInvoker.js`) | globals: databases, sender, nonce map, timers; the class tables | `init`, `close`, `invoke`, timer callbacks | callbacks and calls that outlive `close` |
| cross-chain call (`src/trans/cross-chain/common/CrossChain.js`, `eth/`, `erc20/`, `eos/`) | one record per trade, by `hashX` | LOCK, REDEEM, REVOKE | retries, lost answers, a stop between two steps |
| approve and lock of a token (`erc20/CrossChainE20Lock.js`, `CrossChainE20Approve.js`, `eos/`) | the input object; the record; the allowance on the chain | approve(0), approve, lock | three transactions sent without waiting for each other |
| monitor (`src/core/monitor.js`) | none of its own: it moves the record on | receipt, event and block queries per status | many checks of one record at once, late answers |
| offers (`canRedeem`, `canRevoke` in `src/api/ccUtil.js`) | none | decide what the wallet may do | two clocks, missing time-outs |
| nonce manager (`src/api/ccUtil.js`) | last nonce used and list of holes per account, one mutex | take a nonce, give one back | mutex across a remote call, stale answers |
| BTC calls and monitor (`src/trans/cross-chain/btc`, `src/core/monitorBtc.js`) | record with confirmation counters | lock, notice, redeem, revoke | two transactions for one lock |
| normal transactions (`src/trans/normal-chain`, `src/trans/wan-special`, `src/core/monitorNormal.js`) | one record per transaction, the state of an OTA | send, wait for the receipt, refund of a private transaction, staking | success noted before the block is known, a wallet closed under a call |
| OTA scanner (`src/core/monitorOTA.js`, `src/db/otaStorage.js`) | range scanned per account, one-time addresses (OTAs) found, local copy of the OTA transactions | start, scan, fetch transactions | adaptive batches, two loops over the same tables, gaps |
| sender (`src/sender`) | web socket, pending callbacks, circuit breaker | call, reconnect, heartbeat | answers after time-outs |
| coin selection (`btcCoinSelect` in `src/api/ccUtil.js`) | none | choose UTXOs | dust and fees |
| HD wallets (`src/hdwallet`, `src/api/hdUtil.js`) | keys, addresses, the safe | connect, unlock, derive, sign | external devices |
| databases (`src/db`) | files | insert, update, upgrade | live objects, writes that come late |
| transaction data, signatures (`src/trans/tx-data-creator`, `src/trans/data-sign`) | none | build and sign | none: no state |
| name service (`src/wns`) | none | contract calls | uses the nonce manager |

A call takes a nonce from the nonce manager, writes the record, sends through the
sender and writes the record again. The monitor reads the same record every 13
seconds, starts one check for each and does not wait for it; a check asks the
server and sets fields of the live object lowdb returned, so the record changes in
memory at once and on disk with the next write of any record.

## Modules

### HtlcChains, HtlcReport, CrossTx: one trade

`HtlcChains` is external: the source chain's and the destination chain's HTLC
entry for the hash of the user's secret, the transactions of the calls, the
storeman group and the clock. A node keeps a transaction it accepted, mines it
or lets it fail; a redemption is only taken before the lock's time-out and a
revocation only after two periods, as the contracts the SDK calls do.

`CrossTx` is the SDK's side for ETH, ERC20 and EOS.

* `SrcChains`, `DstChains`, `Config` and `ClassOf` are the tables of `CrossInvoker`
  and `invoke`: by the token's standard (`Standard`) and the direction (`Inbound`) they
  give the class of each call, with the statuses it writes and the precondition it
  asks. Only the ERC20 and EOS classes ask `canRedeem` and `canRevoke` (`Prechecked`).
* `mem` and `disk`: the record in lowdb's memory and in the file. `Save` is
  `insertItem` or `updateItem`, which write the whole memory; the mark
  `BuddyLocked` in `BuddyReceipt` changes `mem` only.
* `run`: the calls of `CrossChain.run()`. `Invoke` is the part up to the first
  await, `PrepareFails` an error in steps 1 to 3, `PreSendTrans` the record
  written before the first sending, `SendAnswered` and `SendRejected` the two
  ends of `sendTrans` with its retries, `TransFailed` the last step of a failed
  call. "Known transaction" is an answer, not an error.
* `check`: the checks in flight. `StartCheck` reads the record, and each
  continuation of a check is an action: the receipt, the block, the event of the
  other chain, the second look at the status. `CheckRejected` is any await that
  rejects. An answer and the moment at which the server read its chain are
  separate where it matters (`RedeemEventRead`, `RevokeEventRead`).
  `HasCrossType` is `checkCrossType`: for an ETH pair it returns nothing, and the look
  for an event throws.
* `Restart` reloads the file and drops calls and checks; `OtherWrite` is the
  write of any other record.

`HtlcReport` is the abstract specification: facts about the swap happen in the
order the contracts allow, and the record tells one that has happened, or
nothing. `TellsWhatHappened` says CrossTx implements it.

### NonceManager: the nonces of an account

`mutex`, `used` and `holes` are `global.mutexNonce`, `usedPendingNonce` and
`nonceHoleList`. A call asks (`Ask`), gets the mutex (`LockMutex`: test and
assignment in one continuation), is answered by the server (`ReadPending`; the
answer may be old when it arrives) and takes the pending nonce, the first hole or
the next nonce (`TakePending`, `TakeHole`, `TakeNext`). It sends (`Sent`) or fails
(`GivesUp`) and gives the nonce back (`AddHole`). `Creator` says which data creator
a call has, and so how it comes to its nonce: from the manager, from the input
first (`OwnNonce`; the ETH calls and the lock of WBTC), or from WAN's list although it is
given back to BTC's (`RedeemTxBtc`). `accepted`, `wire` and `stray` are external: what
the node has, what may still arrive although the call was told it failed, and what
the process has not seen accepted.

`NonceDesk` is the abstract specification of handing out nonces, whoever does it: a desk
per account leases a nonce to one holder, what is brought back is leased before anything
new (`Refill`, `Issue`), and the count only jumps when the node has everything below
(`CatchUp`). `ServesAsDesk` says that NonceManager implements it: a lease is the nonce of a
call between `TakePending`, `TakeHole` or `TakeNext` and the end of its sending; `Arrive` is the
network, `Close` a restart, and the BTC redeems, whose nonce goes back to the wrong list, are the
careless holders. From the first nonce on that a user brings, the desks count as closed (`Opened`).

### ApproveLock: approve(0), approve and lock

`CrossChainE20Lock.run` and `CrossChainEosLock.run` read the allowance and then run up to
three `CrossChain.run()` behind each other without waiting for any to be mined.

* `call`: where each call is and its input object, which the code changes: `input` is
  `input.amount` (0 while approve(0) runs), `amount` the value it is put back from, `own`
  whether the input has a `hashX` already. `left` counts invocations: an input may be
  invoked again after an error.
* `ReadAllowance`, `CreateData`, `PreSendTrans`, `PostSendTrans`, and the failures
  `PrepareFails` and `TransFailed`, are the code between two awaits; a sending with all
  its tries is one step, since CrossTx has them apart.
* `slot`: the account's transactions by nonce. `Take` and `AddNonceHole` are the nonce
  manager's choice, first hole or next, without what NonceManager has of it. `Mine` is the
  chain, external: in the order of the nonces; an approval over another is refused, a lock
  takes the tokens approved.
* `checks`: `waitApproveZeroConfirm` and `waitApproveConfirm`, which write their status
  whatever the status is by then.
* `Class`: an ERC20 lock, an EOS lock on Wanchain (approved alike) or one on the EOS
  chain, which needs neither approval nor nonce (`Direct`).

ApproveLock has only the manager's choice of a nonce. That this choice is no other than the
manager's is its own `ServesAsDesk`: it implements NonceDesk with one account and careful
holders. `NoNonceIsMissing` is then the desk's `NothingMissing`, read in this model's state.

### BtcTx: a trade with Bitcoin

`BtcTx` is one trade between Bitcoin and Wanchain in either direction (`inbound`, a
variable that the initial state chooses and no step changes). The clock is the order of the instants the code compares with:
`buddyLockedTimeOut`, the storeman's time-out, the user's, and `htlcTimeOut`, which
`CrossChainBtcLock.preSendTrans` computes so (one lock period, the same on the
chain, two periods, and two hours more for Bitcoin's lag).

* `Lock`, `Redeem` and `Revoke` begin a call; `SendAnswered`, `SendFails` and
  `TransFailed` end it. What comes before `sendTrans` and the loop over `tryTimes`
  are part of "send", because nothing is written there (CrossTx has them apart).
  An inbound LOCK goes on to run the notice (`NoticeCall`), whose answer sets
  `LockSending` again.
* `check`, `handling`: `monitorTaskBtc` with `handlingList`. `StartCheck` keeps the
  hash and the number of blocks it asks for, as the closure of the check does;
  each answer is an action (`LockOnline`, .. `RevokeConfirm`), `NotYet` is an answer
  that says nothing, `CheckRejected` an await that rejects. `Expire` is an entry
  older than 300 s whose check goes on.
* `rec` and `file` differ as in CrossTx; `OtherWrite` and `Restart` too.
* The two chains are external: a Bitcoin node refuses a double spend and a refund
  before its lock time, Wanchain takes a call and may fail it. Wallets may
  ask `canRedeem` and `canRevoke` first (`WalletAsks`) or not: `run()` has no
  precondition here.

It implements `HtlcReport` as well.

### NormalTx: transactions of one chain

`NormalChain.run` and the classes built on it, with `monitorNormal.js`.

* `Kind` is a call's class: thirteen of them, by what `run()` and the monitor make of
  them (where the nonce comes from, what the record is annotated with, which
  status follows the sending; a Bitcoin transfer is `Success` at once).
* `call`, `given`: `Refused`, `Prepare`, `PrepareFails`, `PreSendTrans`, the tries
  (`NodeTakes`, `NodeKnows`, `SendRefused`, `SendLost`) and the ends (`PostSendTrans`,
  `TransFailed`). A node that knows the transaction answers with an error like any
  other here, unlike in CrossTx. Without a database a write throws; where that is
  caught decides whether the nonce goes back.
* `checks`: `waitNormalConfirm`; the status of the live object is set before the block is
  asked for, so a check has two stages. Several checks of one record overlap.
* `ota`: the state of the one-time address a private refund spends, marked by the monitor
  or by `handleSendTranError`.
* `open`, `mem`, `file`: `walletCore.close` and `init` drop the live objects, while calls and checks
  under way go on with the old ones (`Check(stage, old)`); `Crash` ends them.

`TxReport` is its abstract specification, for the wallet that shows the records: each
transaction has a fate (unsent, in the pool, mined, reverted) and its record a tale, which is
true of the fate and moves on with it. A failure is told for good; a success may be forgotten,
because the file still has `Sent` when the live object has `Success`, and is found out again.
`TellsItsFate` says that NormalTx implements it, with `Tale` and `Fate` as the mapping; all
transactions may move in one step, since a restart reads every record again.

### OtaScan: the scanner of one-time addresses

Two timer loops share tables. `scan` looks for the OTAs of the accounts given to
`startScan`, upwards from the lowest end of their ranges and then downwards from the
highest begin (`Scan`, `ScanFinds`, `ScanNotReady`, `ScanRecords`, `ScanThrows`, `ScanFails`).
`fetchTransaction` keeps a local copy of all OTA transactions (`Fetch`, `FetchStores`,
`FetchEnds`, `FetchFails`), from which `scan` reads when it covers the range, and from which
the mix set of a check is drawn.

* `recs`, `begin`, `end`: `acctInfo`; `usr`: `usrOTA`; `myBegin`, `myEnd`, `local`, `mix`:
  the record of what is fetched, `otaData` and the list per value.
* `keys` is `_checkAccts`, in memory only and filled before the record is
  (`StartScan`, `StartAnswered`, `StartFails`).
* `batch`, `last` with `AdjustedBatch`: `_adjustBatchSize`. `Portion`: how many transactions are
  stored before the CPU is released.
* The server's answers may be some blocks old (`Answers`). `Restart` keeps the tables, but
  the upper end that a fetch moved in memory only; `DeleteAll` is
  `hdUtil.deleteAll` between two scans.

## Runs

Every run's constants are in its `.cfg`. T is one lock period; with T = 1 the clock
passes before, at and after each time-out. `CHECK_DEADLOCK FALSE`: the bounded
number of calls ends and nothing is left to do.

| run | what it shows | bounds |
|---|---|---|
| `cross_e20` | safety of an ERC20 trade, whose calls check a precondition; what says Redeemed or Revoked stays so | 2 redeems, 1 revoke, 2 checks, 2 faults, 1 restart, 2 tries |
| `cross_live` | fair ERC20 trade: sent transactions get decided, locked funds stay recoverable, and without a restart no record stays in a ..Sending status | 2 redeems, 1 revoke, 1 check at a time, 1 fault, 1 restart, 1 try |
| `cross_loop` | finding: for ETH a sent transaction may never be decided, without any fault | 1 redeem, 1 revoke, 1 check |
| `cross_offer` | finding: a BuddyLocked record that canRedeem refuses | 1 redeem, 1 fault |
| `nonce_calls` | no nonce is forgotten, or reused but for strays; NonceDesk is implemented, so that none is in two places; everyone who waits for the mutex is served | 3 calls of one account (an ERC20 lock, a BTC redeem, an ETH redeem with its own nonce), 2 transactions of another wallet, 2 restarts |
| `approve_lock` | safety of three locks of one account, of whose nonces none is missing | one ERC20 lock invoked twice, an EOS lock on Wanchain of another amount, one on EOS, 1 failure |
| `approve_late` | finding: a check of the approval puts a lock's status back | 1 call, no failure needed |
| `btc_trade` | a fair trade in either direction: its safety; what is settled stays so; locked coins come to be revocable; a redemption nothing competes with comes to be told | 1 redeem, 1 revoke, 2 checks, 1 fault, 1 expired check, 1 restart |
| `normal_tx` | two private refunds of one OTA: what is recorded as failed or refunded is so, what is sent is settled; NormalTx implements TxReport | 2 tries each, 2 rejected calls, closings or crashes |
| `ota_scan` | what is recorded as scanned or fetched was, ranges only grow; every OTA of a scanned account is found | 2 accounts with an OTA each, 3 blocks, batches of 1 to 2, 1 rejected call, restart or deletion |
| `ota_gap` | finding: a range is widened over blocks never scanned | 2 accounts, 3 OTAs, 5 blocks, no trouble |
| `ota_orphan` | finding: an account whose startScan failed stops the scan of the others | as `ota_scan` |

The safety of ETH and EOS trades, of several accounts, of other classes of calls, of
Bitcoin wallets that do not ask first (`WalletAsks = FALSE`) and of longer chains is what
the theorems add to these runs: they hold for every value of those constants. Some
invariants are proved and not run, because another property of the run says more or
the run is too slow with them: `SettledIsOnChain` (a part of `TellsWhatHappened`),
`MutexIsHeldByOne` and `NonceIsInOnePlace` (behind `ServesAsDesk`), `OneCheckAtATime` and
`RestartLosesOnlyStoremanLock` of BtcTx (parts of its inductive invariant), and the
refinement of NonceDesk by ApproveLock, of which `approve_lock` checks the consequence
`NoNonceIsMissing`.

Why the bounds are enough for the cases to happen. Two checks, two redeems and two
faults let a late check overtake another, a retry fail because its copy worked,
and an error hit either of two awaits; a restart forgets everything else, so that
one is as good as several for a safety property. Three calls are a holder, a
giver-back and a taker of a hole; the first that is done is outlived by what it
left on the wire. In BtcTx a redeem and a revoke are the two that
compete for the coins (trades with more calls are the theorems' part), a counter needs two rounds (`confirmBlocks` is 2 and a counter stops there), and
one expired check is what lets a second one in. In ApproveLock the call that is
invoked twice leaves an allowance behind, so that its second run needs approve(0)
while another call may be between its steps; a failed approve(0) leaves both a hole below
nonces that are sent and an input whose amount stayed 0. In NormalTx one of the
refunds wins and the other is refused, reverts, or is retried after a lost
answer. In OtaScan three blocks and a batch of one or two give an up leg, a down
leg and a fetch of each kind that overlap.

Fairness. The event loop runs each continuation and timer; every API call ends
within its 300 s time-out; the monitors' timers fire again and again; a chain
settles what a node accepted and its clock goes on. Users and storemen owe
nothing, no fault is fair. The mutex needs no strong fairness: calls are
finitely many, and each asks once. A check of NormalTx may find no receipt again
and again, so the answer that says something is strongly fair: the server answers
a call that is repeated for ever. In OtaScan no block, user or restart is fair;
`EveryOtaIsFound` says of the instants at which the chain is deep enough
that what is in it is found. `RedeemIsTold` speaks of one redemption, with no
revocation begun and no expired check, and its counterpart for revocations does not
hold: a check
that waits at "crossConfirm" writes `BuddyLocked` over the `RevokeSending` of a REVOKE
that came meanwhile, and a second inbound redemption that fails ends in
`RedeemSendFail`, which nothing watches. No document promises otherwise, so these are
hazards and not findings; the coins stay recoverable (`LockedIsRecoverable`).

Preconditions that the properties state, because the code breaks them otherwise:
`SendingIsResolvedByRun` is about a process that is not restarted (a restart between
`preSendTrans` and the answer leaves the record in ..Sending); `RefundIsNoted` excepts a
check that got the receipt and not the block (`unread`), after which no
round looks at the record again; `FailedIsNotSent` a call that lost an answer
(`lost`); `LoneLockIsCovered` calls that shared the account (`disturbed`), since the
allowance is read once, before the sendings; `LockedAsAsked` an input whose approve(0) failed
(`zeroed`), whose amount stays 0; `EveryOtaIsFound` accounts without a record,
which end every scan with an error (`ota_orphan` shows it); `SettledStays` a user who called REDEEM
or REVOKE again and a LOCK still under way, whose late end writes the record again.

## Proofs

`CrossTxProofs`. `TypeCorrect` first. `IInv` strengthens the safety properties with
what a status, a time-out and a stage of a check mean on the chains: a stored
`htlcTimeOut` is that of the mined lock, a check that looks for the buddy's block
has seen its event with the right value, a record with a lock hash had its lock
signed. The properties are not inductive without it, because a check carries what
it saw across an await. Each action has its lemma; the theorems then follow by
temporal reasoning. `OffersNeverMeet` needs no more: the storeman locks at most one period
after the user, so that the time `canRedeem` compares with is not after the one of
`canRevoke`, and each belongs to a mined lock.
`TellsTheTruth` is the refinement: each step of CrossTx is a
`Happen`, a `Tell`, or a stutter of HtlcReport. `SettledForGood` is about steps: a late check may
still write. `TraceInv` ties every check and every settled record to a call that was made, and a
check that looks for an event to a transaction that failed; with one call they are the same
call, and its transaction has not both failed and settled the swap.

`NonceProofs`. `Basic` is types and the mutex. `Places` adds `Bounds` (what is held or
a hole was handed out before; below an answer of the server everything is
accepted; beyond the last nonce handed out only strays are), `OnePlace`,
`Covered` and `ReusedStray`. An answer may be old: it is the mutex that keeps
`used` and `holes` still until it arrives, and monotony of `accepted` that keeps the
answer a lower bound. The three properties about nonces speak of the time before a user
brings a nonce of their own (`NoOwnNonce`, a part of each): from then on the
manager's list may hold anything. `ManagerServesAsDesk` takes the steps one by one: asking and
waiting for the mutex stutter, the three ways to take a nonce are `CatchUp`, `Refill` and
`Issue`, and `CatchUp` may be taken because the answer is a lower bound of what is accepted.

`NonceDeskProofs` proves of the abstract specification, for any accounts and holders, that a
nonce has one holder (`DeskIsExclusive`) and that with careful holders none is missing
(`DeskForgetsNothing`). This is proved once and holds for whatever implements NonceDesk.

`BtcTxProofs`. `BtcTypes`, then `BtcInductive` for an `IInv` of five parts besides
the types: the order of the swap on the chains, what a status says of them
(`RecordInv`), what a check knows at the await where it stands (`CheckInv`), what a
wallet that asked has been told (`OfferInv`) and, without an expiry, that the count a
check took along is still the record's (`CountInv`). All it says of the chains
stays true when they move on (`Grows`), so a step has to be looked at only for what
the wallet changes. The last check that fills a counter has waited for the whole
depth because it is alone: this is where `ConfirmedIsDeep` needs `handlingList`.

`OtaProofs`. `FetchInv` adds to `FetchedIsLocal` what a fetch under way still owes: every
OTA of its blocks is local already or in `ftodo`. `ScanInv` adds to `ScannedIsFound` the same of a leg
of a scan: an OTA of its accounts is found or in `todo`, which rests on `FetchedIsLocal`
where the leg was read from the local table. A leg that touches the range of an
account then makes the range their union. `NothingIsUnscanned` is the action property: it needs
`StartsWithoutRecord`, that an account which waits for its first block number has no
record, for else the answer would put its range at the head of the chain.

`NormalProofs`. `CallSide` says that a call has nothing at the node before it is taken
and after it gave up, `RecordSide` that a record that failed, in memory or in the
file, reverted or never will be at the node, `OtaSide` that a check waiting for a
block has a mined transaction and a mined refund spent its OTA. Closing moves
between the two copies of a record, so both are needed. For `RecordsTellTheFate` each call has
its `Story` besides: the file lags behind the live object with a success at most
(`FileAgrees`), a running call's record is `Sending` until the node has the transaction
(`RunTells`), and a check is about a record that was `Sent` (`CheckTells`). Every
action is shown to be an `Effect` on each call, one of seven ways to move a record, three to
move the chain and the moves of a call; `StoryKept` and `EffectIsTold` are then about
effects alone, not about actions.

`ApproveProofs`. The heart is `LoneLockCovered`, about three transactions of which
none waits for another. `HeldInv` and `SlotInv` tie a nonce to its call. `Queue(c, k)` says of an
undisturbed call that runs that what it sent fills the nonces up to k, and
everything behind is a hole, so that its next nonce is k + 1 even when the manager
fills holes first; `Ready` and `Follows` say that each transaction is fine when the one
before it of the same call has been mined. `AskedInv` follows the amount through
approve(0), `StatusInv` the record. `LocksServeAsDesk` maps the slots of the account to a desk
that never closes. `NoNonceMissing` is not proved about ApproveLock again: it instantiates
`DeskForgetsNothing` of NonceDeskProofs through the mapping and applies it to the refinement.

Assumptions on constants are the named `ASSUME`s of HtlcChains, CrossTx,
NonceManager, BtcTx, OtaScan, NormalTx and ApproveLock. Every invariant, every action
property and every refinement that a passing run checks is a theorem. Liveness under fairness
(`SentIsDecided` and the other properties under a fair specification) is only model-checked: the
prover has no rule for ENABLED. So is what the runs that show a finding
check, which is false. In `OtaScan` no theorem needs the bound on the chain's height, on
troubles or on the lag of an answer, nor do the others need theirs on calls and faults.

## Findings

* `cross_loop`: `checkCrossType` (`src/core/monitor.js`) only knows ERC20 and EOS. For ETH
  the check of a redemption or revocation that failed throws before it can look at the
  events, so the record stays ..Sent for ever, which the comment in
  `waitRedeemConfirm` says the look at the events is there to avoid.
* `cross_offer`: `waitBuddyLockConfirm` sets `BuddyLocked` before it awaits the
  block and stores the time-out after; in between, and for ever when that await
  rejects, `canRedeem` refuses. `test/inboundETH.js` asserts the opposite.
* `ota_gap`: `_scanRange` widens the range of every account to the hull of its range and
  the one scanned, also when they do not touch; what lies between is taken as "Already
  scanned" and is not.
* `ota_orphan`: an account whose `startScan` was rejected stays in `_checkAccts` without a
  record. `_scanRange` has a message and a `continue` for it, but the message reads a `j` that is not
  declared: every later scan throws there, and the accounts after it are not scanned further.
* `approve_late`: `waitApproveConfirm` sets `Approved` over `LockSending` or `LockSent`, after
  which nothing confirms the lock; the tests wait for the statuses in the other order.

Seen while modelling and not shown by a run: a normal transaction that is `Sending` when
the process ends stays so, since `monitorNormal` only looks at `Sent`; opening the
databases again while a scan goes on resets the scanner's lists and batches under it.
`LockTxWbtcDataCreator` sets its result to success after the nonce was refused; the model
takes the refusal as a failure.

## Not modelled

* Sender: the web socket's library and the small circuit breaker of `iWanRpc.js`. Its callers
  see answers that are late, lost or errors, and these are in every module. The
  breaker's counters are left out.
* Coin selection and fees: a sequential computation without state.
* HD wallets, keystores, encryption, signatures and encodings: cryptography and devices; no
  property here depends on their bytes. Of the data creators only the nonce and the
  amount are modelled.
* Name service: contract calls without state of their own.
* The token lists that `CrossInvoker` refreshes, and the conversions of old
  database files at start.
* Of the scanner: closing or deleting the databases during a scan, and the other
  fetch interface, which is not the default.
* Gas and fees everywhere. Amounts are left out of CrossTx but for the one comparison that
  `waitBuddyLockConfirm` makes, and of BtcTx but for whether the storeman's lock is the
  agreed one. Wording of errors and logging are left out.

## Plan

1. Done: `HtlcChains`, `CrossTx`, `HtlcReport`, `NonceManager`, `BtcTx`, `ApproveLock`, `NormalTx`,
   `OtaScan` and their proofs; the abstract specifications `HtlcReport`, `NonceDesk` and `TxReport`, each
   with the refinements that implement it.
2. Next, if the code grows there: closing during a scan in `OtaScan`; the circuit breaker;
   an abstract specification of what the scanner has covered, which would state
   `ScannedIsFound` and `RangesOnlyGrow` as one; what TxReport and HtlcReport imply for any
   implementation, as NonceDeskProofs does for NonceDesk.
