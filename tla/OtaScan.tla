------------------------------- MODULE OtaScan -------------------------------
(***************************************************************************)
(* The scanner of one-time addresses (OTAs) of core/monitorOTA.js with its *)
(* tables (db/otaStorage.js, db/table.js).  Two timer loops share them:    *)
(* scan looks for the OTAs of the accounts given to startScan and widens   *)
(* the range each account has scanned, upwards to the head of the chain    *)
(* and downwards to block 0; fetchTransaction does the same for a local    *)
(* copy of all OTA transactions, from which scan reads when it can and     *)
(* from which the mix set of a refund is drawn.  An action is the code     *)
(* between two awaits.                                                     *)
(*                                                                         *)
(* The chain is external: it only grows (a block deeper than Boundary does *)
(* not change), and the API server answers truthfully, late, or not at all.*)
(***************************************************************************)
EXTENDS Integers, FiniteSets

CONSTANTS Accounts,   \* wallet accounts that may be given to startScan
          Otas,       \* the transactions that buy an OTA
          OtaAt,      \* the block of each
          OtaOf,      \* whose it is: an account, or somebody else
          MaxHeight,  \* bound: the height of the chain
          Boundary,   \* _SCAN_BOUNDARY
          BatchSize, BatchMax, BatchMin,  \* _SCAN_BATCH_SIZE, _MAX, _MIN
          Few, Many,  \* 10 and 20 transactions, which change the batch size
          OneTime,    \* _HANDLE_OTA_ONE_TIME
          RingSize,   \* privateTx:ringSize
          Lag,        \* bound: blocks mined while a call to the server is out
          MaxTroubles \* bound: rejected calls, restarts and deleteAll together

ASSUME OtaAssumption ==
  /\ IsFiniteSet(Otas)
  /\ OtaAt \in [Otas -> Nat \ {0}]
  /\ MaxHeight \in Nat /\ Boundary \in Nat
  /\ BatchSize \in Nat /\ BatchMax \in Nat /\ BatchMin \in Nat \ {0}
  /\ BatchMin <= BatchSize /\ BatchSize <= BatchMax
  /\ Few \in Nat /\ Many \in Nat
  /\ OneTime \in Nat \ {0} /\ RingSize \in Nat /\ Lag \in Nat
  /\ MaxTroubles \in Nat

VARIABLES height,    \* the block number of the chain
          keys,      \* _checkAccts: lost with the process
          starting,  \* accounts whose startScan waits for the block number
          recs, begin, end,  \* acctInfo: the accounts with a record, its range
          usr,       \* usrOTA: the OTAs found
          haveMine, myBegin, myEnd,  \* acctInfo of _MY_ACCT: what is fetched
          local,     \* otaData: the OTA transactions fetched
          mix,       \* val2ota: how often an OTA is in the list of its value
          pc, ks, from, to, lowEnd, todo, count,  \* a scan under way
          batch, last,  \* _lastBatchSize and _lastOTAinBatch
          fpc, fbgn, fend, ffrom, ftodo,  \* a fetch under way
          apart,     \* history: accounts credited with a range apart from theirs
          troubles

acctVars == <<recs, begin, end>>
mineVars == <<haveMine, myBegin, myEnd, local, mix>>
tableVars == <<acctVars, usr, mineVars>>
legVars == <<pc, ks, from, to, lowEnd, todo, count>>
scanVars == <<legVars, batch, last>>
fetchVars == <<fpc, fbgn, fend, ffrom, ftodo>>
vars == <<height, keys, starting, tableVars, scanVars, fetchVars, apart,
          troubles>>

(* Every variable keeps its type; the batch size stays within its bounds   *)
(* though it is halved and raised after every scan.                        *)
TypeOK ==
  /\ height \in 0 .. MaxHeight
  /\ keys \subseteq Accounts /\ starting \subseteq Accounts
  /\ recs \subseteq Accounts /\ apart \subseteq Accounts
  /\ begin \in [Accounts -> Nat] /\ end \in [Accounts -> Nat]
  /\ usr \subseteq Otas /\ local \subseteq Otas
  /\ haveMine \in BOOLEAN /\ myBegin \in Nat /\ myEnd \in Nat
  /\ mix \in [Otas -> Nat]
  /\ pc \in {"idle", "high", "low"} /\ ks \subseteq Accounts
  /\ from \in Nat /\ to \in Nat /\ lowEnd \in Nat
  /\ todo \subseteq Otas /\ count \in Nat
  /\ batch \in BatchMin .. BatchMax /\ last \in Int
  /\ fpc \in {"idle", "up", "down"}
  /\ fbgn \in Nat /\ fend \in Nat /\ ffrom \in Nat /\ ftodo \subseteq Otas
  /\ troubles \in 0 .. MaxTroubles

-----------------------------------------------------------------------------
(* The chain and the answers of the API server.                            *)

(* getBlockNumber: the answer may be some blocks old when it is handled.   *)
Answers == {h \in 0 .. height : h >= height - Lag}

NewBlock ==
  /\ height < MaxHeight
  /\ height' = height + 1
  /\ UNCHANGED <<keys, starting, tableVars, scanVars, fetchVars, apart,
                 troubles>>

(* A rejected call, a restart or a deletion.                               *)
Trouble == troubles < MaxTroubles /\ troubles' = troubles + 1

-----------------------------------------------------------------------------
(* startScan.                                                              *)

StartScanAnew(k) ==
  /\ k \notin keys
  /\ keys' = keys \cup {k}
  /\ starting' = starting \cup {k}
  /\ UNCHANGED <<height, tableVars, scanVars, fetchVars, apart, troubles>>

(* The key is in the memory before the record is in the table.             *)
StartScan(k) ==
  /\ k \notin keys
  /\ keys' = keys \cup {k}
  /\ starting' = IF k \in recs THEN starting ELSE starting \cup {k}
  /\ UNCHANGED <<height, tableVars, scanVars, fetchVars, apart, troubles>>

StartAnswered(k) ==
  /\ k \in starting
  /\ starting' = starting \ {k}
  /\ \E h \in Answers :
       /\ begin' = [begin EXCEPT ![k] = h]
       /\ end' = [end EXCEPT ![k] = h]
  /\ recs' = recs \cup {k}
  /\ UNCHANGED <<height, keys, usr, mineVars, scanVars, fetchVars, apart,
                 troubles>>

(* The call throws, but the account stays in _checkAccts: the next         *)
(* startScan returns false and no record is ever made for it.              *)
StartFails(k) ==
  /\ k \in starting /\ Trouble
  /\ starting' = starting \ {k}
  /\ UNCHANGED <<height, keys, tableVars, scanVars, fetchVars, apart>>

-----------------------------------------------------------------------------
(* scan and _scanRange.                                                    *)

(* _adjustBatchSize.                                                       *)
Clamped(n) ==
  IF n > BatchMax THEN BatchMax ELSE IF n < BatchMin THEN BatchMin ELSE n

Half(n) == n \div 2

UnclampedBatch ==
  IF last < 0 THEN Half(batch)
  ELSE IF last < Few THEN batch + BatchSize
  ELSE IF last > Many THEN Half(batch) ELSE batch

AdjustedBatch ==
  Clamped(IF last < 0 THEN (IF Half(batch) < BatchSize THEN Half(batch)
                                                       ELSE BatchSize)
          ELSE IF last < Few THEN batch + BatchSize
          ELSE IF last > Many THEN Half(batch)
          ELSE batch)

(* _getOTATxInRange: the local table when it has all of [b, e), else the   *)
(* server, which is asked up to e - 1.                                     *)
Fetched(b, e) == haveMine /\ b >= myBegin /\ e <= myEnd

TxInRange(b, e) ==
  IF Fetched(b, e) THEN {o \in local : b <= OtaAt[o] /\ OtaAt[o] <= e}
  ELSE {o \in Otas : b <= OtaAt[o] /\ OtaAt[o] <= e - 1}

(* The head of _scanRange: only the OTAs of the accounts matter later.     *)
Leg(p, b, e, accts, low) ==
  /\ pc' = p /\ ks' = accts /\ lowEnd' = low
  /\ from' = b /\ to' = e
  /\ todo' = {o \in TxInRange(b, e) : OtaOf[o] \in accts}
  /\ count' = Cardinality(TxInRange(b, e))

NoLeg ==
  /\ pc' = "idle" /\ ks' = {} /\ lowEnd' = 0
  /\ from' = 0 /\ to' = 0 /\ todo' = {} /\ count' = 0

LowBeginAbove(e, size) == IF e - size > 0 THEN e - size ELSE e

LowBegin(e, size) == IF e - size > 0 THEN e - size ELSE 0

(* The bounds of the two ranges over the records of the accounts.          *)
HighBegin(hardEnd) ==
  {n \in {hardEnd} \cup {end[k] : k \in keys \cap recs} :
     n <= hardEnd /\ \A k \in keys \cap recs : n <= end[k]}
LowEnd ==
  {n \in {0} \cup {begin[k] : k \in keys \cap recs} :
     \A k \in keys \cap recs : begin[k] <= n}

Scan ==
  /\ pc = "idle"
  /\ batch' = AdjustedBatch /\ last' = 0
  /\ \E h \in Answers, low \in LowEnd :
       \E high \in HighBegin(h - Boundary) :
         \/ /\ high < h - Boundary
            /\ Leg("high", high,
                   IF high + batch' < h - Boundary THEN high + batch'
                                                   ELSE h - Boundary, keys, low)
         \/ /\ high >= h - Boundary /\ low > 0
            /\ Leg("low", LowBegin(low, batch'), low, keys, low)
         \/ high >= h - Boundary /\ low = 0 /\ NoLeg
  /\ UNCHANGED <<height, keys, starting, tableVars, fetchVars, apart,
                 troubles>>

ScanFailsToStart ==
  /\ pc = "idle" /\ Trouble
  /\ last' = -1
  /\ UNCHANGED <<height, keys, starting, tableVars, legVars, batch, fetchVars,
                 apart>>

(* After a leg: the low one follows the high one.                          *)
NextLeg ==
  IF pc = "high" /\ lowEnd > 0
  THEN Leg("low", LowBegin(lowEnd, batch), lowEnd, ks, lowEnd)
  ELSE NoLeg

(* getOTAMixSet for _isOtaUsed needs the address and RingSize entries.     *)
MixTotal(m) == Cardinality(UNION {{<<o, i>> : i \in 1 .. m[o]} : o \in Otas})
HasMixSet(o) == mix[o] > 0 /\ MixTotal(mix) >= RingSize

(* _isOtaUsed answered; a record that exists is left alone.                *)
ScanFinds(o) ==
  /\ pc # "idle" /\ o \in todo /\ HasMixSet(o)
  /\ usr' = usr \cup {o}
  /\ todo' = todo \ {o}
  /\ UNCHANGED <<height, keys, starting, acctVars, mineVars, pc, ks, from, to,
                 lowEnd, count, batch, last, fetchVars, apart, troubles>>

(* NotReady: the range is not recorded, the other one still scanned.       *)
ScanNotReady(o) ==
  /\ pc # "idle" /\ o \in todo /\ ~ HasMixSet(o)
  /\ last' = last - 1
  /\ NextLeg
  /\ UNCHANGED <<height, keys, starting, tableVars, batch,
                 fetchVars, apart, troubles>>

Record(S) ==
  /\ begin' = [k \in Accounts |->
                 IF k \in S /\ from < begin[k] THEN from ELSE begin[k]]
  /\ end' = [k \in Accounts |->
               IF k \in S /\ to > end[k] THEN to ELSE end[k]]
  /\ apart' = apart \cup {k \in S : from > end[k] \/ to < begin[k]}

ScanRecordsEarly ==
  /\ pc # "idle" /\ ks \subseteq recs
  /\ Record(ks)
  /\ last' = last + count
  /\ NextLeg
  /\ UNCHANGED <<height, keys, starting, recs, usr, mineVars, batch, fetchVars,
                 troubles>>

(* The end of _scanRange: the range of every account grows.                *)
ScanRecords ==
  /\ pc # "idle" /\ todo = {} /\ ks \subseteq recs
  /\ Record(ks)
  /\ last' = last + count
  /\ NextLeg
  /\ UNCHANGED <<height, keys, starting, recs, usr, mineVars, batch, fetchVars,
                 troubles>>

(* An account without a record: the message about it reads an undeclared   *)
(* j and throws, after the accounts before it were updated.                *)
ScanThrows ==
  /\ pc # "idle" /\ todo = {} /\ ~ ks \subseteq recs
  /\ \E S \in SUBSET (ks \cap recs) : Record(S)
  /\ last' = -1
  /\ NoLeg
  /\ UNCHANGED <<height, keys, starting, recs, usr, mineVars, batch, fetchVars,
                 troubles>>

(* A rejected call anywhere in a leg ends the scan; the timer starts it    *)
(* again from the records.                                                 *)
ScanFails ==
  /\ pc # "idle" /\ Trouble
  /\ last' = -1
  /\ NoLeg
  /\ UNCHANGED <<height, keys, starting, tableVars, batch,
                 fetchVars, apart>>

-----------------------------------------------------------------------------
(* fetchTransaction and _doFetch, by block (the default of _FETCH_API).    *)

(* _adjustPreFetchSize.                                                    *)
FetchSize == BatchMin

TxOfBlocksBetween(b, e) == {o \in Otas : b < OtaAt[o] /\ OtaAt[o] < e}

(* getTxByBlock asks for every block from b to e, both included.           *)
TxOfBlocks(b, e) == {o \in Otas : b <= OtaAt[o] /\ OtaAt[o] <= e}

(* One call of _doFetch, for the blocks b to e; the down leg of the same   *)
(* fetch ends at bgn, the up leg at hi.                                    *)
FetchLeg(p, b, e, bgn, hi, was) ==
  /\ fpc' = p /\ fbgn' = bgn /\ fend' = hi /\ ffrom' = was
  /\ ftodo' = TxOfBlocks(b, e)

NoFetchLeg ==
  fpc' = "idle" /\ fbgn' = 0 /\ fend' = 0 /\ ffrom' = 0 /\ ftodo' = {}

(* The record of what is fetched starts empty at the latest block; the     *)
(* ends of both ranges are computed before the first is fetched.           *)
Fetch ==
  /\ fpc = "idle"
  /\ haveMine' = TRUE
  /\ \E h \in Answers :
       LET low == IF haveMine THEN myBegin ELSE h
           top == IF haveMine THEN myEnd ELSE h
           bgn == LowBegin(low, FetchSize)
           hi == IF top + FetchSize < h - Boundary THEN top + FetchSize
                                                   ELSE h - Boundary
       IN  /\ myBegin' = low /\ myEnd' = top
           /\ \/ top < hi /\ FetchLeg("up", top, hi, bgn, hi, top)
              \/ /\ top >= hi /\ bgn < low
                 /\ FetchLeg("down", bgn, low, bgn, top, top)
              \/ top >= hi /\ bgn >= low /\ NoFetchLeg
  /\ UNCHANGED <<height, keys, starting, acctVars, usr, local, mix, scanVars,
                 apart, troubles>>

(* The transactions are stored in the order of their blocks, OneTime of    *)
(* them before the CPU is released.                                        *)
Portion ==
  {S \in SUBSET ftodo :
     /\ \A o \in S, p \in ftodo \ S : OtaAt[o] <= OtaAt[p]
     /\ Cardinality(S) <= OneTime
     /\ S = ftodo \/ Cardinality(S) = OneTime}

(* addOTAIfNotExist and the insert in otaData: the list of the value gets  *)
(* the address again when its block is fetched again.                      *)
Stored(S) ==
  /\ local' = local \cup S
  /\ mix' = [o \in Otas |-> IF o \in S THEN mix[o] + 1 ELSE mix[o]]

FetchStores(S) ==
  /\ fpc # "idle" /\ S \in Portion /\ S # ftodo
  /\ Stored(S)
  /\ ftodo' = ftodo \ S
  /\ UNCHANGED <<height, keys, starting, acctVars, usr, haveMine, myBegin,
                 myEnd, scanVars, fpc, fbgn, fend, ffrom, apart, troubles>>

(* The last portion moves the end that was fetched.                        *)
FetchEnds ==
  /\ fpc # "idle" /\ ftodo \in Portion
  /\ Stored(ftodo)
  /\ IF fpc = "up"
     THEN /\ myEnd' = fend /\ UNCHANGED myBegin
          /\ IF fbgn < myBegin
             THEN FetchLeg("down", fbgn, myBegin, fbgn, fend, ffrom)
             ELSE NoFetchLeg
     ELSE myBegin' = fbgn /\ UNCHANGED myEnd /\ NoFetchLeg
  /\ UNCHANGED <<height, keys, starting, acctVars, usr, haveMine, scanVars,
                 apart, troubles>>

(* The server rejects or a promise times out; before the first portion or  *)
(* after some of them.                                                     *)
FetchFails ==
  /\ fpc # "idle" /\ Trouble
  /\ NoFetchLeg
  /\ UNCHANGED <<height, keys, starting, tableVars, scanVars, apart>>

-----------------------------------------------------------------------------
(* The process.                                                            *)

Stopped ==
  /\ NoLeg /\ NoFetchLeg
  /\ batch' = BatchSize /\ last' = -1

(* The tables survive.  Between the two legs of a fetch the new end is in  *)
(* the memory only, unless something else was written.                     *)
Restart ==
  /\ Trouble
  /\ keys' = {} /\ starting' = {}
  /\ Stopped
  /\ myEnd' \in {myEnd} \cup (IF fpc = "down" THEN {ffrom} ELSE {})
  /\ UNCHANGED <<height, acctVars, usr, haveMine, myBegin, local, mix, apart>>

(* hdUtil.deleteAll renames the database away; _checkAccts is not told.    *)
(* The model deletes only between two scans and fetches.                   *)
DeleteAll ==
  /\ Trouble
  /\ pc = "idle" /\ fpc = "idle"
  /\ recs' = {} /\ usr' = {} /\ local' = {} /\ haveMine' = FALSE
  /\ mix' = [o \in Otas |-> 0]
  /\ apart' = {}
  /\ UNCHANGED <<height, keys, starting, begin, end, myBegin, myEnd, scanVars,
                 fetchVars>>

Init ==
  /\ height = 0
  /\ keys = {} /\ starting = {}
  /\ recs = {}
  /\ begin = [k \in Accounts |-> 0] /\ end = [k \in Accounts |-> 0]
  /\ usr = {}
  /\ haveMine = FALSE /\ myBegin = 0 /\ myEnd = 0
  /\ local = {} /\ mix = [o \in Otas |-> 0]
  /\ pc = "idle" /\ ks = {} /\ from = 0 /\ to = 0 /\ lowEnd = 0
  /\ todo = {} /\ count = 0
  /\ batch = BatchSize /\ last = -1
  /\ fpc = "idle" /\ fbgn = 0 /\ fend = 0 /\ ffrom = 0 /\ ftodo = {}
  /\ apart = {}
  /\ troubles = 0

ScanStep ==
  \/ Scan \/ ScanRecords \/ ScanThrows
  \/ \E o \in Otas : ScanFinds(o) \/ ScanNotReady(o)

FetchStep == Fetch \/ FetchEnds \/ \E S \in SUBSET Otas : FetchStores(S)

Next ==
  \/ NewBlock
  \/ \E k \in Accounts : StartScan(k) \/ StartAnswered(k) \/ StartFails(k)
  \/ ScanStep \/ ScanFailsToStart \/ ScanFails
  \/ FetchStep \/ FetchFails
  \/ Restart \/ DeleteAll

Spec == Init /\ [][Next]_vars

(* The timers fire and the server answers the calls it does not reject;    *)
(* blocks, users and restarts owe nothing.                                 *)
Fairness ==
  /\ WF_vars(ScanStep) /\ WF_vars(FetchStep)
  /\ \A k \in Accounts : WF_vars(StartAnswered(k))

FairSpec == Spec /\ Fairness

-----------------------------------------------------------------------------
InRange(k, o) == begin[k] <= OtaAt[o] /\ OtaAt[o] < end[k]

(* What the range of an account says was scanned was scanned: an OTA of    *)
(* the account in it is in usrOTA, with failures and restarts anywhere,    *)
(* unless the account was credited with a range apart from its own.        *)
ScannedIsFound ==
  \A k \in recs \ apart : \A o \in Otas :
    OtaOf[o] = k /\ InRange(k, o) => o \in usr

(* The claim of the comment in _scanRange: what is inside the range of the *)
(* record is "Already scanned".                                            *)
NothingIsSkipped ==
  \A k \in recs : \A o \in Otas : OtaOf[o] = k /\ InRange(k, o) => o \in usr

(* When scan reads a range from the local table, the table has every OTA   *)
(* transaction of that range: what fetchTransaction calls fetched is there *)
(* although it moves its two ends after separate calls.                    *)
FetchedIsLocal ==
  haveMine =>
    \A o \in Otas : myBegin <= OtaAt[o] /\ OtaAt[o] < myEnd => o \in local

(* The range of an account that keeps its record only grows, and what was  *)
(* found stays found: no scan that ends late, restart, or startScan of an  *)
(* account that was scanned before takes anything back.                    *)
RangesOnlyGrow ==
  [][\A k \in recs \cap recs' :
       begin'[k] <= begin[k] /\ end[k] <= end'[k] /\ usr \subseteq usr']_vars

(* Every OTA of an account that is being scanned is found in the end, once *)
(* its block is deep enough: the two loops find all the chain upwards and  *)
(* downwards, and the mix set that a check needs fills up.  Accounts       *)
(* without a record (a failed startScan, a deleted database) end every     *)
(* scan of the others, so there must be none.                              *)
Scanning(o) ==
  /\ keys \subseteq recs
  /\ OtaOf[o] \in keys \ apart
  /\ OtaAt[o] < height - Boundary
  /\ Cardinality({p \in Otas : OtaAt[p] < height - Boundary}) >= RingSize

EveryOtaIsFound ==
  \A o \in Otas : []<>(Scanning(o) => o \in usr)

(* What the two "not exist" messages of scan and _scanRange mean to do:    *)
(* an account without a record is passed over, and the others go on being  *)
(* scanned.                                                                *)
ScannedDespiteOthers(o) ==
  /\ OtaOf[o] \in (keys \cap recs) \ apart
  /\ OtaAt[o] < height - Boundary
  /\ Cardinality({p \in Otas : OtaAt[p] < height - Boundary}) >= RingSize

OthersAreStillFound ==
  \A o \in Otas : []<>(ScannedDespiteOthers(o) => o \in usr)
=============================================================================
