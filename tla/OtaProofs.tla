----------------------------- MODULE OtaProofs -----------------------------
(***************************************************************************)
(* Proofs about OtaScan: its types, that the local copy of the chain has   *)
(* what its record says, and that what an account's range says was scanned *)
(* was scanned and stays so, for any accounts, transactions, batch sizes   *)
(* and troubles.                                                           *)
(***************************************************************************)
EXTENDS OtaScan, TLAPS, FiniteSetTheorems

AcctTyped ==
  /\ recs \subseteq Accounts /\ apart \subseteq Accounts
  /\ begin \in [Accounts -> Nat] /\ end \in [Accounts -> Nat]
  /\ usr \subseteq Otas
MineTyped ==
  /\ local \subseteq Otas /\ haveMine \in BOOLEAN
  /\ myBegin \in Nat /\ myEnd \in Nat
  /\ mix \in [Otas -> Nat]
LegTyped ==
  /\ pc \in {"idle", "high", "low"} /\ ks \subseteq Accounts
  /\ from \in Nat /\ to \in Nat /\ lowEnd \in Nat
  /\ todo \subseteq Otas /\ count \in Nat
SizeTyped == batch \in BatchMin .. BatchMax /\ last \in Int
FetchTyped ==
  /\ fpc \in {"idle", "up", "down"}
  /\ fbgn \in Nat /\ fend \in Nat /\ ffrom \in Nat /\ ftodo \subseteq Otas
RestTyped ==
  /\ height \in 0 .. MaxHeight
  /\ keys \subseteq Accounts /\ starting \subseteq Accounts
  /\ troubles \in 0 .. MaxTroubles

(* The type invariant is the conjunction of its groups, now and after a    *)
(* step.                                                                   *)
LEMMA TypeGroups ==
  TypeOK <=> AcctTyped /\ MineTyped /\ LegTyped /\ SizeTyped /\ FetchTyped
             /\ RestTyped
BY DEF TypeOK, AcctTyped, MineTyped, LegTyped, SizeTyped, FetchTyped, RestTyped

LEMMA TypeGroupsNext ==
  ASSUME AcctTyped', MineTyped', LegTyped', SizeTyped', FetchTyped', RestTyped'
  PROVE  TypeOK'
BY DEF TypeOK, AcctTyped, MineTyped, LegTyped, SizeTyped, FetchTyped, RestTyped

-----------------------------------------------------------------------------
(* What a scan and a fetch under way still owe.                            *)

LegIsTracked ==
  pc # "idle" =>
    \A o \in Otas :
      OtaOf[o] \in ks /\ from <= OtaAt[o] /\ OtaAt[o] < to
        => o \in todo \cup usr

FetchIsTracked ==
  /\ fpc # "idle" => haveMine
  /\ fpc = "up" =>
       \A o \in Otas :
         myEnd <= OtaAt[o] /\ OtaAt[o] <= fend => o \in ftodo \cup local
  /\ fpc = "down" =>
       /\ ffrom <= myEnd
       /\ \A o \in Otas :
            fbgn <= OtaAt[o] /\ OtaAt[o] <= myBegin => o \in ftodo \cup local
  /\ fpc = "up" => ffrom <= fend

FetchInv == FetchedIsLocal /\ FetchIsTracked
ScanInv == ScannedIsFound /\ LegIsTracked
Inv == TypeOK /\ FetchInv /\ ScanInv

(* The batch size stays between its bounds.                                *)
LEMMA BatchInBounds ==
  ASSUME SizeTyped PROVE AdjustedBatch \in BatchMin .. BatchMax
<1> DEFINE n == IF last < 0 THEN (IF Half(batch) < BatchSize THEN Half(batch)
                                                         ELSE BatchSize)
                ELSE IF last < Few THEN batch + BatchSize
                ELSE IF last > Many THEN Half(batch) ELSE batch
<1>1. batch \in Nat /\ BatchSize \in Nat
  BY OtaAssumption DEF SizeTyped
<1>2. Half(batch) \in Nat
  BY <1>1 DEF Half
<1>3. n \in Nat
  BY <1>1, <1>2
<1>4. Clamped(n) \in BatchMin .. BatchMax
  <2> HIDE DEF n
  <2> QED BY <1>3, OtaAssumption DEF Clamped
<1> QED BY <1>4 DEF AdjustedBatch

(* A leg has its types, and starts owing every OTA of its accounts that    *)
(* the range holds.                                                        *)
LEMMA LegStarts ==
  ASSUME MineTyped, FetchedIsLocal,
         NEW p \in {"high", "low"}, NEW b \in Nat, NEW e \in Nat,
         NEW a \in SUBSET Accounts, NEW l \in Nat, Leg(p, b, e, a, l)
  PROVE  /\ LegTyped'
         /\ \A o \in Otas : OtaOf[o] \in ks' /\ from' <= OtaAt[o]
                            /\ OtaAt[o] < to' => o \in todo'
<1>1. TxInRange(b, e) \subseteq Otas
  BY DEF TxInRange, MineTyped
<1>2. Cardinality(TxInRange(b, e)) \in Nat
  BY <1>1, OtaAssumption, FS_Subset, FS_CardinalityType
<1>3. ASSUME NEW o \in Otas, b <= OtaAt[o], OtaAt[o] < e
      PROVE  o \in TxInRange(b, e)
  <2>1. OtaAt[o] \in Nat
    BY OtaAssumption
  <2>2. CASE Fetched(b, e)
    <3>1. myBegin <= OtaAt[o] /\ OtaAt[o] < myEnd /\ OtaAt[o] <= e
      BY <1>3, <2>1, <2>2 DEF Fetched, MineTyped
    <3>2. o \in local
      BY <3>1, <2>2 DEF Fetched, FetchedIsLocal
    <3> QED BY <1>3, <2>2, <3>1, <3>2 DEF TxInRange
  <2>3. CASE ~ Fetched(b, e)
    <3>1. OtaAt[o] <= e - 1
      BY <1>3, <2>1
    <3> QED BY <1>3, <2>3, <3>1 DEF TxInRange
  <2> QED BY <2>2, <2>3
<1>4. LegTyped'
  BY <1>1, <1>2 DEF Leg, LegTyped
<1> QED BY <1>3, <1>4 DEF Leg

LEMMA NoLegTyped ==
  ASSUME NoLeg PROVE LegTyped' /\ LegIsTracked'
BY DEF NoLeg, LegTyped, LegIsTracked

LEMMA LowBeginNat ==
  ASSUME NEW e \in Nat, NEW n \in Nat
  PROVE  LowBegin(e, n) \in Nat /\ LowBegin(e, n) <= e
BY DEF LowBegin

LEMMA AnswersNat == RestTyped => Answers \subseteq Nat
BY OtaAssumption DEF Answers, RestTyped

LEMMA NextLegGood ==
  ASSUME MineTyped, FetchedIsLocal, LegTyped, SizeTyped, NextLeg
  PROVE  LegTyped' /\ LegIsTracked'
<1>1. batch \in Nat
  BY OtaAssumption DEF SizeTyped
<1>2. CASE pc = "high" /\ lowEnd > 0
  <2>1. Leg("low", LowBegin(lowEnd, batch), lowEnd, ks, lowEnd)
    BY <1>2 DEF NextLeg
  <2>2. LowBegin(lowEnd, batch) \in Nat
    BY <1>1, LowBeginNat DEF LegTyped
  <2> QED BY <2>1, <2>2, LegStarts DEF LegTyped, LegIsTracked
<1>3. CASE ~ (pc = "high" /\ lowEnd > 0)
  BY <1>3, NoLegTyped DEF NextLeg
<1> QED BY <1>2, <1>3

-----------------------------------------------------------------------------
(* What a step leaves alone keeps what it was.                             *)

LEMMA AcctKept ==
  ASSUME UNCHANGED <<acctVars, usr, apart>>, AcctTyped, ScannedIsFound
  PROVE  AcctTyped' /\ ScannedIsFound'
BY DEF acctVars, AcctTyped, ScannedIsFound, InRange

LEMMA MineKept ==
  ASSUME UNCHANGED mineVars, MineTyped, FetchedIsLocal
  PROVE  MineTyped' /\ FetchedIsLocal'
BY DEF mineVars, MineTyped, FetchedIsLocal

LEMMA LegKept ==
  ASSUME UNCHANGED legVars, LegTyped
  PROVE  LegTyped' /\ (LegIsTracked /\ usr \subseteq usr' => LegIsTracked')
BY DEF legVars, LegTyped, LegIsTracked

LEMMA FetchKept ==
  ASSUME UNCHANGED fetchVars, FetchTyped
  PROVE  /\ FetchTyped'
         /\ UNCHANGED mineVars /\ FetchIsTracked => FetchIsTracked'
BY DEF fetchVars, FetchTyped, mineVars, FetchIsTracked

LEMMA NoFetchLegGood ==
  ASSUME NoFetchLeg PROVE FetchTyped' /\ FetchIsTracked'
BY DEF NoFetchLeg, FetchTyped, FetchIsTracked

LEMMA StoredTyped ==
  ASSUME MineTyped, NEW S \in SUBSET Otas, Stored(S)
  PROVE  /\ local' = local \cup S /\ local' \subseteq Otas
         /\ mix' \in [Otas -> Nat]
<1>1. local' = local \cup S /\ local' \subseteq Otas
  BY DEF Stored, MineTyped
<1>2. mix' \in [Otas -> Nat]
  BY DEF Stored, MineTyped
<1> QED BY <1>1, <1>2

LEMMA TroubleTyped ==
  ASSUME RestTyped, Trouble PROVE troubles' \in 0 .. MaxTroubles
BY OtaAssumption DEF RestTyped, Trouble

(* A leg of a fetch owes every OTA transaction of its blocks.              *)
LEMMA FetchLegStarts ==
  ASSUME NEW p \in {"up", "down"}, NEW b \in Nat, NEW e \in Nat,
         NEW g \in Nat, NEW h \in Nat, NEW w \in Nat,
         FetchLeg(p, b, e, g, h, w)
  PROVE  /\ FetchTyped'
         /\ fpc' = p /\ fbgn' = g /\ fend' = h /\ ffrom' = w
         /\ \A o \in Otas : b <= OtaAt[o] /\ OtaAt[o] <= e => o \in ftodo'
BY DEF FetchLeg, FetchTyped, TxOfBlocks

-----------------------------------------------------------------------------
(* The two actions of fetchTransaction that move its record.               *)

LEMMA FetchGood ==
  ASSUME Inv, Fetch
  PROVE  MineTyped' /\ FetchedIsLocal' /\ FetchTyped' /\ FetchIsTracked'
<1>0. MineTyped /\ FetchTyped /\ RestTyped /\ FetchedIsLocal
  BY TypeGroups DEF Inv, FetchInv
<1>1. PICK h \in Answers :
        LET low == IF haveMine THEN myBegin ELSE h
            top == IF haveMine THEN myEnd ELSE h
            bgn == LowBegin(low, FetchSize)
            hi == IF top + FetchSize < h - Boundary THEN top + FetchSize
                                                    ELSE h - Boundary
        IN  /\ myBegin' = low /\ myEnd' = top
            /\ \/ top < hi /\ FetchLeg("up", top, hi, bgn, hi, top)
               \/ /\ top >= hi /\ bgn < low
                  /\ FetchLeg("down", bgn, low, bgn, top, top)
               \/ top >= hi /\ bgn >= low /\ NoFetchLeg
  BY DEF Fetch
<1> DEFINE low == IF haveMine THEN myBegin ELSE h
           top == IF haveMine THEN myEnd ELSE h
           bgn == LowBegin(low, FetchSize)
           hi == IF top + FetchSize < h - Boundary THEN top + FetchSize
                                                   ELSE h - Boundary
<1>2. h \in Nat
  BY <1>0, AnswersNat
<1>3. low \in Nat /\ top \in Nat /\ FetchSize \in Nat
  BY <1>0, <1>2, OtaAssumption DEF MineTyped, FetchSize
<1>4. bgn \in Nat /\ hi \in Int
  <2>1. bgn \in Nat
    <3> HIDE DEF low
    <3> QED BY <1>3, LowBeginNat
  <2>2. hi \in Int
    BY <1>2, <1>3, OtaAssumption
  <2> QED BY <2>1, <2>2
<1>5. /\ myBegin' = low /\ myEnd' = top
      /\ \/ top < hi /\ FetchLeg("up", top, hi, bgn, hi, top)
         \/ top >= hi /\ bgn < low /\ FetchLeg("down", bgn, low, bgn, top, top)
         \/ top >= hi /\ bgn >= low /\ NoFetchLeg
  BY <1>1
<1>6. haveMine' /\ local' = local /\ mix' = mix
  BY DEF Fetch
<1>7. FetchedIsLocal'
  <2>1. SUFFICES ASSUME NEW o \in Otas, low <= OtaAt[o], OtaAt[o] < top
                 PROVE  o \in local
    BY <1>5, <1>6 DEF FetchedIsLocal
  <2>2. OtaAt[o] \in Nat
    BY OtaAssumption
  <2>3. haveMine
    BY <2>1, <2>2, <1>2
  <2> QED BY <2>1, <2>3, <1>0 DEF FetchedIsLocal
<1>8. MineTyped'
  BY <1>0, <1>3, <1>5, <1>6 DEF MineTyped
<1> HIDE DEF low, top, bgn, hi
<1>9. CASE top < hi /\ FetchLeg("up", top, hi, bgn, hi, top)
  <2>1. hi \in Nat
    BY <1>3, <1>4, <1>9
  <2>2. /\ FetchTyped'
        /\ fpc' = "up" /\ fbgn' = bgn /\ fend' = hi /\ ffrom' = top
        /\ \A o \in Otas : top <= OtaAt[o] /\ OtaAt[o] <= hi => o \in ftodo'
    BY <1>3, <1>4, <1>9, <2>1, FetchLegStarts
  <2>3. FetchIsTracked'
    BY <1>3, <1>5, <1>6, <1>9, <2>1, <2>2 DEF FetchIsTracked
  <2> QED BY <1>7, <1>8, <2>2, <2>3
<1>10. CASE top >= hi /\ bgn < low /\ FetchLeg("down", bgn, low, bgn, top, top)
  <2>1. /\ FetchTyped'
        /\ fpc' = "down" /\ fbgn' = bgn /\ fend' = top /\ ffrom' = top
        /\ \A o \in Otas : bgn <= OtaAt[o] /\ OtaAt[o] <= low => o \in ftodo'
    BY <1>3, <1>4, <1>10, FetchLegStarts
  <2>2. FetchIsTracked'
    BY <1>3, <1>5, <1>6, <2>1 DEF FetchIsTracked
  <2> QED BY <1>7, <1>8, <2>1, <2>2
<1>11. CASE NoFetchLeg
  BY <1>7, <1>8, <1>11, NoFetchLegGood
<1> QED BY <1>5, <1>9, <1>10, <1>11

LEMMA FetchEndsGood ==
  ASSUME Inv, FetchEnds
  PROVE  MineTyped' /\ FetchedIsLocal' /\ FetchTyped' /\ FetchIsTracked'
<1>0. MineTyped /\ FetchTyped /\ FetchedIsLocal /\ FetchIsTracked
  BY TypeGroups DEF Inv, FetchInv
<1>1. ftodo \in SUBSET Otas /\ Stored(ftodo)
  BY <1>0 DEF FetchEnds, FetchTyped
<1>2. /\ local' = local \cup ftodo /\ local' \subseteq Otas
      /\ mix' \in [Otas -> Nat]
  BY <1>0, <1>1, StoredTyped
<1>3. haveMine /\ haveMine' = haveMine
  BY <1>0 DEF FetchEnds, FetchIsTracked
<1>4. CASE fpc = "up"
  <2>1. /\ myEnd' = fend /\ myBegin' = myBegin
        /\ IF fbgn < myBegin
           THEN FetchLeg("down", fbgn, myBegin, fbgn, fend, ffrom)
           ELSE NoFetchLeg
    BY <1>4 DEF FetchEnds
  <2>2. MineTyped'
    BY <1>0, <1>2, <1>3, <2>1 DEF MineTyped, FetchTyped
  <2>3. ASSUME NEW o \in Otas, myBegin <= OtaAt[o], OtaAt[o] < fend
        PROVE  o \in local'
    <3>1. OtaAt[o] \in Nat
      BY OtaAssumption
    <3>2. CASE OtaAt[o] < myEnd
      BY <1>0, <1>2, <1>3, <2>3, <3>2 DEF FetchedIsLocal
    <3>3. CASE myEnd <= OtaAt[o]
      <4>1. OtaAt[o] <= fend
        BY <2>3, <3>1, <1>0 DEF FetchTyped
      <4> QED BY <1>0, <1>2, <1>4, <3>3, <4>1 DEF FetchIsTracked
    <3> QED BY <3>1, <3>2, <3>3, <1>0 DEF MineTyped
  <2>4. FetchedIsLocal'
    BY <2>1, <2>3 DEF FetchedIsLocal
  <2>5. CASE fbgn < myBegin
    <3>1. /\ FetchTyped'
          /\ fpc' = "down" /\ fbgn' = fbgn /\ fend' = fend /\ ffrom' = ffrom
          /\ \A o \in Otas :
               fbgn <= OtaAt[o] /\ OtaAt[o] <= myBegin => o \in ftodo'
      BY <1>0, <2>1, <2>5, FetchLegStarts DEF FetchTyped, MineTyped
    <3>2. FetchIsTracked'
      BY <1>0, <1>3, <1>4, <2>1, <3>1 DEF FetchIsTracked
    <3> QED BY <2>2, <2>4, <3>1, <3>2
  <2>6. CASE ~ (fbgn < myBegin)
    BY <2>1, <2>2, <2>4, <2>6, NoFetchLegGood
  <2> QED BY <2>5, <2>6
<1>5. CASE fpc # "up"
  <2>1. fpc = "down"
    BY <1>0, <1>5 DEF FetchEnds, FetchTyped
  <2>2. myBegin' = fbgn /\ myEnd' = myEnd /\ NoFetchLeg
    BY <1>5 DEF FetchEnds
  <2>3. MineTyped'
    BY <1>0, <1>2, <1>3, <2>2 DEF MineTyped, FetchTyped
  <2>4. ASSUME NEW o \in Otas, fbgn <= OtaAt[o], OtaAt[o] < myEnd
        PROVE  o \in local'
    <3>1. OtaAt[o] \in Nat
      BY OtaAssumption
    <3>2. CASE myBegin <= OtaAt[o]
      BY <1>0, <1>2, <1>3, <2>4, <3>2 DEF FetchedIsLocal
    <3>3. CASE OtaAt[o] <= myBegin
      BY <1>0, <1>2, <2>1, <2>4, <3>3 DEF FetchIsTracked
    <3> QED BY <3>1, <3>2, <3>3, <1>0 DEF MineTyped
  <2>5. FetchedIsLocal'
    BY <2>2, <2>4 DEF FetchedIsLocal
  <2> QED BY <2>2, <2>3, <2>5, NoFetchLegGood
<1> QED BY <1>4, <1>5

-----------------------------------------------------------------------------
(* The fetching side of every step.                                        *)

QuietFetch == UNCHANGED <<mineVars, fetchVars>>

LEMMA QuietFetchGood ==
  ASSUME Inv, QuietFetch
  PROVE  MineTyped' /\ FetchedIsLocal' /\ FetchTyped' /\ FetchIsTracked'
<1>1. MineTyped /\ FetchTyped /\ FetchedIsLocal /\ FetchIsTracked
  BY TypeGroups DEF Inv, FetchInv
<1>2. UNCHANGED mineVars /\ UNCHANGED fetchVars
  BY DEF QuietFetch
<1> QED BY <1>1, <1>2, MineKept, FetchKept

LEMMA FetchStoresGood ==
  ASSUME Inv, NEW S \in SUBSET Otas, FetchStores(S)
  PROVE  MineTyped' /\ FetchedIsLocal' /\ FetchTyped' /\ FetchIsTracked'
<1>0. MineTyped /\ FetchTyped /\ FetchedIsLocal /\ FetchIsTracked
  BY TypeGroups DEF Inv, FetchInv
<1>1. /\ Stored(S) /\ ftodo' = ftodo \ S
      /\ haveMine' = haveMine /\ myBegin' = myBegin /\ myEnd' = myEnd
      /\ fpc' = fpc /\ fbgn' = fbgn /\ fend' = fend /\ ffrom' = ffrom
  BY DEF FetchStores
<1>2. /\ local' = local \cup S /\ local' \subseteq Otas
      /\ mix' \in [Otas -> Nat]
  BY <1>0, <1>1, StoredTyped
<1>3. MineTyped' /\ FetchTyped'
  BY <1>0, <1>1, <1>2 DEF MineTyped, FetchTyped
<1>4. FetchedIsLocal'
  BY <1>0, <1>1, <1>2 DEF FetchedIsLocal
<1>5. \A o \in Otas : o \in ftodo \cup local => o \in ftodo' \cup local'
  BY <1>1, <1>2
<1>6. FetchIsTracked'
  BY <1>0, <1>1, <1>5 DEF FetchIsTracked
<1> QED BY <1>3, <1>4, <1>6

LEMMA FetchFailsGood ==
  ASSUME Inv, FetchFails
  PROVE  MineTyped' /\ FetchedIsLocal' /\ FetchTyped' /\ FetchIsTracked'
<1>1. MineTyped /\ FetchedIsLocal
  BY TypeGroups DEF Inv, FetchInv
<1>2. UNCHANGED mineVars /\ NoFetchLeg
  BY DEF FetchFails, tableVars
<1> QED BY <1>1, <1>2, MineKept, NoFetchLegGood

(* A restart may put the upper end back to what the file has.              *)
LEMMA RestartGood ==
  ASSUME Inv, Restart
  PROVE  MineTyped' /\ FetchedIsLocal' /\ FetchTyped' /\ FetchIsTracked'
<1>0. MineTyped /\ FetchTyped /\ FetchedIsLocal /\ FetchIsTracked
  BY TypeGroups DEF Inv, FetchInv
<1>1. /\ NoFetchLeg
      /\ haveMine' = haveMine /\ myBegin' = myBegin
      /\ local' = local /\ mix' = mix
      /\ myEnd' \in {myEnd} \cup (IF fpc = "down" THEN {ffrom} ELSE {})
  BY DEF Restart, Stopped
<1>2. myEnd' \in Nat /\ myEnd' <= myEnd
  <2>1. CASE fpc = "down"
    <3>1. ffrom <= myEnd /\ ffrom \in Nat /\ myEnd \in Nat
      BY <1>0, <2>1 DEF FetchIsTracked, FetchTyped, MineTyped
    <3>2. myEnd' = myEnd \/ myEnd' = ffrom
      BY <1>1, <2>1
    <3> QED BY <3>1, <3>2
  <2>2. CASE fpc # "down"
    BY <1>0, <1>1, <2>2 DEF MineTyped
  <2> QED BY <2>1, <2>2
<1>3. MineTyped'
  BY <1>0, <1>1, <1>2 DEF MineTyped
<1>4. FetchedIsLocal'
  <2>1. SUFFICES ASSUME haveMine, NEW o \in Otas,
                        myBegin <= OtaAt[o], OtaAt[o] < myEnd'
                 PROVE  o \in local
    BY <1>1 DEF FetchedIsLocal
  <2>2. OtaAt[o] < myEnd
    BY <1>0, <1>2, <2>1, OtaAssumption DEF MineTyped
  <2> QED BY <1>0, <2>1, <2>2 DEF FetchedIsLocal
<1> QED BY <1>1, <1>3, <1>4, NoFetchLegGood

LEMMA DeleteAllGood ==
  ASSUME Inv, DeleteAll
  PROVE  MineTyped' /\ FetchedIsLocal' /\ FetchTyped' /\ FetchIsTracked'
<1>0. MineTyped /\ FetchTyped
  BY TypeGroups DEF Inv
<1>1. MineTyped'
  BY <1>0 DEF DeleteAll, MineTyped
<1>2. FetchTyped' /\ FetchIsTracked'
  BY <1>0 DEF DeleteAll, fetchVars, FetchTyped, FetchIsTracked
<1>3. FetchedIsLocal'
  BY DEF DeleteAll, FetchedIsLocal
<1> QED BY <1>1, <1>2, <1>3

LEMMA FetchSide ==
  ASSUME Inv, [Next]_vars
  PROVE  MineTyped' /\ FetchedIsLocal' /\ FetchTyped' /\ FetchIsTracked'
<1>1. CASE NewBlock
  BY <1>1, QuietFetchGood DEF NewBlock, QuietFetch, tableVars
<1>2. ASSUME NEW k \in Accounts, StartScan(k) PROVE QuietFetch
  BY <1>2 DEF StartScan, QuietFetch, tableVars
<1>3. ASSUME NEW k \in Accounts, StartAnswered(k) PROVE QuietFetch
  BY <1>3 DEF StartAnswered, QuietFetch
<1>4. ASSUME NEW k \in Accounts, StartFails(k) PROVE QuietFetch
  BY <1>4 DEF StartFails, QuietFetch, tableVars
<1>5. CASE Scan
  BY <1>5, QuietFetchGood DEF Scan, QuietFetch, tableVars
<1>6. CASE ScanRecords \/ ScanThrows
  BY <1>6, QuietFetchGood DEF ScanRecords, ScanThrows, QuietFetch
<1>7. ASSUME NEW o \in Otas, ScanFinds(o) \/ ScanNotReady(o) PROVE QuietFetch
  BY <1>7 DEF ScanFinds, ScanNotReady, QuietFetch, tableVars
<1>8. CASE ScanFailsToStart \/ ScanFails
  BY <1>8, QuietFetchGood
     DEF ScanFailsToStart, ScanFails, QuietFetch, tableVars
<1>9. CASE UNCHANGED vars
  BY <1>9, QuietFetchGood DEF vars, QuietFetch, tableVars
<1>10. CASE Fetch
  BY <1>10, FetchGood
<1>11. CASE FetchEnds
  BY <1>11, FetchEndsGood
<1>12. CASE \E S \in SUBSET Otas : FetchStores(S)
  BY <1>12, FetchStoresGood
<1>13. CASE FetchFails \/ Restart \/ DeleteAll
  BY <1>13, FetchFailsGood, RestartGood, DeleteAllGood
<1> QED
  BY <1>1, <1>2, <1>3, <1>4, <1>5, <1>6, <1>7, <1>8, <1>9, <1>10, <1>11, <1>12,
     <1>13, QuietFetchGood DEF Next, ScanStep, FetchStep

-----------------------------------------------------------------------------
(* The scanning side of every step.                                        *)

AcctGood == AcctTyped /\ ScannedIsFound
LegGood == LegTyped /\ LegIsTracked
QuietAcct == UNCHANGED <<acctVars, usr, apart>>
QuietLeg == UNCHANGED <<legVars, usr>>

LEMMA QuietAcctGood ==
  ASSUME Inv, QuietAcct PROVE AcctGood'
<1>1. AcctTyped /\ ScannedIsFound
  BY TypeGroups DEF Inv, ScanInv
<1> QED BY <1>1, AcctKept DEF QuietAcct, AcctGood

LEMMA QuietLegGood ==
  ASSUME Inv, QuietLeg PROVE LegGood'
<1>1. LegTyped /\ LegIsTracked
  BY TypeGroups DEF Inv, ScanInv
<1>2. UNCHANGED legVars /\ usr \subseteq usr'
  BY DEF QuietLeg
<1> QED BY <1>1, <1>2, LegKept DEF LegGood

(* The record of an account is a new one, and its range is empty.          *)
LEMMA StartAnsweredGood ==
  ASSUME Inv, NEW k \in Accounts, StartAnswered(k)
  PROVE  AcctGood'
<1>0. AcctTyped /\ RestTyped /\ ScannedIsFound
  BY TypeGroups DEF Inv, ScanInv
<1>1. PICK h \in Answers : /\ begin' = [begin EXCEPT ![k] = h]
                           /\ end' = [end EXCEPT ![k] = h]
  BY DEF StartAnswered
<1>2. h \in Nat
  BY <1>0, AnswersNat
<1>3. recs' = recs \cup {k} /\ apart' = apart /\ usr' = usr
  BY DEF StartAnswered
<1>4. AcctTyped'
  BY <1>0, <1>1, <1>2, <1>3 DEF AcctTyped
<1>5. ScannedIsFound'
  <2>1. SUFFICES ASSUME NEW j \in recs' \ apart', NEW o \in Otas,
                        OtaOf[o] = j, InRange(j, o)'
                 PROVE  o \in usr
    BY <1>3 DEF ScannedIsFound
  <2>2. j # k
    <3>1. SUFFICES ASSUME j = k PROVE FALSE
      OBVIOUS
    <3>2. begin'[k] = h /\ end'[k] = h
      BY <1>0, <1>1 DEF AcctTyped
    <3> QED BY <1>2, <2>1, <3>1, <3>2, OtaAssumption DEF InRange
  <2>3. j \in recs \ apart /\ j \in Accounts
    BY <1>0, <1>3, <2>2 DEF AcctTyped
  <2>4. begin'[j] = begin[j] /\ end'[j] = end[j]
    BY <1>0, <1>1, <2>2, <2>3 DEF AcctTyped
  <2> QED BY <1>0, <2>1, <2>3, <2>4 DEF ScannedIsFound, InRange
<1> QED BY <1>4, <1>5 DEF AcctGood

(* The two ends of a range after a leg was recorded for some accounts: a   *)
(* leg that touches the range makes it the union of both.                  *)
LEMMA RecordGood ==
  ASSUME Inv, NEW S \in SUBSET (ks \cap recs), Record(S),
         pc # "idle", todo = {}, recs' = recs, usr' = usr
  PROVE  AcctGood'
<1>0. AcctTyped /\ LegTyped /\ ScannedIsFound /\ LegIsTracked
  BY TypeGroups DEF Inv, ScanInv
<1>1. /\ begin' = [k \in Accounts |->
                   IF k \in S /\ from < begin[k] THEN from ELSE begin[k]]
      /\ end' = [k \in Accounts |->
                   IF k \in S /\ to > end[k] THEN to ELSE end[k]]
      /\ apart' = apart \cup {k \in S : from > end[k] \/ to < begin[k]}
  BY DEF Record
<1>2. AcctTyped'
  <2>1. begin' \in [Accounts -> Nat]
    BY <1>0, <1>1 DEF AcctTyped, LegTyped
  <2>2. end' \in [Accounts -> Nat]
    BY <1>0, <1>1 DEF AcctTyped, LegTyped
  <2>3. apart' \subseteq Accounts
    BY <1>0, <1>1 DEF AcctTyped
  <2> QED BY <1>0, <2>1, <2>2, <2>3 DEF AcctTyped
<1>3. ScannedIsFound'
  <2>1. SUFFICES ASSUME NEW k \in recs \ apart', NEW o \in Otas,
                        OtaOf[o] = k, InRange(k, o)'
                 PROVE  o \in usr
    BY DEF ScannedIsFound
  <2>2. k \in Accounts /\ k \in recs \ apart
    BY <1>0, <1>1, <2>1 DEF AcctTyped
  <2>3. /\ OtaAt[o] \in Nat /\ begin[k] \in Nat /\ end[k] \in Nat
        /\ from \in Nat /\ to \in Nat
    BY <1>0, <2>2, OtaAssumption DEF AcctTyped, LegTyped
  <2>4. begin'[k] <= OtaAt[o] /\ OtaAt[o] < end'[k]
    BY <2>1 DEF InRange
  <2>5. CASE k \notin S
    <3>1. begin'[k] = begin[k] /\ end'[k] = end[k]
      BY <1>1, <2>2, <2>5
    <3> QED BY <1>0, <2>1, <2>2, <2>4, <3>1 DEF ScannedIsFound, InRange
  <2>6. CASE k \in S
    <3>1. ~ (from > end[k]) /\ ~ (to < begin[k])
      BY <1>1, <2>1, <2>6
    <3>2. /\ begin'[k] = IF from < begin[k] THEN from ELSE begin[k]
          /\ end'[k] = IF to > end[k] THEN to ELSE end[k]
      BY <1>1, <2>2, <2>6
    <3>3. \/ begin[k] <= OtaAt[o] /\ OtaAt[o] < end[k]
          \/ from <= OtaAt[o] /\ OtaAt[o] < to
      BY <2>3, <2>4, <3>1, <3>2
    <3>4. CASE begin[k] <= OtaAt[o] /\ OtaAt[o] < end[k]
      BY <1>0, <2>1, <2>2, <3>4 DEF ScannedIsFound, InRange
    <3>5. CASE from <= OtaAt[o] /\ OtaAt[o] < to
      BY <1>0, <2>1, <2>6, <3>5 DEF LegIsTracked
    <3> QED BY <3>3, <3>4, <3>5
  <2> QED BY <2>5, <2>6
<1> QED BY <1>2, <1>3 DEF AcctGood

LEMMA ScanFindsGood ==
  ASSUME Inv, NEW o \in Otas, ScanFinds(o)
  PROVE  AcctGood' /\ LegGood'
<1>0. AcctTyped /\ LegTyped /\ ScannedIsFound /\ LegIsTracked
  BY TypeGroups DEF Inv, ScanInv
<1>1. /\ usr' = usr \cup {o} /\ todo' = todo \ {o}
      /\ pc' = pc /\ ks' = ks /\ from' = from /\ to' = to /\ lowEnd' = lowEnd
      /\ count' = count
      /\ recs' = recs /\ begin' = begin /\ end' = end /\ apart' = apart
  BY DEF ScanFinds, acctVars
<1>2. AcctTyped' /\ LegTyped'
  BY <1>0, <1>1 DEF AcctTyped, LegTyped
<1>3. ScannedIsFound'
  BY <1>0, <1>1 DEF ScannedIsFound, InRange
<1>4. LegIsTracked'
  BY <1>0, <1>1 DEF LegIsTracked
<1> QED BY <1>2, <1>3, <1>4 DEF AcctGood, LegGood

LEMMA TopNat ==
  ASSUME NEW b \in Nat, NEW n \in Nat, NEW e \in Int, b < e
  PROVE  (IF b + n < e THEN b + n ELSE e) \in Nat
OBVIOUS

(* The first leg of a scan begins below the hard end.                      *)
LEMMA ScanGood ==
  ASSUME Inv, Scan
  PROVE  LegGood' /\ SizeTyped'
<1>0. /\ AcctTyped /\ MineTyped /\ LegTyped /\ SizeTyped /\ RestTyped
      /\ FetchedIsLocal
  BY TypeGroups DEF Inv, FetchInv
<1>1. batch' = AdjustedBatch /\ last' = 0 /\ usr' = usr
  BY DEF Scan, tableVars
<1>2. SizeTyped'
  BY <1>0, <1>1, BatchInBounds DEF SizeTyped
<1>3. batch' \in Nat
  BY <1>2, OtaAssumption DEF SizeTyped
<1>4. PICK h \in Answers, low \in LowEnd :
        \E high \in HighBegin(h - Boundary) :
        \/ /\ high < h - Boundary
           /\ Leg("high", high,
                  IF high + batch' < h - Boundary THEN high + batch'
                  ELSE h - Boundary, keys, low)
        \/ /\ high >= h - Boundary /\ low > 0
           /\ Leg("low", LowBegin(low, batch'), low, keys, low)
        \/ high >= h - Boundary /\ low = 0 /\ NoLeg
  BY DEF Scan
<1>5. PICK high \in HighBegin(h - Boundary) :
        \/ /\ high < h - Boundary
           /\ Leg("high", high,
                  IF high + batch' < h - Boundary THEN high + batch'
                  ELSE h - Boundary, keys, low)
        \/ /\ high >= h - Boundary /\ low > 0
           /\ Leg("low", LowBegin(low, batch'), low, keys, low)
        \/ high >= h - Boundary /\ low = 0 /\ NoLeg
  BY <1>4
<1>6. h \in Nat /\ Boundary \in Nat /\ keys \in SUBSET Accounts
  BY <1>0, AnswersNat, OtaAssumption DEF RestTyped
<1>7. low \in Nat
  <2>1. \A k \in keys \cap recs : begin[k] \in Nat
    BY <1>0 DEF AcctTyped
  <2> QED BY <2>1 DEF LowEnd
<1> DEFINE top == IF high + batch' < h - Boundary THEN high + batch'
                  ELSE h - Boundary
<1>8. CASE high < h - Boundary /\ Leg("high", high, top, keys, low)
  <2>1. high \in Nat
    <3>1. \A k \in keys \cap recs : end[k] \in Nat
      BY <1>0 DEF AcctTyped
    <3>2. high # h - Boundary
      BY <1>6, <1>8, <3>1 DEF HighBegin
    <3> QED BY <3>1, <3>2 DEF HighBegin
  <2>2. top \in Nat
    <3>1. high < h - Boundary /\ h - Boundary \in Int
      BY <1>6, <1>8
    <3> QED BY <1>3, <2>1, <3>1, TopNat
  <2> HIDE DEF top
  <2>3. /\ LegTyped'
        /\ \A o \in Otas : OtaOf[o] \in ks' /\ from' <= OtaAt[o]
                           /\ OtaAt[o] < to' => o \in todo'
    BY <1>0, <1>6, <1>7, <1>8, <2>1, <2>2, LegStarts
  <2> QED BY <1>2, <2>3 DEF LegGood, LegIsTracked
<1>9. CASE low > 0 /\ Leg("low", LowBegin(low, batch'), low, keys, low)
  <2>1. LowBegin(low, batch') \in Nat
    BY <1>3, <1>7, LowBeginNat
  <2>2. /\ LegTyped'
        /\ \A o \in Otas : OtaOf[o] \in ks' /\ from' <= OtaAt[o]
                           /\ OtaAt[o] < to' => o \in todo'
    BY <1>0, <1>6, <1>7, <1>9, <2>1, LegStarts
  <2> QED BY <1>2, <2>2 DEF LegGood, LegIsTracked
<1>10. CASE NoLeg
  BY <1>2, <1>10, NoLegTyped DEF LegGood
<1> QED BY <1>5, <1>8, <1>9, <1>10

LEMMA ScanSide ==
  ASSUME Inv, [Next]_vars
  PROVE  AcctGood' /\ LegGood' /\ SizeTyped' /\ RestTyped'
<1>0. /\ AcctTyped /\ MineTyped /\ LegTyped /\ SizeTyped /\ RestTyped
      /\ FetchedIsLocal /\ LegIsTracked
  BY TypeGroups DEF Inv, FetchInv, ScanInv
<1> DEFINE Goal == AcctGood' /\ LegGood' /\ SizeTyped' /\ RestTyped'
<1>1. ASSUME UNCHANGED <<batch, last>> PROVE SizeTyped'
  BY <1>0, <1>1 DEF SizeTyped
<1>2. ASSUME UNCHANGED <<height, keys, starting, troubles>> PROVE RestTyped'
  BY <1>0, <1>2 DEF RestTyped
<1>3. CASE NewBlock
  <2>1. RestTyped'
    BY <1>0, <1>3, OtaAssumption DEF NewBlock, RestTyped
  <2>2. QuietAcct /\ QuietLeg /\ UNCHANGED <<batch, last>>
    BY <1>3 DEF NewBlock, QuietAcct, QuietLeg, tableVars, scanVars
  <2> QED BY <1>1, <2>1, <2>2, QuietAcctGood, QuietLegGood
<1>4. ASSUME NEW k \in Accounts, StartScan(k) PROVE Goal
  <2>1. RestTyped'
    BY <1>0, <1>4 DEF StartScan, RestTyped
  <2>2. QuietAcct /\ QuietLeg /\ UNCHANGED <<batch, last>>
    BY <1>4 DEF StartScan, QuietAcct, QuietLeg, tableVars, scanVars
  <2> QED BY <1>1, <2>1, <2>2, QuietAcctGood, QuietLegGood
<1>5. ASSUME NEW k \in Accounts, StartAnswered(k) PROVE Goal
  <2>1. RestTyped'
    BY <1>0, <1>5 DEF StartAnswered, RestTyped
  <2>2. QuietLeg /\ UNCHANGED <<batch, last>>
    BY <1>5 DEF StartAnswered, QuietLeg, scanVars
  <2> QED BY <1>1, <1>5, <2>1, <2>2, StartAnsweredGood, QuietLegGood
<1>6. ASSUME NEW k \in Accounts, StartFails(k) PROVE Goal
  <2>1. RestTyped'
    BY <1>0, <1>6, TroubleTyped DEF StartFails, RestTyped
  <2>2. QuietAcct /\ QuietLeg /\ UNCHANGED <<batch, last>>
    BY <1>6 DEF StartFails, QuietAcct, QuietLeg, tableVars, scanVars
  <2> QED BY <1>1, <2>1, <2>2, QuietAcctGood, QuietLegGood
<1>7. CASE Scan
  <2>1. QuietAcct /\ UNCHANGED <<height, keys, starting, troubles>>
    BY <1>7 DEF Scan, QuietAcct, tableVars
  <2> QED BY <1>2, <1>7, <2>1, ScanGood, QuietAcctGood
<1>8. CASE ScanRecords
  <2>1. /\ UNCHANGED <<height, keys, starting, troubles>>
        /\ batch' = batch /\ last' = last + count
        /\ recs' = recs /\ usr' = usr
    BY <1>8 DEF ScanRecords
  <2>2. SizeTyped'
    BY <1>0, <2>1 DEF SizeTyped, LegTyped
  <2>3. LegGood'
    BY <1>0, <1>8, NextLegGood DEF ScanRecords, LegGood
  <2>4. AcctGood'
    <3>1. /\ ks \in SUBSET (ks \cap recs) /\ Record(ks)
          /\ pc # "idle" /\ todo = {}
      BY <1>8 DEF ScanRecords
    <3> QED BY <2>1, <3>1, RecordGood
  <2> QED BY <1>2, <2>1, <2>2, <2>3, <2>4
<1>9. CASE ScanThrows
  <2>1. /\ UNCHANGED <<height, keys, starting, troubles>>
        /\ batch' = batch /\ last' = -1
        /\ recs' = recs /\ usr' = usr
    BY <1>9 DEF ScanThrows
  <2>2. SizeTyped'
    BY <1>0, <2>1 DEF SizeTyped
  <2>3. LegGood'
    BY <1>9, NoLegTyped DEF ScanThrows, LegGood
  <2>4. AcctGood'
    <3>1. PICK S \in SUBSET (ks \cap recs) : Record(S)
      BY <1>9 DEF ScanThrows
    <3>2. pc # "idle" /\ todo = {}
      BY <1>9 DEF ScanThrows
    <3> QED BY <2>1, <3>1, <3>2, RecordGood
  <2> QED BY <1>2, <2>1, <2>2, <2>3, <2>4
<1>10. ASSUME NEW o \in Otas, ScanFinds(o) PROVE Goal
  <2>1. /\ UNCHANGED <<batch, last>>
        /\ UNCHANGED <<height, keys, starting, troubles>>
    BY <1>10 DEF ScanFinds
  <2> QED BY <1>1, <1>2, <1>10, <2>1, ScanFindsGood
<1>11. ASSUME NEW o \in Otas, ScanNotReady(o) PROVE Goal
  <2>1. /\ UNCHANGED <<height, keys, starting, troubles>>
        /\ batch' = batch /\ last' = last - 1 /\ NextLeg
    BY <1>11 DEF ScanNotReady
  <2>2. SizeTyped'
    BY <1>0, <2>1 DEF SizeTyped
  <2>3. QuietAcct
    BY <1>11 DEF ScanNotReady, QuietAcct, tableVars
  <2> QED
    BY <1>0, <1>2, <2>1, <2>2, <2>3, NextLegGood, QuietAcctGood DEF LegGood
<1>12. CASE ScanFailsToStart
  <2>1. RestTyped'
    BY <1>0, <1>12, TroubleTyped DEF ScanFailsToStart, RestTyped
  <2>2. SizeTyped'
    BY <1>0, <1>12 DEF ScanFailsToStart, SizeTyped
  <2>3. QuietAcct /\ QuietLeg
    BY <1>12 DEF ScanFailsToStart, QuietAcct, QuietLeg, tableVars
  <2> QED BY <2>1, <2>2, <2>3, QuietAcctGood, QuietLegGood
<1>13. CASE ScanFails
  <2>1. RestTyped'
    BY <1>0, <1>13, TroubleTyped DEF ScanFails, RestTyped
  <2>2. SizeTyped'
    BY <1>0, <1>13 DEF ScanFails, SizeTyped
  <2>3. QuietAcct
    BY <1>13 DEF ScanFails, QuietAcct, tableVars
  <2>4. LegGood'
    BY <1>13, NoLegTyped DEF ScanFails, LegGood
  <2> QED BY <2>1, <2>2, <2>3, <2>4, QuietAcctGood
<1>14. CASE Fetch \/ FetchEnds
  <2>1. /\ QuietAcct /\ QuietLeg /\ UNCHANGED <<batch, last>>
        /\ UNCHANGED <<height, keys, starting, troubles>>
    BY <1>14 DEF Fetch, FetchEnds, QuietAcct, QuietLeg, scanVars
  <2> QED BY <1>1, <1>2, <2>1, QuietAcctGood, QuietLegGood
<1>15. ASSUME NEW S \in SUBSET Otas, FetchStores(S) PROVE Goal
  <2>1. /\ QuietAcct /\ QuietLeg /\ UNCHANGED <<batch, last>>
        /\ UNCHANGED <<height, keys, starting, troubles>>
    BY <1>15 DEF FetchStores, QuietAcct, QuietLeg, scanVars
  <2> QED BY <1>1, <1>2, <2>1, QuietAcctGood, QuietLegGood
<1>16. CASE FetchFails
  <2>1. RestTyped'
    BY <1>0, <1>16, TroubleTyped DEF FetchFails, RestTyped
  <2>2. QuietAcct /\ QuietLeg /\ UNCHANGED <<batch, last>>
    BY <1>16 DEF FetchFails, QuietAcct, QuietLeg, tableVars, scanVars
  <2> QED BY <1>1, <2>1, <2>2, QuietAcctGood, QuietLegGood
<1>17. CASE Restart
  <2>1. RestTyped'
    BY <1>0, <1>17, TroubleTyped DEF Restart, RestTyped
  <2>2. SizeTyped'
    BY <1>17, OtaAssumption DEF Restart, Stopped, SizeTyped
  <2>3. QuietAcct
    BY <1>17 DEF Restart, QuietAcct
  <2>4. LegGood'
    BY <1>17, NoLegTyped DEF Restart, Stopped, LegGood
  <2> QED BY <2>1, <2>2, <2>3, <2>4, QuietAcctGood
<1>18. CASE DeleteAll
  <2>1. RestTyped'
    BY <1>0, <1>18, TroubleTyped DEF DeleteAll, RestTyped
  <2>2. UNCHANGED <<batch, last>> /\ UNCHANGED legVars /\ pc = "idle"
    BY <1>18 DEF DeleteAll, scanVars
  <2>3. LegGood'
    BY <1>0, <2>2 DEF LegGood, LegTyped, LegIsTracked, legVars
  <2>4. AcctGood'
    BY <1>0, <1>18 DEF DeleteAll, AcctGood, AcctTyped, ScannedIsFound
  <2> QED BY <1>1, <2>1, <2>2, <2>3, <2>4
<1>19. CASE UNCHANGED vars
  <2>1. /\ QuietAcct /\ QuietLeg /\ UNCHANGED <<batch, last>>
        /\ UNCHANGED <<height, keys, starting, troubles>>
    BY <1>19 DEF vars, QuietAcct, QuietLeg, tableVars, scanVars
  <2> QED BY <1>1, <1>2, <2>1, QuietAcctGood, QuietLegGood
<1> QED
  BY <1>3, <1>4, <1>5, <1>6, <1>7, <1>8, <1>9, <1>10, <1>11, <1>12, <1>13,
     <1>14, <1>15, <1>16, <1>17, <1>18, <1>19 DEF Next, ScanStep, FetchStep

-----------------------------------------------------------------------------
LEMMA InvInit == Init => Inv
<1> SUFFICES ASSUME Init PROVE Inv
  OBVIOUS
<1>1. TypeOK
  <2>1. AcctTyped /\ MineTyped /\ LegTyped /\ FetchTyped
    BY DEF Init, AcctTyped, MineTyped, LegTyped, FetchTyped
  <2>2. SizeTyped
    BY OtaAssumption DEF Init, SizeTyped
  <2>3. RestTyped
    BY OtaAssumption DEF Init, RestTyped
  <2> QED BY <2>1, <2>2, <2>3, TypeGroups
<1>2. FetchInv
  BY DEF Init, FetchInv, FetchedIsLocal, FetchIsTracked
<1>3. ScanInv
  BY DEF Init, ScanInv, ScannedIsFound, LegIsTracked
<1> QED BY <1>1, <1>2, <1>3 DEF Inv

LEMMA InvStep == Inv /\ [Next]_vars => Inv'
<1> SUFFICES ASSUME Inv, [Next]_vars PROVE Inv'
  OBVIOUS
<1>1. MineTyped' /\ FetchedIsLocal' /\ FetchTyped' /\ FetchIsTracked'
  BY FetchSide
<1>2. AcctGood' /\ LegGood' /\ SizeTyped' /\ RestTyped'
  BY ScanSide
<1>3. TypeOK'
  BY <1>1, <1>2, TypeGroupsNext DEF AcctGood, LegGood
<1> QED BY <1>1, <1>2, <1>3 DEF Inv, FetchInv, ScanInv, AcctGood, LegGood

LEMMA InvAlways == Spec => []Inv
BY InvInit, InvStep, PTL DEF Spec

(* Every variable keeps its type, for any batch sizes with MIN <= SIZE <=  *)
(* MAX: the batch size of _adjustBatchSize never leaves its bounds.        *)
THEOREM TypeCorrect == Spec => []TypeOK
<1>1. Inv => TypeOK
  BY DEF Inv
<1> QED BY <1>1, InvAlways, PTL

(* The local table of fetchTransaction has every OTA transaction of the    *)
(* range its record names, although the ends of that range move after      *)
(* awaits and a restart can put one of them back.                          *)
THEOREM LocalIsComplete == Spec => []FetchedIsLocal
<1>1. Inv => FetchedIsLocal
  BY DEF Inv, FetchInv
<1> QED BY <1>1, InvAlways, PTL

(* An OTA in the range that an account's record calls scanned is in        *)
(* usrOTA, for any number of accounts and transactions and any failures,   *)
(* unless the account was credited with a range apart from its own.        *)
THEOREM ScannedMeansFound == Spec => []ScannedIsFound
<1>1. Inv => ScannedIsFound
  BY DEF Inv, ScanInv
<1> QED BY <1>1, InvAlways, PTL

-----------------------------------------------------------------------------
(* Ranges only grow: an account that waits for its first block number has  *)
(* no record yet.                                                          *)
StartsWithoutRecord == starting \cap recs = {}

Grown ==
  \A k \in recs \cap recs' :
    begin'[k] <= begin[k] /\ end[k] <= end'[k] /\ usr \subseteq usr'

LEMMA RecordGrows ==
  ASSUME Inv, NEW S, Record(S), UNCHANGED <<recs, usr, starting>>,
         StartsWithoutRecord
  PROVE  Grown /\ StartsWithoutRecord'
<1>1. AcctTyped /\ LegTyped
  BY TypeGroups DEF Inv
<1>2. \A k \in Accounts : begin'[k] <= begin[k] /\ end[k] <= end'[k]
  BY <1>1 DEF Record, AcctTyped, LegTyped
<1> QED BY <1>1, <1>2 DEF Grown, StartsWithoutRecord, AcctTyped

LEMMA AnswerGrows ==
  ASSUME Inv, StartsWithoutRecord, NEW k \in Accounts, StartAnswered(k)
  PROVE  Grown /\ StartsWithoutRecord'
<1>1. /\ AcctTyped /\ k \notin recs
      /\ starting' = starting \ {k} /\ recs' = recs \cup {k} /\ usr' = usr
  BY TypeGroups DEF Inv, StartAnswered, StartsWithoutRecord
<1>2. \A j \in Accounts : j # k => begin'[j] = begin[j] /\ end'[j] = end[j]
  BY <1>1 DEF StartAnswered, AcctTyped
<1>3. \A j \in recs : begin[j] \in Nat /\ end[j] \in Nat /\ j \in Accounts
  BY <1>1 DEF AcctTyped
<1> QED BY <1>1, <1>2, <1>3 DEF Grown, StartsWithoutRecord

(* The steps that leave the records alone.                                 *)
LEMMA RestGrows ==
  ASSUME Inv, StartsWithoutRecord, UNCHANGED acctVars, usr \subseteq usr',
         starting' \cap recs \subseteq starting
  PROVE  Grown /\ StartsWithoutRecord'
<1>1. \A j \in recs : begin[j] \in Nat /\ end[j] \in Nat
  BY TypeGroups DEF Inv, AcctTyped
<1> QED BY <1>1 DEF Grown, StartsWithoutRecord, acctVars

LEMMA StepGrows ==
  ASSUME Inv, StartsWithoutRecord, [Next]_vars
  PROVE  Grown /\ StartsWithoutRecord'
<1>1. ASSUME NEW k \in Accounts, StartScan(k) \/ StartFails(k)
      PROVE  Grown /\ StartsWithoutRecord'
  <2>1. UNCHANGED <<acctVars, usr>> /\ starting' \cap recs \subseteq starting
    BY <1>1 DEF StartScan, StartFails, tableVars
  <2> QED BY <2>1, RestGrows
<1>2. ASSUME NEW o \in Otas, ScanFinds(o) \/ ScanNotReady(o)
      PROVE  Grown /\ StartsWithoutRecord'
  <2>1. UNCHANGED <<acctVars, starting>> /\ usr \subseteq usr'
    BY <1>2 DEF ScanFinds, ScanNotReady, tableVars
  <2> QED BY <2>1, RestGrows
<1>3. CASE ScanRecords \/ ScanThrows
  <2>1. \E S : Record(S)
    BY <1>3 DEF ScanRecords, ScanThrows
  <2>2. UNCHANGED <<recs, usr, starting>>
    BY <1>3 DEF ScanRecords, ScanThrows
  <2> QED BY <2>1, <2>2, RecordGrows
<1>4. CASE NewBlock \/ Scan \/ ScanFailsToStart \/ ScanFails \/ FetchFails
  <2>1. UNCHANGED <<acctVars, usr, starting>>
    BY <1>4 DEF NewBlock, Scan, ScanFailsToStart, ScanFails, FetchFails,
                tableVars
  <2> QED BY <2>1, RestGrows
<1>5. CASE FetchStep
  <2>1. UNCHANGED <<acctVars, usr, starting>>
    BY <1>5 DEF FetchStep, Fetch, FetchEnds, FetchStores
  <2> QED BY <2>1, RestGrows
<1>6. CASE Restart
  <2>1. UNCHANGED <<acctVars, usr>> /\ starting' = {}
    BY <1>6 DEF Restart
  <2> QED BY <2>1, RestGrows
<1>7. CASE DeleteAll
  BY <1>7 DEF DeleteAll, Grown, StartsWithoutRecord
<1>8. CASE UNCHANGED vars
  <2>1. UNCHANGED <<acctVars, usr, starting>>
    BY <1>8 DEF vars, tableVars
  <2> QED BY <2>1, RestGrows
<1> QED BY <1>1, <1>2, <1>3, <1>4, <1>5, <1>6, <1>7, <1>8, AnswerGrows
        DEF Next, ScanStep

(* No step takes back a block an account is recorded to have scanned or an *)
(* OTA that was found, except the deletion of the whole database: neither  *)
(* a restart, nor a scan that ends late or throws, nor a second startScan. *)
THEOREM NothingIsUnscanned == Spec => RangesOnlyGrow
<1>1. Init => Inv /\ StartsWithoutRecord
  BY InvInit DEF Init, StartsWithoutRecord
<1>2. Inv /\ StartsWithoutRecord /\ [Next]_vars => (Inv /\ StartsWithoutRecord)'
  BY InvStep, StepGrows
<1>3. Inv /\ StartsWithoutRecord /\ [Next]_vars =>
        [\A k \in recs \cap recs' :
           begin'[k] <= begin[k] /\ end[k] <= end'[k] /\ usr \subseteq usr']_vars
  BY StepGrows DEF Grown
<1> QED BY <1>1, <1>2, <1>3, PTL DEF Spec, RangesOnlyGrow
=============================================================================
