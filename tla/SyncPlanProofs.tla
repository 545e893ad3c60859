--------------------------- MODULE SyncPlanProofs ---------------------------
(***************************************************************************)
(* The arithmetic of SyncPlan, for every width of a height: which blocks   *)
(* an iteration reads again and which it reads for the first time.         *)
(***************************************************************************)
EXTENDS SyncPlan, TLAPS

\* next_scan_batch: the batch starts where it was asked to, is not empty, ends
\* at or below the tip, and is absent only past the tip.
LEMMA NextBatch ==
    ASSUME NEW next \in Nat, NEW last \in Heights, NEW n \in Nat \ {0}
    PROVE  LET b == NextScanBatch(next, last, n)
           IN  /\ next > last => b = NoBatch
               /\ next <= last =>
                    /\ b \in ScanBatch
                    /\ b # NoBatch
                    /\ b.start = next /\ b.end \in next .. last
                    /\ b.end - b.start < n
<1>1. CASE next > last
  BY <1>1 DEF NextScanBatch, Heights
<1>2. CASE next <= last
  <2> DEFINE e == Lower(SaturatingAdd(next, SaturatingSub(n, 1)), last)
  <2>1. e \in next .. last /\ e - next < n
    BY <1>2, WidthAssumption
    DEF Heights, Lower, Higher, SaturatingAdd, SaturatingSub
  <2>2. NextScanBatch(next, last, n) = [start |-> next, end |-> e]
    BY <1>2 DEF NextScanBatch, Heights
  <2> HIDE DEF e
  <2>3. next \in Heights /\ e \in Heights
    BY <1>2, <2>1, WidthAssumption DEF Heights
  <2>4. NextScanBatch(next, last, n) # NoBatch
    BY <2>1, <2>2 DEF NoBatch
  <2> QED
    BY <1>2, <2>1, <2>2, <2>3, <2>4 DEF ScanBatch
<1> QED
  BY <1>1, <1>2 DEF Heights

LEMMA NoBatchType == NoBatch \in ScanBatch
  BY WidthAssumption DEF NoBatch, ScanBatch, Heights

\* forward_scan_start_height: the forward scan starts right after what is
\* scanned of the current chain, or at the birthday when that is higher.
LEMMA ForwardStart ==
    ASSUME NEW birthday \in Heights, birthday # 0, NEW scanned \in Nat,
           NEW tip \in Heights, tip < MaxU32
    PROVE  LET start == ForwardScanStartHeight(birthday, scanned, tip)
           IN  /\ start \in Heights
               /\ start >= birthday /\ start > Lower(scanned, tip)
               /\ start = birthday \/ start = Lower(scanned, tip) + 1
  BY WidthAssumption
  DEF ForwardScanStartHeight, Heights, Lower, Higher, SaturatingAdd

\* reorg_overlap_batch: the batch read again lies in what is scanned of the
\* current chain, and holds all of it that is not finality blocks deep.
LEMMA OverlapRange ==
    ASSUME NEW birthday \in Heights, birthday # 0, NEW scanned \in Heights,
           NEW tip \in Heights, NEW finality \in Nat
    PROVE  LET batch == ReorgOverlapBatch(birthday, scanned, tip, finality)
           IN  /\ batch \in ScanBatch
               /\ HeightsOf(batch) \subseteq birthday .. Lower(scanned, tip)
               /\ \A h \in birthday .. Lower(scanned, tip) :
                    h + finality > Lower(scanned, tip) => h \in HeightsOf(batch)
<1> DEFINE end == Lower(scanned, tip)
           start == Higher(SaturatingSub(end, SaturatingSub(finality, 1)), birthday)
           batch == ReorgOverlapBatch(birthday, scanned, tip, finality)
<1>1. end \in Heights /\ scanned <= MaxU32
  BY WidthAssumption DEF Heights, Lower
<1>2. CASE scanned <= 0 \/ end < birthday
  <2>1. batch = NoBatch
    BY <1>2 DEF ReorgOverlapBatch
  <2>2. end < birthday
    BY <1>2 DEF Lower, Heights
  <2>3. HeightsOf(NoBatch) = {}
    BY DEF HeightsOf, NoBatch
  <2> QED
    BY <1>1, <2>1, <2>2, <2>3, NoBatchType DEF Heights
<1>3. CASE ~(scanned <= 0 \/ end < birthday)
  <2>1. batch = [start |-> start, end |-> end]
    <3>1. ~(scanned <= 0 \/ scanned > MaxU32 \/ end < birthday)
      BY <1>1, <1>3, WidthAssumption DEF Heights
    <3>2. batch = IF scanned <= 0 \/ scanned > MaxU32 \/ end < birthday
                  THEN NoBatch ELSE [start |-> start, end |-> end]
      BY DEF ReorgOverlapBatch
    <3> HIDE DEF batch, start, end
    <3> QED
      BY <3>1, <3>2
  <2>2. /\ start \in birthday .. end /\ start \in Heights
        /\ start = birthday \/ start + finality <= end + 1
        /\ \A h \in birthday .. end : h + finality > end => h >= start
    <3>1. end \in Nat /\ birthday \in Nat /\ end >= birthday /\ end <= MaxU32 /\ MaxU32 \in Nat
      BY <1>1, <1>3, WidthAssumption DEF Heights
    <3> HIDE DEF end
    <3> QED
      BY <3>1 DEF Higher, SaturatingSub, Heights
  <2> HIDE DEF start, end
  <2>3. batch \in ScanBatch /\ HeightsOf(batch) = start .. end
    BY <1>1, <2>1, <2>2 DEF ScanBatch, HeightsOf
  <2> QED
    BY <1>1, <2>2, <2>3 DEF Heights, end
<1> QED
  BY <1>2, <1>3

\* The grid of batches: after its first batch it continues one batch on.
LEMMA GridStep ==
    ASSUME NEW k \in Nat, k # 0, NEW n \in Nat
    PROVE  /\ k - 1 \in Nat /\ (k - 1) * n \in Nat
           /\ k * n = (k - 1) * n + n
<1>1. k - 1 \in Nat
  OBVIOUS
<1>2. PICK j \in Nat : j = k - 1
  BY <1>1
<1>3. k = j + 1
  BY <1>2
<1>4. j * n \in Nat
  OBVIOUS
<1>5. (j + 1) * n = j * n + n
  OBVIOUS
<1> QED
  BY <1>2, <1>3, <1>4, <1>5
=============================================================================
