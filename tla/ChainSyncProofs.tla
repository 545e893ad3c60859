-------------------------- MODULE ChainSyncProofs --------------------------
(***************************************************************************)
(* Theorems about ChainSync, for any transactions, heights and batch size: *)
(* the ledger's totals follow its receipts, and what lies below the window *)
(* that is read again is exact.                                            *)
(***************************************************************************)
EXTENDS ChainSync, SyncPlanProofs

-----------------------------------------------------------------------------
(* The ledger transactions: their rows are rows, and one commit writes     *)
(* well-typed totals.                                                      *)

LEMMA DepthType ==
    ASSUME NEW top \in Nat, NEW h \in Nat
    PROVE  DepthAt(top, h) \in Nat
  BY DEF DepthAt

LEMMA MinedRowType ==
    ASSUME NEW top \in Nat, NEW h \in Nat
    PROVE  MinedRow(h, top) \in Row
<1>1. DepthAt(top, h) \in Nat
  BY DepthType
<1>2. (DepthAt(top, h) >= ReportConf) \in BOOLEAN
  BY <1>1, SyncAssumption
<1> QED
  BY <1>1, <1>2 DEF MinedRow, Row

LEMMA RowFields ==
    ASSUME NEW row \in Row
    PROVE  /\ row.kind \in {"none", "mempool", "mined"} /\ row.height \in Nat
           /\ row.active \in BOOLEAN /\ row.eligible \in BOOLEAN
           /\ row.depth \in Nat /\ row.fresh \in BOOLEAN
  BY DEF Row

LEMMA RowUpdateType ==
    ASSUME NEW row \in Row, NEW b \in BOOLEAN
    PROVE  /\ [row EXCEPT !.active = b] \in Row
           /\ [row EXCEPT !.eligible = b] \in Row
           /\ [row EXCEPT !.fresh = b] \in Row
  BY DEF Row

LEMMA ReconciledType ==
    ASSUME TypeOK, NEW top \in Nat, NEW S \in SUBSET Nat, NEW blocks \in [S -> SUBSET Txs]
    PROVE  ReconciledInRange(blocks, top) \in [Txs -> Row]
<1> SUFFICES ASSUME NEW t \in Txs
             PROVE  ReconciledInRange(blocks, top)[t] \in Row
    BY DEF ReconciledInRange
<1> DEFINE mined == \E h \in DOMAIN blocks : t \in blocks[h]
           pick == CHOOSE h \in DOMAIN blocks : t \in blocks[h]
           kept == rows[t].active /\ ~(rows[t].kind = "mined" /\ rows[t].height \in DOMAIN blocks)
<1>1. ReconciledInRange(blocks, top)[t] =
        IF mined THEN MinedRow(pick, top) ELSE [rows[t] EXCEPT !.active = kept]
  BY RowFields DEF ReconciledInRange, TypeOK, Row
<1>2. rows[t] \in Row /\ kept \in BOOLEAN
  BY RowFields DEF TypeOK
<1>3. ASSUME mined PROVE pick \in Nat
  BY <1>3
<1> HIDE DEF mined, pick, kept
<1> QED
  BY <1>1, <1>2, <1>3, MinedRowType, RowUpdateType

LEMMA RevokedType ==
    ASSUME TypeOK, NEW top
    PROVE  RevokedAboveTip(top) \in [Txs -> Row]
<1> SUFFICES ASSUME NEW t \in Txs
             PROVE  RevokedAboveTip(top)[t] \in Row
    BY DEF RevokedAboveTip
<1> DEFINE kept == rows[t].active /\ ~(rows[t].kind = "mined" /\ rows[t].height > top)
<1>1. RevokedAboveTip(top)[t] = [rows[t] EXCEPT !.active = kept]
  BY DEF RevokedAboveTip, TypeOK, Row
<1>2. rows[t] \in Row /\ kept \in BOOLEAN
  BY RowFields DEF TypeOK
<1> HIDE DEF kept
<1> QED
  BY <1>1, <1>2, RowUpdateType

LEMMA MaturedType ==
    ASSUME TypeOK, NEW top \in Nat
    PROVE  Matured(top) \in [Txs -> Row]
<1> SUFFICES ASSUME NEW t \in Txs
             PROVE  Matured(top)[t] \in Row
    BY DEF Matured
<1>1. rows[t] \in Row /\ rows[t].height \in Nat
  BY RowFields DEF TypeOK
<1>2. MinedRow(rows[t].height, top) \in Row
  BY <1>1, MinedRowType
<1> QED
  BY <1>1, <1>2 DEF Matured

LEMMA MempoolType ==
    ASSUME TypeOK, NEW seen, NEW found, NEW flag
    PROVE  MempoolReconciled(seen, found, flag) \in [Txs -> Row]
<1> SUFFICES ASSUME NEW t \in Txs
             PROVE  MempoolReconciled(seen, found, flag)[t] \in Row
    BY DEF MempoolReconciled
<1> DEFINE fresh == rows[t].kind = "mempool" => rows[t].fresh
           counts == ReportConf = 0 /\ fresh
           new == [kind |-> "mempool", height |-> 0, active |-> TRUE,
                   eligible |-> counts, depth |-> 0, fresh |-> fresh]
<1>1. MempoolReconciled(seen, found, flag)[t] =
        IF t \in found THEN new
        ELSE IF rows[t].kind # "mempool" \/ ~rows[t].active THEN rows[t]
        ELSE IF flag /\ t \notin seen THEN [rows[t] EXCEPT !.active = FALSE]
        ELSE [rows[t] EXCEPT !.eligible = counts]
  BY DEF MempoolReconciled
<1>2. rows[t] \in Row /\ fresh \in BOOLEAN /\ counts \in BOOLEAN
  BY RowFields DEF TypeOK
<1> HIDE DEF fresh, counts
<1>3. new \in Row
  BY <1>2 DEF Row
<1> HIDE DEF new
<1> QED
  BY <1>1, <1>2, <1>3, RowUpdateType

LEMMA CommitType ==
    ASSUME TypeOK, NEW new \in [Txs -> Row], NEW top, Commit(new, top)
    PROVE  /\ rows' \in [Txs -> Row]
           /\ totals' \in [Addresses -> [0 .. ArrayDepth -> SUBSET Txs]]
           /\ dirty' \in SUBSET Addresses
           /\ affected' \in SUBSET Addresses
<1> DEFINE ids == {Owner[t] : t \in {u \in Txs : new[u] # rows[u]}}
<1>1. ids \in SUBSET Addresses
  BY SyncAssumption
<1>2. \A a \in Addresses : Report(new, a, top) \in [0 .. ArrayDepth -> SUBSET Txs]
  BY DEF Report
<1>3. /\ rows' = new
      /\ totals' = [a \in Addresses |-> IF a \in ids THEN Report(new, a, top) ELSE totals[a]]
      /\ dirty' = dirty \cup {a \in ids : totals'[a] # totals[a]}
      /\ affected' = affected \cup ids
  BY DEF Commit
<1> HIDE DEF ids
<1> QED
  BY <1>1, <1>2, <1>3 DEF TypeOK

-----------------------------------------------------------------------------
(* The network: transactions stay in one place, and final blocks stay.     *)

\* What every step promises about the chain.
NetKept ==
    /\ highest' >= highest
    /\ \A h \in Nat : h + Finality <= highest => BlockAt(h)' = BlockAt(h)

\* Only the network moves chain and mempool.
LEMMA SyncLeavesNetwork ==
    ASSUME Sync \/ IterationFails \/ CrashAndRestart
    PROVE  UNCHANGED network
  BY DEF Sync, SampleTip, RevokeAboveTip, ReconcileOverlap, QueueReorgAffected,
         MarkCatchingUp, DownloadBatch, ScanBatchStep, QueueBatch, RecordBatch,
         AdvanceReceiptMaturity, QueueMatured, FetchMempoolTxids,
         ReconcileCurrentMempool, QueueMempool, RecordStatus, ReconcilePeriodically,
         QueuePeriodic, Wake, ReconcileMempool, Goto, IterationFails,
         CrashAndRestart, GiveUp, network

LEMMA NetTypes ==
    ASSUME TypeOK
    PROVE  /\ chain \in Seq(SUBSET Txs) /\ Len(chain) \in Nat /\ highest \in Nat
           /\ DOMAIN chain = 1 .. Len(chain)
           /\ mempool \in SUBSET Txs
           /\ \A h \in 1 .. Len(chain) : chain[h] \in SUBSET Txs
           /\ \A h \in 1 .. Len(chain) : chain[h] \subseteq OnChain
           /\ \A h \in Nat : BlockAt(h) \subseteq OnChain /\ BlockAt(h) \in SUBSET Txs
<1>1. /\ chain \in Seq(SUBSET Txs) /\ Len(chain) \in Nat /\ highest \in Nat
      /\ DOMAIN chain = 1 .. Len(chain)
      /\ mempool \in SUBSET Txs
      /\ \A h \in 1 .. Len(chain) : chain[h] \in SUBSET Txs
  BY DEF TypeOK
<1>2. \A h \in 1 .. Len(chain) : chain[h] \subseteq OnChain
  BY <1>1 DEF OnChain
<1> QED
  BY <1>1, <1>2 DEF BlockAt

LEMMA NetStep ==
    ASSUME TypeOK, NetOK, [Next]_vars
    PROVE  /\ NetOK' /\ NetKept
           /\ chain' \in Seq(SUBSET Txs) /\ highest' \in Nat /\ mempool' \in SUBSET Txs
<1> USE SyncAssumption
<1>0. /\ chain \in Seq(SUBSET Txs) /\ Len(chain) \in Nat /\ highest \in Nat
      /\ DOMAIN chain = 1 .. Len(chain) /\ mempool \in SUBSET Txs
      /\ \A h \in 1 .. Len(chain) : chain[h] \in SUBSET Txs
      /\ \A h \in Nat : BlockAt(h) \subseteq OnChain /\ BlockAt(h) \in SUBSET Txs
  BY NetTypes
<1>1. CASE UNCHANGED network
  BY <1>0, <1>1 DEF network, NetOK, NetKept, BlockAt
<1>2. ASSUME NEW t \in Txs, Broadcast(t)
      PROVE  NetOK' /\ NetKept /\ chain' = chain /\ highest' = highest /\ mempool' \in SUBSET Txs
  <2>1. chain' = chain /\ highest' = highest /\ mempool' = mempool \cup {t} /\ t \notin OnChain
    BY <1>2 DEF Broadcast
  <2>2. \A h \in Nat : BlockAt(h)' = BlockAt(h)
    BY <2>1 DEF BlockAt
  <2> QED
    BY <1>0, <2>1, <2>2 DEF NetOK, NetKept
<1>3. ASSUME NEW t \in Txs, Evict(t)
      PROVE  NetOK' /\ NetKept /\ chain' = chain /\ highest' = highest /\ mempool' \in SUBSET Txs
  <2>1. chain' = chain /\ highest' = highest /\ mempool' = mempool \ {t}
    BY <1>3 DEF Evict
  <2>2. \A h \in Nat : BlockAt(h)' = BlockAt(h)
    BY <2>1 DEF BlockAt
  <2> QED
    BY <1>0, <2>1, <2>2 DEF NetOK, NetKept
<1>4. ASSUME NEW block \in SUBSET (Txs \ OnChain), Mine(block)
      PROVE  /\ NetOK' /\ NetKept
             /\ chain' \in Seq(SUBSET Txs) /\ highest' \in Nat /\ mempool' \in SUBSET Txs
  <2> DEFINE n == Len(chain)
  <2>1. /\ n < MaxTip /\ chain' = Append(chain, block)
        /\ highest' = Higher(highest, n + 1) /\ mempool' = mempool \ block
    BY <1>4 DEF Mine
  <2>2. MaxTip \in Nat /\ Finality \in Nat
    BY WidthAssumption DEF Heights
  <2>3. block \in SUBSET Txs /\ block \cap OnChain = {}
    OBVIOUS
  <2>4. /\ chain' \in Seq(SUBSET Txs) /\ Len(chain') = n + 1 /\ DOMAIN chain' = 1 .. (n + 1)
        /\ chain'[n + 1] = block /\ \A h \in 1 .. n : chain'[h] = chain[h]
    BY <1>0, <2>1, <2>3
  <2>5. \A h \in Nat : BlockAt(h)' = IF h = n + 1 THEN block ELSE BlockAt(h)
    BY <1>0, <2>4 DEF BlockAt
  <2>6. BlockAt(n + 1) = {}
    BY <1>0 DEF BlockAt
  <2>7. /\ highest' \in Nat /\ highest' >= highest /\ n + 1 <= highest'
        /\ highest' <= n + 1 + Finality /\ highest' <= MaxTip
    BY <1>0, <2>1, <2>2 DEF NetOK, Higher
  <2>8. \A h \in Nat : h + Finality <= highest => BlockAt(h)' = BlockAt(h)
    BY <1>0, <2>2, <2>5 DEF NetOK
  <2>9. \A g, h \in Nat : g # h => BlockAt(g)' \cap BlockAt(h)' = {}
    BY <1>0, <2>3, <2>5 DEF NetOK
  <2>10. \A h \in Nat : BlockAt(h)' \cap mempool' = {}
    BY <1>0, <2>1, <2>3, <2>5 DEF NetOK
  <2>11. mempool' \in SUBSET Txs
    BY <1>0, <2>1
  <2> QED
    BY <2>4, <2>7, <2>8, <2>9, <2>10, <2>11 DEF NetOK, NetKept
<1>5. CASE Rewind
  <2> DEFINE n == Len(chain)
  <2>1. /\ n > 1 /\ highest - n + 1 < Finality /\ highest' = highest
        /\ chain' = SubSeq(chain, 1, n - 1) /\ mempool' = mempool \cup chain[n]
    BY <1>5 DEF Rewind
  <2>2. MaxTip \in Nat /\ Finality \in Nat
    BY WidthAssumption DEF Heights
  <2>3. /\ chain' \in Seq(SUBSET Txs) /\ Len(chain') = n - 1 /\ DOMAIN chain' = 1 .. (n - 1)
        /\ \A h \in 1 .. (n - 1) : chain'[h] = chain[h]
    BY <1>0, <2>1
  <2>4. \A h \in Nat : BlockAt(h)' = IF h = n THEN {} ELSE BlockAt(h)
    <3>1. n \in Nat /\ DOMAIN chain = 1 .. n
      BY <1>0
    <3> HIDE DEF n
    <3> TAKE h \in Nat
    <3>2. h \in DOMAIN chain' <=> (h # n /\ h \in DOMAIN chain)
      BY <2>1, <2>3, <3>1
    <3>3. h \in DOMAIN chain' => chain'[h] = chain[h]
      BY <2>3
    <3> QED
      BY <2>1, <3>1, <3>2, <3>3 DEF BlockAt
  <2>5. BlockAt(n) = chain[n] /\ chain[n] \in SUBSET Txs
    BY <1>0, <2>1 DEF BlockAt
  <2>6. /\ highest' \in Nat /\ highest' >= highest /\ n - 1 <= highest'
        /\ highest' <= (n - 1) + Finality /\ highest' <= MaxTip
    BY <1>0, <2>1, <2>2 DEF NetOK
  <2>7. \A h \in Nat : h + Finality <= highest => BlockAt(h)' = BlockAt(h)
    <3>1. n \in Nat
      BY <1>0
    <3> HIDE DEF n
    <3>2. \A h \in Nat : h + Finality <= highest => h # n
      BY <1>0, <2>1, <2>2, <3>1
    <3> QED
      BY <2>4, <3>2
  <2>8. \A g, h \in Nat : g # h => BlockAt(g)' \cap BlockAt(h)' = {}
    BY <2>4 DEF NetOK
  <2>9. \A h \in Nat : BlockAt(h)' \cap mempool' = {}
    <3>1. \A h \in Nat : h # n => BlockAt(h) \cap chain[n] = {}
      BY <1>0, <2>5 DEF NetOK
    <3>2. \A h \in Nat : BlockAt(h) \cap mempool = {}
      BY DEF NetOK
    <3>3. mempool' = mempool \cup chain[n]
      BY <2>1
    <3> QED
      BY <2>4, <3>1, <3>2, <3>3
  <2>10. mempool' \in SUBSET Txs
    BY <1>0, <2>1, <2>5
  <2> QED
    BY <2>3, <2>6, <2>7, <2>8, <2>9, <2>10 DEF NetOK, NetKept
<1>6. ASSUME NEW t \in Txs, Age(t)
      PROVE  UNCHANGED network
  BY <1>6 DEF Age, network
<1>7. CASE Network
  BY <1>0, <1>1, <1>2, <1>3, <1>4, <1>5, <1>6, <1>7 DEF Network, network
<1> QED
  BY <1>0, <1>1, <1>7, SyncLeavesNetwork DEF Next, vars, network

-----------------------------------------------------------------------------
(* The control invariant.                                                  *)

LEMMA ControlFacts ==
    ASSUME ControlInv
    PROVE  /\ tip \in Nat /\ tip \in Heights /\ tip < MaxU32
           /\ meta.scanned \in Nat /\ meta.scanned \in Heights
           /\ cursor \in Nat /\ highest \in Nat /\ MaxTip \in Nat /\ highest <= MaxTip
           /\ Birthday \in Heights /\ Birthday # 0 /\ Birthday \in Nat
           /\ Finality \in Nat /\ BatchSize \in Nat \ {0}
<1>1. /\ tip \in Nat /\ meta.scanned \in Nat /\ cursor \in Nat /\ highest \in Nat
      /\ tip <= highest /\ meta.scanned <= highest /\ highest <= MaxTip
  BY DEF ControlInv, TypeOK, NetOK, PlanOK
<1> QED
  BY <1>1, SyncAssumption, WidthAssumption DEF Heights

LEMMA ReadType ==
    ASSUME TypeOK, NEW batch \in ScanBatch
    PROVE  /\ HeightsOf(batch) \in SUBSET Nat
           /\ Read(batch) \in [HeightsOf(batch) -> SUBSET Txs]
<1>1. HeightsOf(batch) \in SUBSET Nat
  BY WidthAssumption DEF ScanBatch, HeightsOf, Heights
<1> QED
  BY <1>1, NetTypes DEF Read

LEMMA OverlapType ==
    ASSUME ControlInv
    PROVE  OverlapBatch \in ScanBatch
  BY ControlFacts, OverlapRange DEF OverlapBatch

\* A step is one ledger transaction that recomputes what it touches, or it
\* leaves receipts and totals alone; only Age touches a receipt otherwise.
LedgerKept ==
    /\ UNCHANGED << rows, totals >>
    /\ dirty' \subseteq dirty /\ affected' \subseteq affected

LEMMA LedgerKinds ==
    ASSUME ControlInv, [Next]_vars
    PROVE  \/ \E new \in [Txs -> Row] : Commit(new, tip)
           \/ \E t \in Txs : Age(t)
           \/ LedgerKept
<1> DEFINE Kind == \/ \E new \in [Txs -> Row] : Commit(new, tip)
                   \/ \E t \in Txs : Age(t)
                   \/ LedgerKept
<1> SUFFICES Kind
    OBVIOUS
<1>0. TypeOK /\ tip \in Nat
  BY ControlFacts DEF ControlInv
<1>1. CASE RevokeAboveTip
  BY <1>0, <1>1, RevokedType DEF RevokeAboveTip, ledger, LedgerKept
<1>2. CASE ReconcileOverlap
  BY <1>0, <1>2, OverlapType, ReadType, ReconciledType DEF ReconcileOverlap
<1>3. CASE ScanBatchStep
  <2>1. PICK f \in fetched : Commit(ReconciledInRange(f.blocks, tip), tip)
    BY <1>3 DEF ScanBatchStep
  <2>2. f.batch \in ScanBatch /\ f.blocks \in [HeightsOf(f.batch) -> SUBSET Txs]
    BY DEF ControlInv, FetchedOK
  <2> QED
    BY <1>0, <2>1, <2>2, ReadType, ReconciledType
<1>4. CASE AdvanceReceiptMaturity
  BY <1>0, <1>4, MaturedType DEF AdvanceReceiptMaturity
<1>5. CASE ReconcileCurrentMempool \/ ReconcilePeriodically
  <2>1. PICK seen, found, flag : Commit(MempoolReconciled(seen, found, flag), tip)
    BY <1>5 DEF ReconcileCurrentMempool, ReconcilePeriodically, ReconcileMempool
  <2> QED
    BY <1>0, <2>1, MempoolType
<1>6. CASE QueueReorgAffected \/ QueueBatch \/ QueueMatured \/ QueueMempool \/ QueuePeriodic
  BY <1>6
  DEF QueueReorgAffected, QueueBatch, QueueMatured, QueueMempool, QueuePeriodic,
      QueueAffected, LedgerKept
<1>7. CASE IterationFails \/ CrashAndRestart
  BY <1>7 DEF IterationFails, CrashAndRestart, GiveUp, ledger, LedgerKept
<1>8. CASE Network \/ UNCHANGED vars
  BY <1>8 DEF Network, Broadcast, Evict, Mine, Rewind, Moved, vars, ledger, LedgerKept
<1>9. CASE SampleTip \/ MarkCatchingUp \/ RecordBatch \/ FetchMempoolTxids
           \/ RecordStatus \/ Wake
  BY <1>9
  DEF SampleTip, MarkCatchingUp, RecordBatch, FetchMempoolTxids, RecordStatus, Wake,
      ledger, LedgerKept
<1>10. ASSUME NEW k, DownloadBatch(k)
       PROVE  Kind
  BY <1>10 DEF DownloadBatch, ledger, LedgerKept
<1> HIDE DEF Kind
<1> QED
  BY <1>1, <1>2, <1>3, <1>4, <1>5, <1>6, <1>7, <1>8, <1>9, <1>10 DEF Next, Sync

\* Only fresh changes when a receipt ages.
LEMMA AgeRows ==
    ASSUME TypeOK, NEW t \in Txs, Age(t)
    PROVE  /\ rows' \in [Txs -> Row]
           /\ \A u \in Txs : /\ rows'[u].kind = rows[u].kind
                             /\ rows'[u].height = rows[u].height
                             /\ rows'[u].active = rows[u].active
                             /\ rows'[u].eligible = rows[u].eligible
                             /\ rows'[u].depth = rows[u].depth
           /\ UNCHANGED << totals, dirty, affected >>
<1>1. rows' = [rows EXCEPT ![t] = [rows[t] EXCEPT !.fresh = FALSE]]
  BY DEF Age, TypeOK
<1>2. rows \in [Txs -> Row] /\ [rows[t] EXCEPT !.fresh = FALSE] \in Row
  BY RowUpdateType DEF TypeOK
<1>3. LET row == [rows[t] EXCEPT !.fresh = FALSE]
      IN  /\ row.kind = rows[t].kind /\ row.height = rows[t].height
          /\ row.active = rows[t].active /\ row.eligible = rows[t].eligible
          /\ row.depth = rows[t].depth
  BY <1>2 DEF Row
<1> QED
  BY <1>1, <1>2, <1>3 DEF Age

\* Every ledger transaction writes rows, totals, marks and ids of their types.
LEMMA LedgerType ==
    ASSUME ControlInv, [Next]_vars
    PROVE  /\ rows' \in [Txs -> Row]
           /\ totals' \in [Addresses -> [0 .. ArrayDepth -> SUBSET Txs]]
           /\ dirty' \in SUBSET Addresses
           /\ affected' \in SUBSET Addresses
<1>0. TypeOK
  BY DEF ControlInv
<1>1. CASE \E new \in [Txs -> Row] : Commit(new, tip)
  BY <1>0, <1>1, CommitType
<1>2. CASE \E t \in Txs : Age(t)
  BY <1>0, <1>2, AgeRows DEF TypeOK
<1>3. CASE LedgerKept
  BY <1>0, <1>3 DEF LedgerKept, TypeOK
<1> QED
  BY <1>1, <1>2, <1>3, LedgerKinds

\* Steps that leave the plan of the iteration alone.
Planned ==
    /\ UNCHANGED << meta, tip, cursor >>
    /\ \/ pc' = pc \/ pc' = "idle"
       \/ /\ pc # "idle" /\ pc' # "revoke"
          /\ pc' = "overlap" => pc = "revoke"

LEMMA NetworkPlan ==
    ASSUME Network
    PROVE  UNCHANGED << recorded, pc, task, affected >>
  BY DEF Network, Broadcast, Evict, Age, Mine, Rewind, Moved

LEMMA PlanKinds ==
    ASSUME [Next]_vars
    PROVE  Planned \/ SampleTip \/ MarkCatchingUp \/ RecordBatch \/ RecordStatus
<1>1. CASE Network \/ UNCHANGED vars
  BY <1>1, NetworkPlan DEF vars, recorded, task, Planned
<1>2. CASE IterationFails \/ CrashAndRestart
  BY <1>2 DEF IterationFails, CrashAndRestart, GiveUp, Planned
<1>3. CASE RevokeAboveTip \/ ReconcileOverlap \/ QueueReorgAffected \/ ScanBatchStep
           \/ QueueBatch \/ AdvanceReceiptMaturity \/ QueueMatured
  BY <1>3 DEF RevokeAboveTip, ReconcileOverlap, QueueReorgAffected, ScanBatchStep,
              QueueBatch, AdvanceReceiptMaturity, QueueMatured, Goto, recorded, task,
              Planned
<1>4. CASE FetchMempoolTxids \/ QueueMempool \/ QueuePeriodic \/ Wake
  BY <1>4 DEF FetchMempoolTxids, QueueMempool, QueuePeriodic, Wake, Goto, recorded, task,
              Planned
<1>5. CASE ReconcileCurrentMempool \/ ReconcilePeriodically
  BY <1>5 DEF ReconcileCurrentMempool, ReconcilePeriodically, ReconcileMempool, recorded,
              Planned
<1>6. ASSUME NEW k, DownloadBatch(k)
      PROVE  Planned
  BY <1>6 DEF DownloadBatch, recorded, Planned
<1> QED
  BY <1>1, <1>2, <1>3, <1>4, <1>5, <1>6 DEF Next, Sync

\* The batch that is recorded is the next one of the plan.
LEMMA RecordedBatch ==
    ASSUME ControlInv, NEW f \in fetched, f.batch.start = cursor
    PROVE  /\ f.batch = CurrentBatch /\ cursor <= tip
           /\ f.batch.end \in cursor .. tip /\ f.batch.end < cursor + BatchSize
           /\ f.batch.end = tip \/ f.batch.end + 1 = cursor + BatchSize
<1> USE ControlFacts
<1>1. f.batch = CurrentBatch /\ cursor <= tip
  BY DEF ControlInv, FetchedOK, CurrentBatch
<1>2. CurrentBatch.end = Lower(SaturatingAdd(cursor, SaturatingSub(BatchSize, 1)), tip)
  BY <1>1 DEF CurrentBatch, NextScanBatch
<1>3. SaturatingSub(BatchSize, 1) = BatchSize - 1
  BY DEF SaturatingSub, Higher
<1>4. CurrentBatch.end = Lower(Lower(cursor + (BatchSize - 1), MaxU32), tip)
  BY <1>2, <1>3 DEF SaturatingAdd
<1> HIDE DEF CurrentBatch
<1>5. /\ CurrentBatch.end \in cursor .. tip /\ CurrentBatch.end < cursor + BatchSize
      /\ CurrentBatch.end = tip \/ CurrentBatch.end + 1 = cursor + BatchSize
  <2>1. MaxU32 \in Nat /\ tip \in Nat /\ cursor \in Nat /\ tip < MaxU32
        /\ BatchSize \in Nat \ {0} /\ cursor <= tip
    BY <1>1, WidthAssumption
  <2> QED
    BY <1>4, <2>1 DEF Lower
<1> QED
  BY <1>1, <1>5

LEMMA PlanStep ==
    ASSUME ControlInv, [Next]_vars
    PROVE  /\ PlanOK'
           /\ tip' \in Nat /\ cursor' \in Nat /\ pc' \in Steps
           /\ meta' \in [scanned : Nat, state : {"starting", "catching_up", "synced"}]
<1> USE SyncAssumption, ControlFacts
<1>0. /\ TypeOK /\ PlanOK /\ NetOK
      /\ highest' \in Nat /\ highest' >= highest
      /\ Len(chain) \in Nat
  BY NetStep, NetTypes DEF ControlInv, NetKept
<1>1. pc' \in Steps
  <2>1. CASE Network \/ UNCHANGED vars
    BY <1>0, <2>1, NetworkPlan DEF vars, TypeOK
  <2>2. CASE Sync
    BY <2>2
    DEF Sync, SampleTip, RevokeAboveTip, ReconcileOverlap, QueueReorgAffected,
        MarkCatchingUp, DownloadBatch, ScanBatchStep, QueueBatch, RecordBatch,
        AdvanceReceiptMaturity, QueueMatured, FetchMempoolTxids,
        ReconcileCurrentMempool, QueueMempool, RecordStatus, ReconcilePeriodically,
        QueuePeriodic, Wake, Goto, Steps
  <2>3. CASE IterationFails \/ CrashAndRestart
    BY <2>3 DEF IterationFails, CrashAndRestart, GiveUp, Steps
  <2> QED
    BY <2>1, <2>2, <2>3 DEF Next
<1>2. CASE Planned
  BY <1>0, <1>1, <1>2 DEF Planned, PlanOK, TypeOK
<1>3. CASE SampleTip
  <2>1. /\ tip' = Len(chain) /\ meta' = meta /\ pc' = "revoke" /\ highest' = highest
        /\ cursor' = ForwardScanStartHeight(Birthday, meta.scanned, tip')
    BY <1>3 DEF SampleTip, network, recorded
  <2>2. tip' \in Nat /\ tip' <= highest /\ meta.scanned <= tip' + Finality
    BY <1>0, <2>1 DEF NetOK, PlanOK
  <2>3. tip' \in Heights /\ tip' < MaxU32
    BY <2>2, WidthAssumption DEF Heights
  <2>4. /\ cursor' \in Heights
        /\ cursor' >= Birthday /\ cursor' > Lower(meta.scanned, tip')
        /\ cursor' = Birthday \/ cursor' = Lower(meta.scanned, tip') + 1
    BY <2>1, <2>3, ForwardStart
  <2>5. cursor' \in Nat
    BY <2>4, WidthAssumption DEF Heights
  <2> QED
    BY <1>0, <1>1, <2>1, <2>2, <2>4, <2>5 DEF PlanOK, TypeOK
<1>4. CASE MarkCatchingUp
  <2>1. /\ meta'.scanned = meta.scanned /\ tip' = tip /\ cursor' = cursor
        /\ meta' \in [scanned : Nat, state : {"starting", "catching_up", "synced"}]
        /\ pc = "mark" /\ pc' = "scan"
    BY <1>0, <1>4 DEF MarkCatchingUp, RecordSyncStatus, Goto, task, TypeOK
  <2> QED
    BY <1>0, <1>1, <2>1 DEF PlanOK, TypeOK
<1>5. CASE RecordBatch
  <2>1. PICK f \in fetched :
            /\ f.batch.start = cursor
            /\ meta' = [scanned |-> f.batch.end, state |-> "catching_up"]
            /\ cursor' = f.batch.end + 1
    BY <1>5 DEF RecordBatch, RecordSyncStatus
  <2>2. f.batch.end \in Nat /\ f.batch.end <= tip /\ f.batch.end >= cursor
    BY <2>1, RecordedBatch
  <2>3. tip' = tip /\ pc = "record_batch" /\ pc' = "scan"
    BY <1>5 DEF RecordBatch, Goto
  <2>4. /\ meta'.scanned = f.batch.end
        /\ meta' \in [scanned : Nat, state : {"starting", "catching_up", "synced"}]
    BY <2>1, <2>2
  <2>5. /\ meta'.scanned <= tip' + Finality /\ meta'.scanned <= highest'
        /\ cursor' >= Birthday /\ cursor' > Lower(meta'.scanned, tip') /\ cursor' \in Nat
        /\ tip' <= highest'
    <3>1. cursor >= Birthday /\ tip <= highest
      BY <1>0, <2>3 DEF PlanOK
    <3> DEFINE e == f.batch.end
    <3>2. /\ e \in Nat /\ e <= tip /\ e >= cursor /\ meta'.scanned = e /\ cursor' = e + 1
          /\ tip' = tip
      BY <2>1, <2>2, <2>3, <2>4
    <3> HIDE DEF e
    <3> QED
      BY <1>0, <3>1, <3>2 DEF Lower
  <2> QED
    BY <1>0, <1>1, <2>3, <2>4, <2>5 DEF PlanOK
<1>6. CASE RecordStatus
  <2> DEFINE s == Lower(tip, meta.scanned)
  <2>1. /\ meta'.scanned = s /\ tip' = tip /\ cursor' = cursor
        /\ meta'.state \in {"catching_up", "synced"}
        /\ meta' = [scanned |-> s, state |-> meta'.state]
        /\ pc = "record" /\ pc' = "waiting"
    BY <1>6 DEF RecordStatus, RecordSyncStatus, NewLastScanned, Goto, task
  <2>2. s \in Nat /\ s <= tip /\ s <= meta.scanned /\ Lower(s, tip) = Lower(meta.scanned, tip)
    BY DEF Lower
  <2> HIDE DEF s
  <2>3. meta' \in [scanned : Nat, state : {"starting", "catching_up", "synced"}]
    BY <2>1, <2>2
  <2> QED
    BY <1>0, <1>1, <2>1, <2>2, <2>3 DEF PlanOK
<1> QED
  BY <1>2, <1>3, <1>4, <1>5, <1>6, PlanKinds

\* Steps that leave the waiting downloads alone.
Waits ==
    /\ UNCHANGED << fetched, tip, cursor >>
    /\ pc \in Scanning => pc' \in Scanning

LEMMA FetchedKinds ==
    ASSUME [Next]_vars
    PROVE  \/ Waits \/ fetched' = {} \/ SampleTip \/ RecordBatch \/ AdvanceReceiptMaturity
           \/ \E k \in 0 .. (Ahead - 1) : DownloadBatch(k)
<1>1. CASE Network \/ UNCHANGED vars
  BY <1>1, NetworkPlan DEF vars, task, Waits
<1>2. CASE IterationFails \/ CrashAndRestart
  BY <1>2 DEF IterationFails, CrashAndRestart, GiveUp
<1>3. CASE RevokeAboveTip \/ ReconcileOverlap \/ QueueReorgAffected \/ ScanBatchStep
           \/ QueueBatch \/ QueueMatured \/ MarkCatchingUp
  BY <1>3 DEF RevokeAboveTip, ReconcileOverlap, QueueReorgAffected, ScanBatchStep,
              QueueBatch, QueueMatured, MarkCatchingUp, Goto, task, Waits, Scanning
<1>4. CASE FetchMempoolTxids \/ QueueMempool \/ QueuePeriodic \/ Wake \/ RecordStatus
  BY <1>4 DEF FetchMempoolTxids, QueueMempool, QueuePeriodic, Wake, RecordStatus,
              Goto, task, Waits, Scanning
<1>5. CASE ReconcileCurrentMempool \/ ReconcilePeriodically
  BY <1>5 DEF ReconcileCurrentMempool, ReconcilePeriodically, ReconcileMempool,
              Waits, Scanning
<1> QED
  BY <1>1, <1>2, <1>3, <1>4, <1>5 DEF Next, Sync

\* Past the tip nothing waits, so the loop leaves no download behind.
LEMMA NothingWaits ==
    ASSUME ControlInv, cursor > tip
    PROVE  fetched = {}
<1> SUFFICES ASSUME NEW f \in fetched
             PROVE  FALSE
    OBVIOUS
<1>1. PICK k \in Nat : f.batch.start = cursor + k * BatchSize
  BY DEF ControlInv, FetchedOK
<1>2. f.batch.start <= tip
  BY DEF ControlInv, FetchedOK
<1>3. k * BatchSize \in Nat
  BY ControlFacts
<1> QED
  BY <1>1, <1>2, <1>3, ControlFacts

LEMMA FetchedStep ==
    ASSUME ControlInv, [Next]_vars
    PROVE  FetchedOK'
<1> USE ControlFacts
<1>0. TypeOK /\ FetchedOK
  BY DEF ControlInv
<1>1. CASE Waits
  BY <1>0, <1>1 DEF Waits, FetchedOK
<1>2. CASE fetched' = {}
  BY <1>2 DEF FetchedOK
<1>3. CASE SampleTip
  <2>1. fetched' = fetched /\ pc = "idle"
    BY <1>3 DEF SampleTip
  <2> QED
    BY <1>0, <1>2, <2>1 DEF FetchedOK, Scanning
<1>4. CASE AdvanceReceiptMaturity
  <2>1. fetched' = fetched /\ cursor > tip
    BY <1>4 DEF AdvanceReceiptMaturity, task
  <2> QED
    BY <1>2, <2>1, NothingWaits
<1>5. ASSUME NEW k \in 0 .. (Ahead - 1), DownloadBatch(k)
      PROVE  FetchedOK'
  <2> DEFINE next == cursor + k * BatchSize
             batch == NextScanBatch(next, tip, BatchSize)
             new == [batch |-> batch, blocks |-> Read(batch)]
  <2>1. k \in Nat /\ next \in Nat
    BY SyncAssumption
  <2>2. /\ pc = "scan" /\ pc' = pc /\ tip' = tip /\ cursor' = cursor
        /\ batch # NoBatch /\ \A f \in fetched : f.batch # batch
        /\ fetched' = fetched \cup {new}
    BY <1>5 DEF DownloadBatch
  <2>3. next <= tip /\ batch \in ScanBatch /\ batch.start = next
    <3> HIDE DEF next
    <3>1. batch \in ScanBatch /\ batch.start = next /\ next <= tip
      BY <2>1, <2>2, NextBatch
    <3> QED
      BY <3>1
  <2>4. Read(batch) \in [HeightsOf(batch) -> SUBSET Txs]
    BY <1>0, <2>3, ReadType
  <2>5. new.batch = batch /\ new.blocks = Read(batch)
    OBVIOUS
  <2> HIDE DEF new
  <2>6. /\ new.batch \in ScanBatch /\ new.batch.start <= tip
        /\ new.batch = NextScanBatch(new.batch.start, tip, BatchSize)
        /\ new.blocks \in [HeightsOf(new.batch) -> SUBSET Txs]
        /\ \E j \in Nat : new.batch.start = cursor + j * BatchSize
    BY <2>1, <2>3, <2>4, <2>5
  <2> HIDE DEF batch, next
  <2>7. \A f \in fetched' :
            /\ f.batch \in ScanBatch /\ f.batch.start <= tip
            /\ f.batch = NextScanBatch(f.batch.start, tip, BatchSize)
            /\ f.blocks \in [HeightsOf(f.batch) -> SUBSET Txs]
            /\ \E j \in Nat : f.batch.start = cursor + j * BatchSize
    BY <1>0, <2>2, <2>6 DEF FetchedOK
  <2>8. \A f, g \in fetched' : f.batch = g.batch => f = g
    BY <1>0, <2>2, <2>5 DEF FetchedOK
  <2> QED
    BY <2>2, <2>7, <2>8 DEF FetchedOK, Scanning
<1>6. CASE RecordBatch
  <2>1. PICK e \in fetched :
            /\ e.batch.start = cursor
            /\ cursor' = e.batch.end + 1
            /\ fetched' = fetched \ {e}
    BY <1>6 DEF RecordBatch
  <2>2. pc' = "scan" /\ tip' = tip
    BY <1>6 DEF RecordBatch, Goto
  <2>3. /\ e.batch = CurrentBatch /\ e.batch.end \in Nat /\ cursor <= tip
        /\ e.batch.end = tip \/ e.batch.end + 1 = cursor + BatchSize
    BY <2>1, RecordedBatch
  <2>4. ASSUME NEW f \in fetched \ {e}
        PROVE  \E j \in Nat : f.batch.start = cursor' + j * BatchSize
    <3>1. PICK k \in Nat : f.batch.start = cursor + k * BatchSize
      BY <1>0 DEF FetchedOK
    <3>2. k # 0
      <4>1. CASE k = 0
        <5>1. f.batch.start = cursor
          BY <3>1, <4>1
        <5>2. f.batch = CurrentBatch
          BY <5>1, RecordedBatch
        <5> QED
          BY <1>0, <2>3, <5>2 DEF FetchedOK
      <4> QED
        BY <4>1
    <3>3. /\ k - 1 \in Nat /\ (k - 1) * BatchSize \in Nat
          /\ k * BatchSize = (k - 1) * BatchSize + BatchSize
      BY <3>2, GridStep
    <3>4. f.batch.start <= tip
      BY <1>0 DEF FetchedOK
    <3> DEFINE m == (k - 1) * BatchSize
               E == e.batch.end
               F == f.batch.start
    <3>5. /\ m \in Nat /\ F = cursor + (m + BatchSize) /\ F <= tip
          /\ E = tip \/ E + 1 = cursor + BatchSize
          /\ cursor' = E + 1 /\ E \in Nat
      BY <2>1, <2>3, <3>1, <3>3, <3>4
    <3>6. E <= cursor + BatchSize - 1
      <4>1. E < cursor + BatchSize
        BY <2>1, RecordedBatch
      <4> HIDE DEF E
      <4> QED
        BY <3>5, <4>1
    <3> HIDE DEF m, E, F
    <3>7. E + 1 = cursor + BatchSize
      <4>1. cursor \in Nat /\ tip \in Nat /\ BatchSize \in Nat
        OBVIOUS
      <4> QED
        BY <3>5, <3>6, <4>1
    <3>8. F = cursor' + m
      BY <3>5, <3>7
    <3> QED
      BY <3>3, <3>8 DEF m, F
  <2>5. \A f \in fetched' : f \in fetched /\ f \in fetched \ {e}
    BY <2>1
  <2>6. \A f \in fetched' :
            /\ f.batch \in ScanBatch /\ f.batch.start <= tip
            /\ f.batch = NextScanBatch(f.batch.start, tip, BatchSize)
            /\ f.blocks \in [HeightsOf(f.batch) -> SUBSET Txs]
    BY <1>0, <2>5 DEF FetchedOK
  <2>7. \A f, g \in fetched' : f.batch = g.batch => f = g
    BY <1>0, <2>5 DEF FetchedOK
  <2> QED
    BY <2>2, <2>4, <2>5, <2>6, <2>7 DEF FetchedOK, Scanning
<1> QED
  BY <1>1, <1>2, <1>3, <1>4, <1>5, <1>6, FetchedKinds

\* What failed iterations leave behind only grows when one fails.
LEMMA HistoryStep ==
    ASSUME TypeOK, [Next]_vars
    PROVE  /\ dropped' \in SUBSET Addresses
           /\ unrecorded' \in SUBSET Txs
<1>0. /\ dropped \in SUBSET Addresses /\ affected \in SUBSET Addresses
      /\ unrecorded \in SUBSET Txs
  BY DEF TypeOK
<1>1. CASE RevokeAboveTip
  BY <1>0, <1>1 DEF RevokeAboveTip, Commit, ledger
<1>2. CASE ReconcileOverlap \/ ScanBatchStep \/ AdvanceReceiptMaturity
  BY <1>0, <1>2 DEF ReconcileOverlap, ScanBatchStep, AdvanceReceiptMaturity, Commit, recorded
<1>3. CASE ReconcileCurrentMempool \/ ReconcilePeriodically
  BY <1>0, <1>3
  DEF ReconcileCurrentMempool, ReconcilePeriodically, ReconcileMempool, Commit, recorded
<1>4. CASE QueueReorgAffected \/ QueueBatch \/ QueueMatured \/ QueueMempool \/ QueuePeriodic
  BY <1>0, <1>4
  DEF QueueReorgAffected, QueueBatch, QueueMatured, QueueMempool, QueuePeriodic,
      QueueAffected, recorded
<1>5. CASE IterationFails \/ CrashAndRestart
  BY <1>0, <1>5 DEF IterationFails, CrashAndRestart, GiveUp
<1>6. CASE RecordBatch
  BY <1>0, <1>6 DEF RecordBatch, ledger
<1>7. CASE SampleTip \/ MarkCatchingUp \/ FetchMempoolTxids \/ RecordStatus \/ Wake
  BY <1>0, <1>7
  DEF SampleTip, MarkCatchingUp, FetchMempoolTxids, RecordStatus, Wake, ledger, recorded
<1>8. ASSUME NEW k, DownloadBatch(k)
      PROVE  UNCHANGED << dropped, unrecorded >>
  BY <1>8 DEF DownloadBatch, ledger, recorded
<1>9. CASE Network \/ UNCHANGED vars
  BY <1>0, <1>9
  DEF Network, Broadcast, Evict, Age, Mine, Rewind, Moved, vars, ledger, recorded
<1> QED
  BY <1>0, <1>1, <1>2, <1>3, <1>4, <1>5, <1>6, <1>7, <1>8, <1>9 DEF Next, Sync

LEMMA TypeStep ==
    ASSUME ControlInv, [Next]_vars
    PROVE  TypeOK'
<1>0. TypeOK
  BY DEF ControlInv
<1>1. /\ chain' \in Seq(SUBSET Txs) /\ highest' \in Nat /\ mempool' \in SUBSET Txs
  BY NetStep DEF ControlInv
<1>2. \A f \in fetched' : f.batch \in ScanBatch
  BY FetchedStep DEF FetchedOK
<1>3. snapshot' \in SUBSET Txs /\ quiet' \in BOOLEAN /\ cut' \in BOOLEAN
  <2>1. CASE Network \/ UNCHANGED vars
    BY <1>0, <2>1 DEF Network, Broadcast, Evict, Age, Mine, Rewind, Moved, task, vars, TypeOK
  <2>2. CASE IterationFails \/ CrashAndRestart
    BY <1>0, <2>2 DEF IterationFails, CrashAndRestart, GiveUp, TypeOK
  <2>3. CASE ReconcileCurrentMempool \/ ReconcilePeriodically
    BY <1>0, <2>3
    DEF ReconcileCurrentMempool, ReconcilePeriodically, ReconcileMempool, TypeOK
  <2>4. CASE FetchMempoolTxids
    BY <1>0, <2>4 DEF FetchMempoolTxids, Goto, TypeOK
  <2>5. ASSUME UNCHANGED << snapshot, cut >>, quiet' = quiet \/ quiet' = TRUE
        PROVE  snapshot' \in SUBSET Txs /\ quiet' \in BOOLEAN /\ cut' \in BOOLEAN
    BY <1>0, <2>5 DEF TypeOK
  <2>6. CASE SampleTip
    BY <2>5, <2>6 DEF SampleTip
  <2>7. ASSUME NEW k, DownloadBatch(k)
        PROVE  snapshot' \in SUBSET Txs /\ quiet' \in BOOLEAN /\ cut' \in BOOLEAN
    BY <2>5, <2>7 DEF DownloadBatch
  <2>8. CASE RevokeAboveTip \/ ReconcileOverlap \/ QueueReorgAffected \/ MarkCatchingUp
             \/ ScanBatchStep \/ QueueBatch \/ RecordBatch \/ AdvanceReceiptMaturity
             \/ QueueMatured \/ QueueMempool \/ RecordStatus \/ QueuePeriodic \/ Wake
    BY <2>5, <2>8
    DEF RevokeAboveTip, ReconcileOverlap, QueueReorgAffected, MarkCatchingUp,
        ScanBatchStep, QueueBatch, RecordBatch, AdvanceReceiptMaturity, QueueMatured,
        QueueMempool, RecordStatus, QueuePeriodic, Wake, Goto, task
  <2> QED
    BY <2>1, <2>2, <2>3, <2>4, <2>6, <2>7, <2>8 DEF Next, Sync
<1>4. dropped' \in SUBSET Addresses /\ unrecorded' \in SUBSET Txs
  BY <1>0, HistoryStep DEF TypeOK
<1> QED
  BY <1>1, <1>2, <1>3, <1>4, LedgerType, PlanStep DEF TypeOK

LEMMA ControlInit ==
    ASSUME Init
    PROVE  ControlInv
<1> USE SyncAssumption
<1>0. /\ MaxTip \in Nat /\ MaxTip >= 1 /\ Birthday \in Nat /\ Finality \in Nat
  BY WidthAssumption DEF Heights
<1>1. chain = << {} >> /\ highest = 1 /\ mempool = {} /\ fetched = {}
  BY DEF Init
<1>2. chain \in Seq(SUBSET Txs) /\ Len(chain) = 1 /\ DOMAIN chain = 1 .. 1 /\ chain[1] = {}
  BY <1>1
<1>3. \A h \in Nat : BlockAt(h) = {}
  BY <1>2 DEF BlockAt
<1>4. NetOK
  BY <1>0, <1>1, <1>2, <1>3 DEF NetOK
<1>5. NoRow \in Row
  BY DEF NoRow, Row
<1>6. TypeOK
  <2>1. rows \in [Txs -> Row]
    BY <1>5 DEF Init
  <2>2. totals \in [Addresses -> [0 .. ArrayDepth -> SUBSET Txs]]
    BY DEF Init
  <2>3. meta \in [scanned : Nat, state : {"starting", "catching_up", "synced"}]
    BY DEF Init
  <2>4. tip \in Nat /\ cursor \in Nat /\ pc \in Steps
    BY <1>0 DEF Init, Steps
  <2>5. /\ dirty \in SUBSET Addresses /\ affected \in SUBSET Addresses
        /\ snapshot \in SUBSET Txs /\ quiet \in BOOLEAN /\ cut \in BOOLEAN
        /\ dropped \in SUBSET Addresses /\ unrecorded \in SUBSET Txs
        /\ highest \in Nat /\ mempool \in SUBSET Txs
    BY DEF Init
  <2> QED
    BY <1>1, <1>2, <2>1, <2>2, <2>3, <2>4, <2>5 DEF TypeOK
<1>7. PlanOK
  BY <1>0, <1>1 DEF Init, PlanOK
<1>8. FetchedOK
  BY <1>1 DEF FetchedOK
<1> QED
  BY <1>4, <1>6, <1>7, <1>8 DEF ControlInv

\* Chain and mempool hold a transaction once, the forward scan continues where
\* the recorded height ends, and downloads that wait belong to its plan.
THEOREM ControlInvariance == Spec => []ControlInv
<1>1. Init => ControlInv
  BY ControlInit
<1>2. ControlInv /\ [Next]_vars => ControlInv'
  BY NetStep, PlanStep, FetchedStep, TypeStep DEF ControlInv
<1> QED
  BY <1>1, <1>2, PTL DEF Spec

\* TypeOK: the values every variable of the sync loop and its ledger can take;
\* a receipt's depth is never negative, whatever tip it is seen from.
THEOREM TypeTheorem == Spec => []TypeOK
<1>1. ControlInv => TypeOK
  BY DEF ControlInv
<1> QED
  BY <1>1, ControlInvariance, PTL

-----------------------------------------------------------------------------
(* The totals.                                                             *)

LEMMA CommitTotals ==
    ASSUME TypeOK, TotalsMatchReceipts, NEW new \in [Txs -> Row], NEW top \in Nat,
           Commit(new, top)
    PROVE  TotalsMatchReceipts'
<1> DEFINE ids == {Owner[t] : t \in {u \in Txs : new[u] # rows[u]}}
<1>1. /\ rows' = new
      /\ totals' = [a \in Addresses |-> IF a \in ids THEN Report(new, a, top) ELSE totals[a]]
  BY DEF Commit
<1> SUFFICES ASSUME NEW t \in Txs
             PROVE  t \in totals'[Owner[t]][0] <=> (new[t].active /\ new[t].eligible)
    BY <1>1 DEF TotalsMatchReceipts, Counted
<1>2. Owner[t] \in Addresses /\ 0 \in 0 .. ArrayDepth
  BY SyncAssumption
<1>3. CASE Owner[t] \in ids
  <2>1. totals'[Owner[t]] = Report(new, Owner[t], top)
    BY <1>1, <1>2, <1>3
  <2>2. new[t].height \in Nat
    BY RowFields
  <2>3. 0 <= IF new[t].kind = "mined" THEN DepthAt(top, new[t].height) ELSE 0
    <3>1. DepthAt(top, new[t].height) \in Nat
      BY <2>2, DepthType
    <3> DEFINE d == DepthAt(top, new[t].height)
    <3>2. d \in Nat
      BY <3>1
    <3> HIDE DEF d
    <3>3. 0 <= IF new[t].kind = "mined" THEN d ELSE 0
      BY <3>2
    <3> QED
      BY <3>3 DEF d
  <2>4. Report(new, Owner[t], top)[0] =
          {u \in Txs : /\ Owner[u] = Owner[t]
                       /\ new[u].active /\ new[u].eligible
                       /\ 0 <= IF new[u].kind = "mined"
                               THEN DepthAt(top, new[u].height) ELSE 0}
    BY <1>2 DEF Report
  <2> QED
    BY <2>1, <2>3, <2>4
<1>4. CASE Owner[t] \notin ids
  <2>1. totals'[Owner[t]] = totals[Owner[t]]
    BY <1>1, <1>2, <1>4
  <2>2. new[t] = rows[t]
    BY <1>4
  <2> QED
    BY <2>1, <2>2 DEF TotalsMatchReceipts, Counted
<1> QED
  BY <1>3, <1>4

\* TotalsMatchReceipts: the stored total of every address is the sum of its
\* active eligible receipts after every transaction of the ledger: no
\* transaction changes a receipt of an address it leaves out of the
\* recomputation (recompute_address_totals).
THEOREM TotalsTheorem == Spec => []TotalsMatchReceipts
<1>1. Init => TotalsMatchReceipts
  <2> SUFFICES ASSUME Init, NEW t \in Txs
               PROVE  Counted(t) <=> (rows[t].active /\ rows[t].eligible)
      BY DEF TotalsMatchReceipts
  <2>1. totals[Owner[t]][0] = {}
    BY SyncAssumption DEF Init
  <2>2. rows[t].active = FALSE
    BY DEF Init, NoRow
  <2> QED
    BY <2>1, <2>2 DEF Counted
<1>2. TotalsMatchReceipts /\ ControlInv /\ [Next]_vars => TotalsMatchReceipts'
  <2> SUFFICES ASSUME TotalsMatchReceipts, ControlInv, [Next]_vars
               PROVE  TotalsMatchReceipts'
      OBVIOUS
  <2>0. TypeOK /\ tip \in Nat
    BY ControlFacts DEF ControlInv
  <2>1. CASE \E new \in [Txs -> Row] : Commit(new, tip)
    BY <2>0, <2>1, CommitTotals
  <2>2. CASE \E t \in Txs : Age(t)
    BY <2>0, <2>2, AgeRows DEF TotalsMatchReceipts, Counted
  <2>3. CASE LedgerKept
    BY <2>3 DEF LedgerKept, TotalsMatchReceipts, Counted
  <2> QED
    BY <2>1, <2>2, <2>3, LedgerKinds
<1> QED
  BY <1>1, <1>2, ControlInvariance, PTL DEF Spec

-----------------------------------------------------------------------------
(* What each ledger transaction does to the mined receipts of a height.    *)

LEMMA ReconciledMined ==
    ASSUME TypeOK, NEW S \in SUBSET Nat, NEW blocks \in [S -> SUBSET Txs], NEW top,
           \A g, h \in S : g # h => blocks[g] \cap blocks[h] = {},
           rows' = ReconciledInRange(blocks, top),
           NEW t \in Txs, NEW h \in Nat
    PROVE  MinedAt(t, h)' <=> \/ h \in S /\ t \in blocks[h]
                              \/ h \notin S /\ MinedAt(t, h) /\ \A g \in S : t \notin blocks[g]
<1> DEFINE mined == \E g \in S : t \in blocks[g]
           pick == CHOOSE g \in S : t \in blocks[g]
           kept == rows[t].active /\ ~(rows[t].kind = "mined" /\ rows[t].height \in S)
<1>0. DOMAIN blocks = S
  OBVIOUS
<1>1. rows'[t] = IF mined THEN MinedRow(pick, top) ELSE [rows[t] EXCEPT !.active = kept]
  BY <1>0 DEF ReconciledInRange, TypeOK, Row
<1>2. CASE mined
  <2>1. pick \in S /\ t \in blocks[pick]
    BY <1>2
  <2>2. \A g \in S : t \in blocks[g] => g = pick
    BY <2>1
  <2> HIDE DEF pick
  <2>3. rows'[t].kind = "mined" /\ rows'[t].active /\ rows'[t].height = pick
    BY <1>1, <1>2 DEF MinedRow
  <2> QED
    BY <1>2, <2>1, <2>2, <2>3 DEF MinedAt
<1>3. CASE ~mined
  <2>1. rows[t] \in Row
    BY DEF TypeOK
  <2>2. /\ rows'[t].kind = rows[t].kind /\ rows'[t].height = rows[t].height
        /\ rows'[t].active = kept
    BY <1>1, <1>3, <2>1 DEF Row
  <2> QED
    BY <1>3, <2>2 DEF MinedAt
<1> QED
  BY <1>2, <1>3

\* A height of the range becomes what was read of it; another one stays exact
\* when what was read holds none of its transactions.
LEMMA ReconciledExact ==
    ASSUME TypeOK, NEW S \in SUBSET Nat, NEW blocks \in [S -> SUBSET Txs], NEW top,
           \A g, h \in S : g # h => blocks[g] \cap blocks[h] = {},
           Commit(ReconciledInRange(blocks, top), top), UNCHANGED network,
           NEW h \in Nat,
           \/ h \in S /\ blocks[h] = BlockAt(h)
           \/ h \notin S /\ Exact(h) /\ \A g \in S : blocks[g] \cap BlockAt(h) = {}
    PROVE  Exact(h)'
<1>1. rows' = ReconciledInRange(blocks, top)
  BY DEF Commit
<1>2. BlockAt(h)' = BlockAt(h)
  BY DEF network, BlockAt
<1>3. ASSUME NEW t \in Txs
      PROVE  t \in BlockAt(h)' <=> MinedAt(t, h)'
  <2>1. MinedAt(t, h)' <=> \/ h \in S /\ t \in blocks[h]
                           \/ h \notin S /\ MinedAt(t, h) /\ \A g \in S : t \notin blocks[g]
    BY <1>1, ReconciledMined
  <2>2. h \notin S => (t \in BlockAt(h) <=> MinedAt(t, h))
    BY DEF Exact
  <2> QED
    BY <1>2, <2>1, <2>2
<1> QED
  BY <1>3 DEF Exact

LEMMA RevokedMined ==
    ASSUME TypeOK, NEW top \in Nat, rows' = RevokedAboveTip(top),
           NEW t \in Txs, NEW h \in Nat, h <= top
    PROVE  MinedAt(t, h)' <=> MinedAt(t, h)
<1> DEFINE kept == rows[t].active /\ ~(rows[t].kind = "mined" /\ rows[t].height > top)
<1>1. rows'[t] = [rows[t] EXCEPT !.active = kept] /\ rows[t] \in Row
  BY DEF RevokedAboveTip, TypeOK, Row
<1>2. /\ rows'[t].kind = rows[t].kind /\ rows'[t].height = rows[t].height
      /\ rows'[t].active = kept
  BY <1>1 DEF Row
<1>3. rows[t].height = h => ~(rows[t].height > top)
  OBVIOUS
<1> QED
  BY <1>2, <1>3 DEF MinedAt

LEMMA MaturedMined ==
    ASSUME TypeOK, NEW top, rows' = Matured(top), NEW t \in Txs, NEW h \in Nat
    PROVE  MinedAt(t, h)' <=> MinedAt(t, h)
<1>1. rows'[t] = IF rows[t].kind = "mined" /\ rows[t].active
                 THEN MinedRow(rows[t].height, top) ELSE rows[t]
  BY DEF Matured
<1> QED
  BY <1>1 DEF MinedRow, MinedAt

LEMMA MempoolMined ==
    ASSUME TypeOK, NEW seen, NEW found, NEW flag,
           rows' = MempoolReconciled(seen, found, flag), NEW t \in Txs, NEW h \in Nat
    PROVE  MinedAt(t, h)' <=> MinedAt(t, h) /\ t \notin found
<1> DEFINE fresh == rows[t].kind = "mempool" => rows[t].fresh
           counts == ReportConf = 0 /\ fresh
           new == [kind |-> "mempool", height |-> 0, active |-> TRUE,
                   eligible |-> counts, depth |-> 0, fresh |-> fresh]
<1>1. rows'[t] =
        IF t \in found THEN new
        ELSE IF rows[t].kind # "mempool" \/ ~rows[t].active THEN rows[t]
        ELSE IF flag /\ t \notin seen THEN [rows[t] EXCEPT !.active = FALSE]
        ELSE [rows[t] EXCEPT !.eligible = counts]
  BY DEF MempoolReconciled
<1>2. rows[t] \in Row
  BY DEF TypeOK
<1>3. new.kind = "mempool"
  OBVIOUS
<1> HIDE DEF new, counts
<1>4. [rows[t] EXCEPT !.active = FALSE].kind = rows[t].kind
      /\ [rows[t] EXCEPT !.eligible = counts].kind = rows[t].kind
  BY <1>2 DEF Row
<1> QED
  BY <1>1, <1>3, <1>4 DEF MinedAt

-----------------------------------------------------------------------------
(* The window invariant.                                                   *)

LEMMA FinalStays ==
    ASSUME ControlInv, [Next]_vars, NEW h \in Nat, Final(h)
    PROVE  BlockAt(h)' = BlockAt(h)
<1>1. h + Finality <= highest
  BY ControlFacts DEF ControlInv, PlanOK, Final
<1> QED
  BY <1>1, NetStep DEF ControlInv, NetKept

\* Within an iteration nothing becomes final: what is recorded is at most the
\* sampled tip.
LEMMA FinalShrinks ==
    ASSUME ControlInv, [Next]_vars, ~SampleTip, NEW h \in Nat, Final(h)'
    PROVE  Final(h)
<1> USE ControlFacts
<1>1. CASE Planned
  BY <1>1 DEF Planned, Final
<1>2. CASE MarkCatchingUp
  <2>1. meta'.scanned = meta.scanned /\ tip' = tip
    BY <1>2 DEF MarkCatchingUp, RecordSyncStatus, Goto, task, ControlInv, TypeOK
  <2> QED
    BY <2>1 DEF Final
<1>3. CASE RecordBatch
  <2>1. PICK f \in fetched : f.batch.start = cursor /\ meta'.scanned = f.batch.end
    BY <1>3 DEF RecordBatch, RecordSyncStatus
  <2>2. f.batch.end \in Nat /\ f.batch.end <= tip
    BY <2>1, RecordedBatch
  <2>3. tip' = tip
    BY <1>3 DEF RecordBatch
  <2> QED
    BY <2>1, <2>2, <2>3 DEF Final
<1>4. CASE RecordStatus
  <2>1. meta'.scanned = Lower(tip, meta.scanned) /\ tip' = tip
    BY <1>4 DEF RecordStatus, RecordSyncStatus, NewLastScanned, task
  <2> QED
    BY <2>1 DEF Final, Lower
<1> QED
  BY <1>1, <1>2, <1>3, <1>4, PlanKinds

LEMMA BatchHeights ==
    ASSUME ControlInv
    PROVE  HeightsOf(CurrentBatch) \in SUBSET Nat
<1> USE ControlFacts
<1>1. CurrentBatch \in ScanBatch
  <2>1. CASE cursor > tip
    BY <2>1, NoBatchType DEF CurrentBatch, NextScanBatch
  <2>2. CASE cursor <= tip
    <3>1. NextScanBatch(cursor, tip, BatchSize) \in ScanBatch
      BY <2>2, NextBatch
    <3> QED
      BY <3>1 DEF CurrentBatch
  <2> QED
    BY <2>1, <2>2
<1> QED
  BY <1>1, WidthAssumption DEF ScanBatch, HeightsOf, Heights

\* Within a batch, where the tip sees blocks as final a download is the chain.
LEMMA BatchFinal ==
    ASSUME LedgerInv, NEW f \in fetched, f.batch.start = cursor, pc = "scan",
           NEW h \in HeightsOf(f.batch), h \in Nat, Final(h)
    PROVE  f.blocks[h] = BlockAt(h)
<1> USE ControlFacts DEF LedgerInv
<1>1. cursor <= tip /\ h >= cursor /\ f.batch.end <= tip
  BY RecordedBatch DEF HeightsOf
<1>2. cursor > Lower(meta.scanned, tip)
  BY DEF ControlInv, PlanOK
<1>3. meta.scanned < cursor /\ meta.scanned <= tip
  BY <1>1, <1>2 DEF Lower
<1>4. h + Finality <= tip
  BY <1>3 DEF Final
<1> QED
  BY <1>4 DEF ContentOK

\* A final height that is exact stays exact, whatever step comes next.
LEMMA ExactKept ==
    ASSUME LedgerInv, [Next]_vars, NEW h \in Nat, Final(h), Exact(h)
    PROVE  Exact(h)'
<1> USE DEF LedgerInv
<1>0. TypeOK /\ tip \in Nat /\ BlockAt(h)' = BlockAt(h)
  BY ControlFacts, FinalStays DEF ControlInv
<1>1. ASSUME \A t \in Txs : MinedAt(t, h)' <=> MinedAt(t, h)
      PROVE  Exact(h)'
  BY <1>0, <1>1 DEF Exact
<1>2. ASSUME rows' = rows
      PROVE  Exact(h)'
  BY <1>1, <1>2 DEF MinedAt
<1>3. CASE \E t \in Txs : Age(t)
  BY <1>0, <1>1, <1>3, AgeRows DEF MinedAt
<1>4. CASE RevokeAboveTip
  <2>1. h <= tip
    <3>1. pc # "idle"
      BY <1>4 DEF RevokeAboveTip
    <3>2. meta.scanned <= tip + Finality
      BY <3>1 DEF ControlInv, PlanOK
    <3> QED
      BY <3>2, ControlFacts DEF Final
  <2>2. rows' = RevokedAboveTip(tip) \/ rows' = rows
    BY <1>4 DEF RevokeAboveTip, Commit, ledger
  <2> QED
    BY <1>0, <1>1, <1>2, <2>1, <2>2, RevokedMined
<1>5. CASE ReconcileOverlap
  <2>1. OverlapBatch \in ScanBatch
    BY OverlapType
  <2> DEFINE S == HeightsOf(OverlapBatch)
             blocks == Read(OverlapBatch)
  <2>2. S \in SUBSET Nat /\ blocks \in [S -> SUBSET Txs]
    BY <1>0, <2>1, ReadType
  <2>3. \A g \in S : blocks[g] = BlockAt(g)
    BY DEF Read
  <2>4. \A g, k \in S : g # k => blocks[g] \cap blocks[k] = {}
    BY <2>2, <2>3 DEF ControlInv, NetOK
  <2>5. h \notin S => \A g \in S : blocks[g] \cap BlockAt(h) = {}
    BY <2>2, <2>3 DEF ControlInv, NetOK
  <2>6. Commit(ReconciledInRange(blocks, tip), tip) /\ UNCHANGED network
    BY <1>5 DEF ReconcileOverlap, Goto
  <2> HIDE DEF S, blocks
  <2> QED
    BY <1>0, <2>2, <2>3, <2>4, <2>5, <2>6, ReconciledExact
<1>6. CASE ScanBatchStep
  <2>1. PICK f \in fetched : /\ f.batch.start = cursor
                             /\ Commit(ReconciledInRange(f.blocks, tip), tip)
    BY <1>6 DEF ScanBatchStep
  <2>2. pc = "scan" /\ UNCHANGED network
    BY <1>6 DEF ScanBatchStep, Goto
  <2> DEFINE S == HeightsOf(f.batch)
  <2>3. S \in SUBSET Nat /\ f.blocks \in [S -> SUBSET Txs]
    BY <1>0, ReadType DEF ControlInv, FetchedOK
  <2>4. \A g, k \in S : g # k => f.blocks[g] \cap f.blocks[k] = {}
    BY DEF ContentOK
  <2>5. h \in S => f.blocks[h] = BlockAt(h)
    BY <2>1, <2>2, BatchFinal
  <2>6. h \notin S => \A g \in S : f.blocks[g] \cap BlockAt(h) = {}
    BY DEF ContentOK
  <2> HIDE DEF S
  <2> QED
    BY <1>0, <2>1, <2>2, <2>3, <2>4, <2>5, <2>6, ReconciledExact
<1>7. CASE AdvanceReceiptMaturity
  BY <1>0, <1>1, <1>7, MaturedMined DEF AdvanceReceiptMaturity, Commit
<1>8. CASE ReconcileCurrentMempool \/ ReconcilePeriodically
  <2> DEFINE known == {t \in Txs : rows[t].kind = "mempool" /\ rows[t].active}
             found == (snapshot \ known) \cap (mempool \cup OnChain)
  <2>1. \E flag : rows' = MempoolReconciled(snapshot, found, flag)
    BY <1>8 DEF ReconcileCurrentMempool, ReconcilePeriodically, ReconcileMempool, Commit
  <2>2. found \cap BlockAt(h) = {}
    BY DEF ContentOK
  <2> HIDE DEF found
  <2>3. \A t \in Txs : MinedAt(t, h)' <=> MinedAt(t, h) /\ t \notin found
    BY <1>0, <2>1, MempoolMined
  <2> QED
    BY <1>0, <2>2, <2>3 DEF Exact
<1>9. CASE QueueReorgAffected \/ QueueBatch \/ QueueMatured \/ QueueMempool \/ QueuePeriodic
           \/ IterationFails \/ CrashAndRestart
  BY <1>2, <1>9
  DEF QueueReorgAffected, QueueBatch, QueueMatured, QueueMempool, QueuePeriodic,
      QueueAffected, IterationFails, CrashAndRestart, GiveUp, ledger
<1>10. CASE SampleTip \/ MarkCatchingUp \/ RecordBatch \/ FetchMempoolTxids
            \/ RecordStatus \/ Wake
  BY <1>2, <1>10
  DEF SampleTip, MarkCatchingUp, RecordBatch, FetchMempoolTxids, RecordStatus, Wake, ledger
<1>11. ASSUME NEW k, DownloadBatch(k)
       PROVE  Exact(h)'
  BY <1>2, <1>11 DEF DownloadBatch, ledger
<1>12. CASE Network \/ UNCHANGED vars
  BY <1>2, <1>3, <1>12 DEF Network, Broadcast, Evict, Mine, Rewind, Moved, vars, ledger
<1> QED
  BY <1>3, <1>4, <1>5, <1>6, <1>7, <1>8, <1>9, <1>10, <1>11, <1>12 DEF Next, Sync

\* What one waiting download promises.
Content(f) ==
    \A h \in HeightsOf(f.batch) :
        /\ h + Finality <= tip => f.blocks[h] = BlockAt(h)
        /\ \A g \in Nat : g # h /\ Final(g) => f.blocks[h] \cap BlockAt(g) = {}
        /\ \A g \in HeightsOf(f.batch) : g # h => f.blocks[h] \cap f.blocks[g] = {}

LEMMA DownloadContent ==
    ASSUME ControlInv, [Next]_vars, tip' = tip, ~SampleTip,
           NEW f \in fetched, Content(f)
    PROVE  Content(f)'
<1>1. HeightsOf(f.batch) \in SUBSET Nat
  BY ReadType DEF ControlInv, FetchedOK
<1>2. ASSUME NEW h \in HeightsOf(f.batch), h + Finality <= tip
      PROVE  f.blocks[h] = BlockAt(h)'
  <2>1. h \in Nat /\ Final(h)
    BY <1>1, <1>2 DEF Final
  <2>2. BlockAt(h)' = BlockAt(h)
    BY <2>1, FinalStays
  <2> QED
    BY <1>2, <2>2 DEF Content
<1>3. ASSUME NEW h \in HeightsOf(f.batch), NEW g \in Nat, g # h, Final(g)'
      PROVE  f.blocks[h] \cap BlockAt(g)' = {}
  <2>1. Final(g)
    BY <1>3, FinalShrinks
  <2>2. BlockAt(g)' = BlockAt(g)
    BY <2>1, FinalStays
  <2> QED
    BY <1>3, <2>1, <2>2 DEF Content
<1>4. \A h, g \in HeightsOf(f.batch) : g # h => f.blocks[h] \cap f.blocks[g] = {}
  BY DEF Content
<1> QED
  BY <1>2, <1>3, <1>4 DEF Content

LEMMA ReadContent ==
    ASSUME ControlInv, NEW batch \in ScanBatch, NEW f, f.batch = batch,
           f.blocks = Read(batch)
    PROVE  Content(f)
<1>1. HeightsOf(batch) \in SUBSET Nat
  BY ReadType DEF ControlInv
<1>2. \A h \in HeightsOf(batch) : f.blocks[h] = BlockAt(h)
  BY DEF Read
<1>3. \A g, h \in Nat : g # h => BlockAt(g) \cap BlockAt(h) = {}
  BY DEF ControlInv, NetOK
<1> QED
  BY <1>1, <1>2, <1>3 DEF Content

\* A snapshot is taken, kept until it is reconciled, and dropped.
LEMMA SnapshotKinds ==
    ASSUME pc \notin {"reconcile_mempool", "periodic"} => snapshot = {}, [Next]_vars
    PROVE  /\ pc' \notin {"reconcile_mempool", "periodic"} => snapshot' = {}
           /\ \/ snapshot' = {}
              \/ snapshot' = snapshot /\ pc # "idle" /\ pc' = pc /\ tip' = tip
              \/ snapshot' = mempool /\ FetchMempoolTxids
           /\ pc' \in {"reconcile_mempool", "periodic"} =>
                (snapshot' = snapshot /\ pc' = pc) \/ FetchMempoolTxids
<1>1. CASE Network \/ UNCHANGED vars
  BY <1>1, NetworkPlan DEF vars, task
<1>2. CASE IterationFails \/ CrashAndRestart
  BY <1>2 DEF IterationFails, CrashAndRestart, GiveUp
<1>3. CASE ReconcileCurrentMempool \/ ReconcilePeriodically
  BY <1>3 DEF ReconcileCurrentMempool, ReconcilePeriodically, ReconcileMempool
<1>4. CASE FetchMempoolTxids
  BY <1>4 DEF FetchMempoolTxids, Goto
<1>5. CASE SampleTip
  BY <1>5 DEF SampleTip
<1>6. ASSUME NEW k, DownloadBatch(k)
      PROVE  snapshot' = {} /\ snapshot' = snapshot /\ pc' = pc
  BY <1>6 DEF DownloadBatch
<1>7. CASE RevokeAboveTip \/ ReconcileOverlap \/ QueueReorgAffected \/ MarkCatchingUp
           \/ ScanBatchStep \/ QueueBatch \/ RecordBatch \/ AdvanceReceiptMaturity
           \/ QueueMatured \/ QueueMempool \/ RecordStatus \/ QueuePeriodic \/ Wake
  BY <1>7
  DEF RevokeAboveTip, ReconcileOverlap, QueueReorgAffected, MarkCatchingUp,
      ScanBatchStep, QueueBatch, RecordBatch, AdvanceReceiptMaturity, QueueMatured,
      QueueMempool, RecordStatus, QueuePeriodic, Wake, Goto, task
<1> QED
  BY <1>1, <1>2, <1>3, <1>4, <1>5, <1>6, <1>7 DEF Next, Sync

LEMMA ContentStep ==
    ASSUME LedgerInv, [Next]_vars
    PROVE  ContentOK'
<1> USE ControlFacts DEF LedgerInv
<1>0. TypeOK /\ FetchedOK /\ \A f \in fetched : Content(f)
  BY DEF ControlInv, ContentOK, Content
<1>1. \A f \in fetched' : Content(f)'
  <2>1. CASE SampleTip
    BY <1>0, <2>1 DEF SampleTip, FetchedOK, Scanning
  <2>2. ASSUME fetched' \subseteq fetched, tip' = tip, ~SampleTip
        PROVE  \A f \in fetched' : Content(f)'
    BY <1>0, <2>2, DownloadContent
  <2>3. CASE Waits /\ ~SampleTip
    BY <2>2, <2>3 DEF Waits
  <2>4. CASE fetched' = {}
    BY <2>4
  <2>5. CASE RecordBatch /\ ~SampleTip
    BY <2>2, <2>5 DEF RecordBatch
  <2>6. CASE AdvanceReceiptMaturity /\ ~SampleTip
    BY <2>2, <2>6 DEF AdvanceReceiptMaturity, task
  <2>7. ASSUME NEW k \in 0 .. (Ahead - 1), DownloadBatch(k)
        PROVE  \A f \in fetched' : Content(f)'
    <3> DEFINE batch == NextScanBatch(cursor + k * BatchSize, tip, BatchSize)
    <3>1. PICK new : new = [batch |-> batch, blocks |-> Read(batch)]
      OBVIOUS
    <3>2. new.batch = batch /\ new.blocks = Read(batch)
      BY <3>1
    <3>3. fetched' = fetched \cup {new} /\ UNCHANGED << network, meta, tip >> /\ pc = "scan"
      BY <2>7, <3>1 DEF DownloadBatch, recorded
    <3>4. ~SampleTip
      BY <3>3 DEF SampleTip
    <3>5. batch \in ScanBatch
      BY <3>2, <3>3, FetchedStep DEF FetchedOK
    <3>6. Content(new)
      <4> HIDE DEF batch
      <4> QED
        BY <3>2, <3>5, ReadContent
    <3>7. Content(new)'
      <4>1. \A h : BlockAt(h)' = BlockAt(h)
        BY <3>3 DEF network, BlockAt
      <4>2. \A h : Final(h)' <=> Final(h)
        BY <3>3 DEF Final
      <4> QED
        BY <3>3, <3>6, <4>1, <4>2 DEF Content
    <3>8. ASSUME NEW f \in fetched
          PROVE  Content(f)'
      BY <1>0, <3>3, <3>4, DownloadContent
    <3> QED
      BY <3>3, <3>7, <3>8
  <2> QED
    BY <2>1, <2>3, <2>4, <2>5, <2>6, <2>7, FetchedKinds
<1>2. /\ pc' \notin {"reconcile_mempool", "periodic"} => snapshot' = {}
      /\ snapshot' = {} \/ (snapshot' = snapshot /\ pc # "idle")
           \/ (snapshot' = mempool /\ FetchMempoolTxids)
  BY SnapshotKinds DEF ContentOK
<1>3. ASSUME NEW g \in Nat, Final(g)'
      PROVE  snapshot' \cap BlockAt(g)' = {}
  <2>1. CASE snapshot' = {}
    BY <2>1
  <2>2. CASE snapshot' = snapshot /\ pc # "idle"
    <3>1. ~SampleTip
      BY <2>2 DEF SampleTip
    <3>2. Final(g) /\ BlockAt(g)' = BlockAt(g)
      BY <1>3, <3>1, FinalShrinks, FinalStays
    <3> QED
      BY <2>2, <3>2 DEF ContentOK
  <2>3. CASE snapshot' = mempool /\ FetchMempoolTxids
    <3>1. BlockAt(g)' = BlockAt(g)
      BY <2>3 DEF FetchMempoolTxids, Goto, network, BlockAt
    <3> QED
      BY <2>3, <3>1 DEF ControlInv, NetOK
  <2> QED
    BY <1>2, <2>1, <2>2, <2>3
<1> QED
  BY <1>1, <1>2, <1>3 DEF ContentOK, Content

\* How the phases of an iteration are entered.
LEMMA Phases ==
    ASSUME [Next]_vars
    PROVE  /\ pc' \in ReadPhase =>
                \/ pc \in ReadPhase /\ UNCHANGED << tip, cursor >>
                \/ ReconcileOverlap \/ RecordBatch
           /\ pc' \in BatchPhase =>
                \/ pc \in BatchPhase /\ UNCHANGED << tip, cursor >>
                \/ ScanBatchStep
<1> USE DEF ReadPhase, BatchPhase, Scanning
<1>1. CASE Network \/ UNCHANGED vars
  BY <1>1, NetworkPlan DEF vars, task
<1>2. CASE IterationFails \/ CrashAndRestart
  BY <1>2 DEF IterationFails, CrashAndRestart, GiveUp
<1>3. CASE RevokeAboveTip \/ QueueReorgAffected \/ MarkCatchingUp \/ QueueBatch
           \/ AdvanceReceiptMaturity \/ QueueMatured
  BY <1>3 DEF RevokeAboveTip, QueueReorgAffected, MarkCatchingUp, QueueBatch,
              AdvanceReceiptMaturity, QueueMatured, Goto, task
<1>4. CASE FetchMempoolTxids \/ QueueMempool \/ QueuePeriodic \/ Wake \/ RecordStatus
           \/ SampleTip
  BY <1>4 DEF FetchMempoolTxids, QueueMempool, QueuePeriodic, Wake, RecordStatus,
              SampleTip, Goto, task
<1>5. CASE ReconcileCurrentMempool \/ ReconcilePeriodically
  BY <1>5 DEF ReconcileCurrentMempool, ReconcilePeriodically
<1>6. ASSUME NEW k, DownloadBatch(k)
      PROVE  pc' = pc /\ UNCHANGED << tip, cursor >>
  BY <1>6 DEF DownloadBatch
<1>7. CASE ScanBatchStep
  BY <1>7 DEF ScanBatchStep, Goto, task
<1>8. CASE RecordBatch \/ ReconcileOverlap
  BY <1>8 DEF RecordBatch, ReconcileOverlap, Goto
<1> QED
  BY <1>1, <1>2, <1>3, <1>4, <1>5, <1>6, <1>7, <1>8 DEF Next, Sync

\* The overlap is exact where the tip sees blocks as final: what is not read
\* again was final when it was recorded.
LEMMA OverlapExact ==
    ASSUME LedgerInv, [Next]_vars, ReconcileOverlap,
           NEW h \in Nat, h >= Birthday, h < cursor, h + Finality <= tip
    PROVE  Exact(h)'
<1> USE ControlFacts DEF LedgerInv
<1>0. TypeOK /\ pc = "overlap" /\ Final(h)
  BY DEF ControlInv, ReconcileOverlap, Final
<1>1. CASE h + Finality <= meta.scanned
  <2>1. Exact(h)
    BY <1>1 DEF ExactOK
  <2> QED
    BY <1>0, <2>1, ExactKept
<1>2. CASE ~(h + Finality <= meta.scanned)
  <2>1. cursor = Birthday \/ cursor = Lower(meta.scanned, tip) + 1
    BY <1>0 DEF ControlInv, PlanOK
  <2> DEFINE end == Lower(meta.scanned, tip)
  <2>2. end \in Nat /\ end <= meta.scanned
    BY DEF Lower
  <2>3. h \in Birthday .. end /\ h + Finality > end
    BY <1>2, <2>1, <2>2
  <2>4. h \in HeightsOf(OverlapBatch)
    BY <2>3, OverlapRange DEF OverlapBatch
  <2> DEFINE S == HeightsOf(OverlapBatch)
             blocks == Read(OverlapBatch)
  <2>5. S \in SUBSET Nat /\ blocks \in [S -> SUBSET Txs]
    BY <1>0, OverlapType, ReadType
  <2>6. \A g \in S : blocks[g] = BlockAt(g)
    BY DEF Read
  <2>7. \A g, k \in S : g # k => blocks[g] \cap blocks[k] = {}
    BY <2>5, <2>6 DEF ControlInv, NetOK
  <2>8. Commit(ReconciledInRange(blocks, tip), tip) /\ UNCHANGED network
    BY DEF ReconcileOverlap, Goto
  <2> HIDE DEF S, blocks
  <2>9. h \in S /\ blocks[h] = BlockAt(h)
    BY <2>4, <2>6 DEF S
  <2> QED
    BY <1>0, <2>5, <2>7, <2>8, <2>9, ReconciledExact
<1> QED
  BY <1>1, <1>2

\* So is a scanned batch, although it may have been read long before.
LEMMA ScannedExact ==
    ASSUME LedgerInv, ScanBatchStep, NEW h \in HeightsOf(CurrentBatch), h + Finality <= tip
    PROVE  Exact(h)'
<1> USE ControlFacts DEF LedgerInv
<1>1. PICK f \in fetched : /\ f.batch.start = cursor
                           /\ Commit(ReconciledInRange(f.blocks, tip), tip)
  BY DEF ScanBatchStep
<1>2. f.batch = CurrentBatch
  BY <1>1, RecordedBatch
<1> DEFINE S == HeightsOf(f.batch)
<1>3. TypeOK /\ S \in SUBSET Nat /\ f.blocks \in [S -> SUBSET Txs]
  BY ReadType DEF ControlInv, FetchedOK
<1>4. h \in S /\ h \in Nat /\ f.blocks[h] = BlockAt(h)
  BY <1>2, <1>3 DEF ContentOK
<1>5. \A g, k \in S : g # k => f.blocks[g] \cap f.blocks[k] = {}
  BY DEF ContentOK
<1>6. UNCHANGED network
  BY DEF ScanBatchStep, Goto
<1> HIDE DEF S
<1> QED
  BY <1>1, <1>3, <1>4, <1>5, <1>6, ReconciledExact

\* The batch that is recorded closes the gap up to the new cursor.
LEMMA RecordedExact ==
    ASSUME LedgerInv, [Next]_vars, RecordBatch, NEW h \in Nat, h >= Birthday,
           h < cursor', h + Finality <= tip
    PROVE  Exact(h)'
<1> USE ControlFacts DEF LedgerInv
<1>1. PICK f \in fetched : f.batch.start = cursor /\ cursor' = f.batch.end + 1
  BY DEF RecordBatch
<1>2. f.batch = CurrentBatch /\ f.batch.end \in Nat
  BY <1>1, RecordedBatch
<1>3. pc = "record_batch"
  BY DEF RecordBatch
<1>4. h >= cursor => h \in HeightsOf(CurrentBatch)
  BY <1>1, <1>2 DEF HeightsOf
<1>5. Exact(h)
  BY <1>3, <1>4 DEF ExactOK, Scanning
<1>6. Final(h)
  BY DEF Final
<1> QED
  BY <1>5, <1>6, ExactKept

LEMMA ExactStep ==
    ASSUME LedgerInv, [Next]_vars
    PROVE  ExactOK'
<1> USE ControlFacts DEF LedgerInv
<1>1. ASSUME NEW h \in Nat, h >= Birthday, h + Finality <= meta'.scanned
      PROVE  Exact(h)'
  <2>1. CASE RecordBatch
    <3>1. PICK f \in fetched : /\ f.batch.start = cursor /\ cursor' = f.batch.end + 1
                               /\ meta'.scanned = f.batch.end
      BY <2>1 DEF RecordBatch, RecordSyncStatus
    <3>2. f.batch.end \in Nat /\ f.batch.end <= tip
      BY <3>1, RecordedBatch
    <3>3. h < cursor' /\ h + Finality <= tip
      BY <1>1, <3>1, <3>2
    <3> QED
      BY <1>1, <2>1, <3>3, RecordedExact
  <2>2. ASSUME meta'.scanned \in Nat, meta'.scanned <= meta.scanned
        PROVE  Exact(h)'
    <3>1. h + Finality <= meta.scanned
      BY <1>1, <2>2
    <3>2. Exact(h) /\ Final(h)
      BY <1>1, <3>1 DEF ExactOK, Final
    <3> QED
      BY <3>2, ExactKept
  <2>3. CASE Planned \/ SampleTip \/ MarkCatchingUp
    <3>1. meta'.scanned = meta.scanned
      BY <2>3 DEF Planned, SampleTip, MarkCatchingUp, RecordSyncStatus, recorded
    <3> QED
      BY <2>2, <3>1
  <2>4. CASE RecordStatus
    <3>1. meta'.scanned = Lower(tip, meta.scanned)
      BY <2>4 DEF RecordStatus, RecordSyncStatus, NewLastScanned
    <3> QED
      BY <2>2, <3>1 DEF Lower
  <2> QED
    BY <2>1, <2>3, <2>4, PlanKinds
<1>2. ASSUME pc' \in ReadPhase, NEW h \in Nat, h >= Birthday, h < cursor', h + Finality <= tip'
      PROVE  Exact(h)'
  <2>1. CASE pc \in ReadPhase /\ UNCHANGED << tip, cursor >>
    <3>1. Exact(h) /\ Final(h)
      BY <1>2, <2>1 DEF ExactOK, Final, ReadPhase
    <3> QED
      BY <3>1, ExactKept
  <2>2. CASE ReconcileOverlap
    BY <1>2, <2>2, OverlapExact DEF ReconcileOverlap, task
  <2>3. CASE RecordBatch
    BY <1>2, <2>3, RecordedExact DEF RecordBatch
  <2> QED
    BY <1>2, <2>1, <2>2, <2>3, Phases
<1>3. ASSUME pc' \in BatchPhase, NEW h \in HeightsOf(CurrentBatch)', h + Finality <= tip'
      PROVE  Exact(h)'
  <2>1. CASE pc \in BatchPhase /\ UNCHANGED << tip, cursor >>
    <3>1. h \in HeightsOf(CurrentBatch)
      BY <1>3, <2>1 DEF CurrentBatch
    <3>2. Exact(h) /\ Final(h)
      BY <1>3, <2>1, <3>1 DEF ExactOK, Final, BatchPhase
    <3>3. h \in Nat
      BY <3>1, BatchHeights
    <3> QED
      BY <3>2, <3>3, ExactKept
  <2>2. CASE ScanBatchStep
    <3>1. UNCHANGED << tip, cursor >>
      BY <2>2 DEF ScanBatchStep, task
    <3>2. h \in HeightsOf(CurrentBatch) /\ h + Finality <= tip
      BY <1>3, <3>1 DEF CurrentBatch
    <3> QED
      BY <2>2, <3>2, ScannedExact
  <2> QED
    BY <1>3, <2>1, <2>2, Phases
<1> QED
  BY <1>1, <1>2, <1>3 DEF ExactOK, ReadPhase, BatchPhase

\* Every height the next iteration does not read again is exact; what an
\* iteration has read is exact where its tip sees blocks as final; and stale
\* downloads and snapshots differ from the chain only above that.
THEOREM LedgerInvariance == Spec => []LedgerInv
<1>1. Init => LedgerInv
  <2> SUFFICES ASSUME Init
               PROVE  LedgerInv
      OBVIOUS
  <2>1. ControlInv /\ fetched = {} /\ snapshot = {} /\ pc = "idle" /\ meta.scanned = 0
    BY ControlInit DEF Init
  <2>2. \A h \in Nat : ~(h >= Birthday /\ h + Finality <= meta.scanned)
    BY <2>1, ControlFacts
  <2> QED
    BY <2>1, <2>2 DEF LedgerInv, ContentOK, ExactOK, Scanning
<1>2. LedgerInv /\ ControlInv' /\ [Next]_vars => LedgerInv'
  BY ContentStep, ExactStep DEF LedgerInv
<1> QED
  BY <1>1, <1>2, ControlInvariance, PTL DEF Spec

\* WindowExact: below the window that the next iteration reads again, a mined
\* receipt is recorded at its height and nothing else is, however
\* reorganisations, partial iterations, stale downloads, failures and restarts
\* were interleaved (sync_with_lightwalletd_with over the receipts ledger).
THEOREM WindowTheorem == Spec => []WindowExact
<1>1. LedgerInv => WindowExact
  <2> SUFFICES ASSUME LedgerInv, NEW t \in Txs,
                      NEW h \in Birthday .. (meta.scanned - Finality)
               PROVE  t \in BlockAt(h) <=> MinedAt(t, h)
      BY DEF WindowExact
  <2>1. h \in Nat /\ h >= Birthday /\ h + Finality <= meta.scanned
    BY ControlFacts DEF LedgerInv
  <2> QED
    BY <2>1 DEF LedgerInv, ExactOK, Exact
<1> QED
  BY <1>1, LedgerInvariance, PTL

-----------------------------------------------------------------------------
(* What is dirty is queued.                                                *)

LEMMA CommitMarks ==
    ASSUME NEW new, NEW top, Commit(new, top), dirty \subseteq affected \cup dropped
    PROVE  dirty' \subseteq (affected \cup dropped)'
  BY DEF Commit

LEMMA QueueStep ==
    ASSUME QueueOK, [Next]_vars
    PROVE  QueueOK'
<1> USE DEF QueueOK
<1>1. CASE RevokeAboveTip
  BY <1>1, CommitMarks DEF RevokeAboveTip, Goto, ledger
<1>2. CASE ReconcileOverlap \/ ScanBatchStep \/ AdvanceReceiptMaturity
  BY <1>2, CommitMarks DEF ReconcileOverlap, ScanBatchStep, AdvanceReceiptMaturity, Goto
<1>3. CASE ReconcileCurrentMempool \/ ReconcilePeriodically
  BY <1>3, CommitMarks
  DEF ReconcileCurrentMempool, ReconcilePeriodically, ReconcileMempool
<1>4. CASE QueueReorgAffected \/ QueueBatch \/ QueueMatured \/ QueueMempool \/ QueuePeriodic
  BY <1>4 DEF QueueReorgAffected, QueueBatch, QueueMatured, QueueMempool, QueuePeriodic,
              QueueAffected
<1>5. CASE IterationFails
  BY <1>5 DEF IterationFails, GiveUp, ledger
<1>6. CASE CrashAndRestart
  BY <1>6 DEF CrashAndRestart, GiveUp
<1>7. CASE SampleTip \/ MarkCatchingUp \/ RecordBatch \/ FetchMempoolTxids
           \/ RecordStatus \/ Wake
  BY <1>7
  DEF SampleTip, MarkCatchingUp, RecordBatch, FetchMempoolTxids, RecordStatus, Wake,
      Goto, ledger
<1>8. ASSUME NEW k, DownloadBatch(k)
      PROVE  QueueOK'
  BY <1>8 DEF DownloadBatch, ledger
<1>9. CASE Network \/ UNCHANGED vars
  BY <1>9 DEF Network, Broadcast, Evict, Age, Mine, Rewind, Moved, vars, ledger
<1> QED
  BY <1>1, <1>2, <1>3, <1>4, <1>5, <1>6, <1>7, <1>8, <1>9 DEF Next, Sync

\* NothingForgotten: between iterations every changed total has been queued
\* (queue_webhook_deliveries_for_dirty_addresses after each ledger
\* transaction), but for the addresses whose ids a failed iteration dropped:
\* an error of the overlap read, of a queue call or of a later step before it.
\* No fault is excluded.
THEOREM QueuedTheorem == Spec => []NothingForgotten
<1>1. Init => QueueOK
  BY DEF Init, QueueOK
<1>2. QueueOK /\ [Next]_vars => QueueOK'
  BY QueueStep
<1>3. QueueOK => NothingForgotten
  BY DEF QueueOK, NothingForgotten
<1> QED
  BY <1>1, <1>2, <1>3, PTL DEF Spec

-----------------------------------------------------------------------------
(* Reorganisations lower totals.                                           *)

\* A range moves receipts into itself and leaves none of its own behind, so
\* what lay at or below a bound of the range still does.
LEMMA ReconciledUpTo ==
    ASSUME TypeOK, NEW S \in SUBSET Nat, NEW blocks \in [S -> SUBSET Txs], NEW top,
           rows' = ReconciledInRange(blocks, top), unrecorded' = unrecorded,
           NEW bound \in Nat, \A h \in S : h <= bound, MinedUpTo(bound)
    PROVE  MinedUpTo(bound)'
<1> SUFFICES ASSUME NEW t \in Txs, rows'[t].kind = "mined", rows'[t].active
             PROVE  rows'[t].height <= bound \/ t \in unrecorded
    BY DEF MinedUpTo
<1> DEFINE mined == \E g \in S : t \in blocks[g]
           pick == CHOOSE g \in S : t \in blocks[g]
           kept == rows[t].active /\ ~(rows[t].kind = "mined" /\ rows[t].height \in S)
<1>1. rows'[t] = IF mined THEN MinedRow(pick, top) ELSE [rows[t] EXCEPT !.active = kept]
  BY DEF ReconciledInRange, TypeOK, Row
<1>2. CASE mined
  <2>1. pick \in S
    BY <1>2
  <2> HIDE DEF pick
  <2>2. rows'[t].height = pick
    BY <1>1, <1>2 DEF MinedRow
  <2> QED
    BY <2>1, <2>2
<1>3. CASE ~mined
  <2>1. rows[t] \in Row
    BY DEF TypeOK
  <2>2. /\ rows'[t].kind = rows[t].kind /\ rows'[t].height = rows[t].height
        /\ rows'[t].active = kept
    BY <1>1, <1>3, <2>1 DEF Row
  <2> QED
    BY <2>2 DEF MinedUpTo
<1> QED
  BY <1>2, <1>3

\* Nothing else moves a mined receipt upwards or makes one.
LEMMA OtherRowsUpTo ==
    ASSUME TypeOK, NEW bound,
           \/ \E top : rows' = RevokedAboveTip(top)
           \/ \E top : rows' = Matured(top)
           \/ \E seen, found, flag : rows' = MempoolReconciled(seen, found, flag)
           \/ \E t \in Txs : Age(t)
           \/ rows' = rows,
           unrecorded' = unrecorded, MinedUpTo(bound)
    PROVE  MinedUpTo(bound)'
<1> SUFFICES ASSUME NEW t \in Txs
             PROVE  (rows'[t].kind = "mined" /\ rows'[t].active) =>
                        /\ rows[t].kind = "mined" /\ rows[t].active
                        /\ rows'[t].height = rows[t].height
    BY DEF MinedUpTo
<1>0. rows[t] \in Row
  BY DEF TypeOK
<1>1. ASSUME NEW top, rows' = RevokedAboveTip(top)
      PROVE  (rows'[t].kind = "mined" /\ rows'[t].active) =>
                 /\ rows[t].kind = "mined" /\ rows[t].active
                 /\ rows'[t].height = rows[t].height
  <2> DEFINE kept == rows[t].active /\ ~(rows[t].kind = "mined" /\ rows[t].height > top)
  <2>1. rows'[t] = [rows[t] EXCEPT !.active = kept]
    BY <1>0, <1>1 DEF RevokedAboveTip, Row
  <2>2. /\ rows'[t].kind = rows[t].kind /\ rows'[t].height = rows[t].height
        /\ rows'[t].active = kept
    BY <1>0, <2>1 DEF Row
  <2> QED
    BY <2>2
<1>2. ASSUME NEW top, rows' = Matured(top)
      PROVE  (rows'[t].kind = "mined" /\ rows'[t].active) =>
                 /\ rows[t].kind = "mined" /\ rows[t].active
                 /\ rows'[t].height = rows[t].height
  BY <1>0, <1>2 DEF Matured, MinedRow
<1>3. ASSUME NEW seen, NEW found, NEW flag, rows' = MempoolReconciled(seen, found, flag)
      PROVE  (rows'[t].kind = "mined" /\ rows'[t].active) =>
                 /\ rows[t].kind = "mined" /\ rows[t].active
                 /\ rows'[t].height = rows[t].height
  <2> DEFINE counts == ReportConf = 0 /\ (rows[t].kind = "mempool" => rows[t].fresh)
             new == [kind |-> "mempool", height |-> 0, active |-> TRUE,
                     eligible |-> counts, depth |-> 0,
                     fresh |-> rows[t].kind = "mempool" => rows[t].fresh]
  <2>1. rows'[t] =
          IF t \in found THEN new
          ELSE IF rows[t].kind # "mempool" \/ ~rows[t].active THEN rows[t]
          ELSE IF flag /\ t \notin seen THEN [rows[t] EXCEPT !.active = FALSE]
          ELSE [rows[t] EXCEPT !.eligible = counts]
    BY <1>3 DEF MempoolReconciled
  <2>2. new.kind = "mempool"
    OBVIOUS
  <2> HIDE DEF new, counts
  <2>3. [rows[t] EXCEPT !.active = FALSE].kind = rows[t].kind
        /\ [rows[t] EXCEPT !.eligible = counts].kind = rows[t].kind
    BY <1>0 DEF Row
  <2> QED
    BY <2>1, <2>2, <2>3
<1>4. CASE \E u \in Txs : Age(u)
  BY <1>4, AgeRows
<1>5. CASE rows' = rows
  BY <1>5
<1> QED
  BY <1>1, <1>2, <1>3, <1>4, <1>5

LEMMA UpToHigher ==
    ASSUME TypeOK, NEW low \in Nat, NEW high \in Nat, low <= high, MinedUpTo(low)
    PROVE  MinedUpTo(high)
<1> SUFFICES ASSUME NEW t \in Txs, rows[t].kind = "mined", rows[t].active
             PROVE  rows[t].height <= high \/ t \in unrecorded
    BY DEF MinedUpTo
<1>1. rows[t].height \in Nat
  BY RowFields DEF TypeOK
<1>2. rows[t].height <= low \/ t \in unrecorded
  BY DEF MinedUpTo
<1> QED
  BY <1>1, <1>2

OtherRows ==
    \/ \E top : rows' = RevokedAboveTip(top)
    \/ \E top : rows' = Matured(top)
    \/ \E seen, found, flag : rows' = MempoolReconciled(seen, found, flag)
    \/ \E t \in Txs : Age(t)
    \/ rows' = rows

LEMMA HeightsKept ==
    ASSUME TypeOK, HeightsOK, OtherRows,
           meta'.scanned = meta.scanned, UNCHANGED << tip, cursor, unrecorded >>,
           pc \in BatchPhase <=> pc' \in BatchPhase,
           pc \in {"idle", "revoke"} => pc' \in {"idle", "revoke"}
    PROVE  HeightsOK'
<1>1. ASSUME NEW bound, MinedUpTo(bound)
      PROVE  MinedUpTo(bound)'
  BY <1>1, OtherRowsUpTo DEF OtherRows
<1>2. pc' \notin BatchPhase => MinedUpTo(meta.scanned)'
  <2> SUFFICES ASSUME pc' \notin BatchPhase
               PROVE  MinedUpTo(meta.scanned)'
      OBVIOUS
  <2>1. PICK bound : bound = meta.scanned
    OBVIOUS
  <2>2. MinedUpTo(bound)
    BY <2>1 DEF HeightsOK, BatchPhase
  <2> QED
    BY <1>1, <2>1, <2>2 DEF MinedUpTo
<1>3. pc' \in BatchPhase => MinedUpTo(CurrentBatch.end)'
  <2> SUFFICES ASSUME pc' \in BatchPhase
               PROVE  MinedUpTo(CurrentBatch.end)'
      OBVIOUS
  <2>1. PICK bound : bound = CurrentBatch.end
    OBVIOUS
  <2>2. bound = CurrentBatch.end'
    BY <2>1 DEF CurrentBatch
  <2>3. MinedUpTo(bound)
    BY <2>1 DEF HeightsOK, BatchPhase
  <2> QED
    BY <1>1, <2>2, <2>3 DEF MinedUpTo
<1>4. pc' \notin {"idle", "revoke"} => MinedUpTo(tip)'
  <2> SUFFICES ASSUME pc' \notin {"idle", "revoke"}
               PROVE  MinedUpTo(tip)'
      OBVIOUS
  <2>1. PICK bound : bound = tip
    OBVIOUS
  <2>2. MinedUpTo(bound)
    BY <2>1 DEF HeightsOK
  <2> QED
    BY <1>1, <2>1, <2>2 DEF MinedUpTo
<1> QED
  BY <1>2, <1>3, <1>4 DEF HeightsOK, BatchPhase, MinedUpTo

LEMMA HeightsStep ==
    ASSUME ControlInv, HeightsOK, [Next]_vars
    PROVE  HeightsOK'
<1> USE ControlFacts
<1>0. TypeOK
  BY DEF ControlInv
<1> USE DEF BatchPhase
<1>1. CASE RevokeAboveTip
  <2>1. pc = "revoke" /\ pc' = "overlap" /\ UNCHANGED << meta, tip, cursor >>
    BY <1>1 DEF RevokeAboveTip, Goto, task
  <2>2. MinedUpTo(meta.scanned)
    BY <2>1 DEF HeightsOK
  <2>3. CASE meta.scanned > tip /\ rows' = RevokedAboveTip(tip)
    <3>1. ASSUME NEW t \in Txs, rows'[t].kind = "mined", rows'[t].active
          PROVE  rows'[t].height <= tip /\ rows'[t].height <= meta.scanned
      <4> DEFINE kept == rows[t].active /\ ~(rows[t].kind = "mined" /\ rows[t].height > tip)
      <4>1. rows'[t] = [rows[t] EXCEPT !.active = kept] /\ rows[t] \in Row
        BY <1>0, <2>3 DEF RevokedAboveTip, TypeOK, Row
      <4>2. /\ rows'[t].kind = rows[t].kind /\ rows'[t].height = rows[t].height
            /\ rows'[t].active = kept /\ rows[t].height \in Nat
        BY <4>1 DEF Row
      <4>3. ~(rows[t].height > tip)
        BY <3>1, <4>2
      <4> QED
        BY <2>3, <4>2, <4>3
    <3> QED
      BY <2>1, <3>1 DEF HeightsOK, MinedUpTo
  <2>4. CASE meta.scanned <= tip /\ rows' = rows /\ unrecorded' = unrecorded
    <3>1. MinedUpTo(tip)
      BY <1>0, <2>2, <2>4, UpToHigher
    <3> QED
      BY <2>1, <2>2, <2>4, <3>1 DEF HeightsOK, MinedUpTo
  <2> QED
    BY <1>1, <2>3, <2>4 DEF RevokeAboveTip, Commit, ledger
<1>2. CASE ReconcileOverlap
  <2> DEFINE S == HeightsOf(OverlapBatch)
             blocks == Read(OverlapBatch)
  <2>1. /\ pc = "overlap" /\ pc' = "queue_reorg"
        /\ UNCHANGED << meta, tip, cursor, unrecorded >>
        /\ rows' = ReconciledInRange(blocks, tip)
    BY <1>2 DEF ReconcileOverlap, Goto, recorded, task, Commit
  <2>2. S \in SUBSET Nat /\ blocks \in [S -> SUBSET Txs]
    BY <1>0, OverlapType, ReadType
  <2>3. \A h \in S : h <= meta.scanned /\ h <= tip
    <3>1. S \subseteq Birthday .. Lower(meta.scanned, tip)
      BY OverlapRange DEF OverlapBatch
    <3> HIDE DEF S
    <3> QED
      BY <3>1 DEF Lower
  <2>4. MinedUpTo(meta.scanned) /\ MinedUpTo(tip)
    BY <2>1 DEF HeightsOK
  <2> HIDE DEF S, blocks
  <2>5. ASSUME NEW bound \in Nat, \A h \in S : h <= bound, MinedUpTo(bound)
        PROVE  MinedUpTo(bound)'
    BY <1>0, <2>1, <2>2, <2>5, ReconciledUpTo
  <2>6. MinedUpTo(meta.scanned)'
    <3>1. PICK bound \in Nat : bound = meta.scanned
      OBVIOUS
    <3> QED
      BY <2>1, <2>3, <2>4, <2>5, <3>1 DEF MinedUpTo
  <2>7. MinedUpTo(tip)'
    <3>1. PICK bound \in Nat : bound = tip
      OBVIOUS
    <3> QED
      BY <2>1, <2>3, <2>4, <2>5, <3>1 DEF MinedUpTo
  <2> QED
    BY <2>1, <2>6, <2>7 DEF HeightsOK
<1>3. CASE ScanBatchStep
  <2>1. PICK f \in fetched : f.batch.start = cursor /\ rows' = ReconciledInRange(f.blocks, tip)
    BY <1>3 DEF ScanBatchStep, Commit
  <2>2. /\ pc = "scan" /\ pc' = "queue_batch"
        /\ UNCHANGED << meta, tip, cursor, unrecorded >>
    BY <1>3 DEF ScanBatchStep, Goto, recorded, task
  <2>3. f.batch = CurrentBatch /\ cursor <= tip /\ f.batch.end \in cursor .. tip
    BY <2>1, RecordedBatch
  <2> DEFINE S == HeightsOf(f.batch)
  <2>4. S \in SUBSET Nat /\ f.blocks \in [S -> SUBSET Txs]
    BY <1>0, ReadType DEF ControlInv, FetchedOK
  <2>5. PICK end \in Nat : end = f.batch.end
    BY <2>3
  <2>6. \A h \in S : h <= end
    BY <2>3, <2>5 DEF HeightsOf
  <2>7. meta.scanned <= end /\ end <= tip
    <3>1. cursor > Lower(meta.scanned, tip)
      BY <2>2 DEF ControlInv, PlanOK
    <3> QED
      BY <2>3, <2>5, <3>1 DEF Lower
  <2>8. MinedUpTo(end) /\ MinedUpTo(tip)
    BY <1>0, <2>2, <2>7, UpToHigher DEF HeightsOK
  <2> HIDE DEF S
  <2>9. MinedUpTo(end)'
    BY <1>0, <2>1, <2>2, <2>4, <2>6, <2>8, ReconciledUpTo
  <2>10. MinedUpTo(tip)'
    <3>1. PICK bound \in Nat : bound = tip
      OBVIOUS
    <3>2. MinedUpTo(bound)'
      BY <1>0, <2>1, <2>2, <2>4, <2>6, <2>7, <2>8, <3>1, ReconciledUpTo
    <3> QED
      BY <2>2, <3>1, <3>2 DEF MinedUpTo
  <2>11. CurrentBatch.end' = end
    BY <2>2, <2>3, <2>5 DEF CurrentBatch
  <2> QED
    BY <2>2, <2>9, <2>10, <2>11 DEF HeightsOK, MinedUpTo
<1>4. CASE RecordBatch
  <2>1. PICK f \in fetched :
          /\ f.batch.start = cursor /\ meta'.scanned = f.batch.end
          /\ unrecorded' = {t \in unrecorded : rows[t].height > f.batch.end}
    BY <1>4 DEF RecordBatch, RecordSyncStatus
  <2>2. pc = "record_batch" /\ pc' = "scan" /\ tip' = tip /\ rows' = rows
    BY <1>4 DEF RecordBatch, Goto, ledger
  <2>3. f.batch = CurrentBatch /\ f.batch.end \in cursor .. tip
    BY <2>1, RecordedBatch
  <2>4. PICK end \in Nat : end = f.batch.end /\ end <= tip
    BY <2>3
  <2>5. ASSUME NEW t \in Txs, rows[t].kind = "mined", rows[t].active
        PROVE  rows[t].height <= end \/ t \in unrecorded'
    <3>1. rows[t].height \in Nat
      BY <1>0, RowFields DEF TypeOK
    <3>2. rows[t].height <= end \/ t \in unrecorded
      BY <2>2, <2>3, <2>4, <2>5 DEF HeightsOK, MinedUpTo
    <3> QED
      BY <2>1, <2>4, <3>1, <3>2
  <2>6. ASSUME NEW t \in Txs, rows[t].kind = "mined", rows[t].active
        PROVE  rows[t].height <= tip \/ t \in unrecorded'
    <3>1. rows[t].height \in Nat
      BY <1>0, RowFields DEF TypeOK
    <3> QED
      BY <2>4, <2>5, <2>6, <3>1
  <2> QED
    BY <2>1, <2>2, <2>4, <2>5, <2>6 DEF HeightsOK, MinedUpTo
<1>5. CASE RecordStatus
  <2>1. /\ meta'.scanned = Lower(tip, meta.scanned) /\ tip' = tip /\ rows' = rows
        /\ pc = "record" /\ pc' = "waiting" /\ unrecorded' = unrecorded
    BY <1>5 DEF RecordStatus, RecordSyncStatus, NewLastScanned, Goto, task, ledger
  <2>2. meta'.scanned = tip \/ meta'.scanned = meta.scanned
    BY <2>1 DEF Lower
  <2> QED
    BY <2>1, <2>2 DEF HeightsOK, MinedUpTo
<1>6. CASE SampleTip
  <2>1. /\ pc = "idle" /\ pc' = "revoke" /\ meta' = meta /\ rows' = rows
        /\ unrecorded' = unrecorded
    BY <1>6 DEF SampleTip, ledger, recorded
  <2> QED
    BY <2>1 DEF HeightsOK, MinedUpTo
<1>7. CASE IterationFails \/ CrashAndRestart
  <2> DEFINE written == {t \in Txs : /\ pc \in {"queue_batch", "record_batch"}
                                     /\ rows[t].kind = "mined" /\ rows[t].active
                                     /\ meta.scanned < rows[t].height
                                     /\ rows[t].height <= CurrentBatch.end}
  <2>1. /\ pc' = "idle" /\ meta' = meta /\ rows' = rows
        /\ unrecorded' = unrecorded \cup written
    BY <1>7 DEF IterationFails, CrashAndRestart, GiveUp
  <2>2. ASSUME NEW t \in Txs, rows[t].kind = "mined", rows[t].active
        PROVE  rows[t].height <= meta.scanned \/ t \in unrecorded \/ t \in written
    <3>1. rows[t].height \in Nat
      BY <1>0, RowFields DEF TypeOK
    <3>2. CASE pc \notin BatchPhase
      BY <2>2, <3>2 DEF HeightsOK, MinedUpTo
    <3>3. CASE pc \in BatchPhase
      BY <2>2, <3>1, <3>3 DEF HeightsOK, MinedUpTo
    <3> QED
      BY <3>2, <3>3
  <2> QED
    BY <2>1, <2>2 DEF HeightsOK, MinedUpTo
<1>8. CASE MarkCatchingUp
  BY <1>0, <1>8, HeightsKept
  DEF MarkCatchingUp, RecordSyncStatus, Goto, task, ledger, OtherRows
<1>9. CASE QueueReorgAffected \/ QueueBatch \/ QueueMatured \/ QueueMempool \/ QueuePeriodic
  BY <1>0, <1>9, HeightsKept
  DEF QueueReorgAffected, QueueBatch, QueueMatured, QueueMempool, QueuePeriodic,
      QueueAffected, Goto, recorded, task, OtherRows
<1>10. CASE AdvanceReceiptMaturity
  BY <1>0, <1>10, HeightsKept
  DEF AdvanceReceiptMaturity, Commit, Goto, recorded, task, OtherRows
<1>11. CASE ReconcileCurrentMempool \/ ReconcilePeriodically
  BY <1>0, <1>11, HeightsKept
  DEF ReconcileCurrentMempool, ReconcilePeriodically, ReconcileMempool, Commit, recorded,
      OtherRows
<1>12. CASE FetchMempoolTxids
  BY <1>0, <1>12, HeightsKept DEF FetchMempoolTxids, Goto, ledger, recorded, OtherRows
<1>13. CASE Wake
  <2>1. /\ pc = "waiting" /\ pc' = "idle" /\ meta' = meta /\ rows' = rows
        /\ unrecorded' = unrecorded
    BY <1>13 DEF Wake, Goto, ledger, recorded
  <2> QED
    BY <2>1 DEF HeightsOK, MinedUpTo
<1>14. ASSUME NEW k, DownloadBatch(k)
       PROVE  HeightsOK'
  BY <1>0, <1>14, HeightsKept DEF DownloadBatch, ledger, recorded, OtherRows
<1>15. CASE Network \/ UNCHANGED vars
  <2>1. UNCHANGED << recorded, pc, task >>
    BY <1>15, NetworkPlan DEF vars, recorded, task
  <2>2. OtherRows
    BY <1>15 DEF Network, Broadcast, Evict, Mine, Rewind, Moved, vars, ledger, OtherRows
  <2> QED
    BY <1>0, <2>1, <2>2, HeightsKept DEF recorded, task
<1> QED
  BY <1>1, <1>2, <1>3, <1>4, <1>5, <1>6, <1>7, <1>8, <1>9, <1>10, <1>11, <1>12, <1>13,
     <1>14, <1>15 DEF Next, Sync

\* ReorgLowersTotal: no receipt of a block that a reorganisation removed is
\* left above the tip when an undisturbed iteration ends, but one of a batch
\* whose iteration failed or died before record_sync_status
\* (revoke_mined_receipts_above_tip runs only when the recorded height is above
\* the tip).  No fault is excluded.
THEOREM ReorgTheorem == Spec => []ReorgLowersTotal
<1>1. Init => HeightsOK
  BY DEF Init, HeightsOK, MinedUpTo, NoRow
<1>2. HeightsOK /\ ControlInv /\ [Next]_vars => HeightsOK'
  BY HeightsStep
<1>3. HeightsOK /\ ControlInv => ReorgLowersTotal
  <2> SUFFICES ASSUME HeightsOK, ControlInv, QuietEnd, NEW t \in Txs, AboveTip(t)
               PROVE  t \in unrecorded
      BY DEF ReorgLowersTotal
  <2>1. MinedUpTo(tip)
    BY DEF HeightsOK, QuietEnd
  <2>2. rows[t].height \in Nat /\ tip \in Nat
    BY ControlFacts, RowFields DEF ControlInv, TypeOK
  <2> QED
    BY <2>1, <2>2 DEF MinedUpTo, AboveTip
<1> QED
  BY <1>1, <1>2, <1>3, ControlInvariance, PTL DEF Spec

-----------------------------------------------------------------------------
(* What a ledger transaction does to one receipt.                          *)

SameRow(t, b) ==
    /\ rows'[t].kind = rows[t].kind /\ rows'[t].height = rows[t].height
    /\ rows'[t].active = b /\ rows'[t].eligible = rows[t].eligible
    /\ rows'[t].depth = rows[t].depth /\ rows'[t].fresh = rows[t].fresh

LEMMA ReconciledRow ==
    ASSUME TypeOK, NEW S \in SUBSET Nat, NEW blocks \in [S -> SUBSET Txs], NEW top,
           rows' = ReconciledInRange(blocks, top), NEW t \in Txs
    PROVE  \/ \E h \in S : t \in blocks[h] /\ rows'[t] = MinedRow(h, top)
           \/ /\ \A h \in S : t \notin blocks[h]
              /\ SameRow(t, rows[t].active
                            /\ ~(rows[t].kind = "mined" /\ rows[t].height \in S))
<1> DEFINE mined == \E g \in S : t \in blocks[g]
           pick == CHOOSE g \in S : t \in blocks[g]
           kept == rows[t].active /\ ~(rows[t].kind = "mined" /\ rows[t].height \in S)
<1>1. rows'[t] = IF mined THEN MinedRow(pick, top) ELSE [rows[t] EXCEPT !.active = kept]
  BY DEF ReconciledInRange, TypeOK, Row
<1>2. CASE mined
  BY <1>1, <1>2
<1>3. CASE ~mined
  <2>1. rows[t] \in Row
    BY DEF TypeOK
  <2> QED
    BY <1>1, <1>3, <2>1 DEF Row, SameRow
<1> QED
  BY <1>2, <1>3

LEMMA RevokedRow ==
    ASSUME TypeOK, NEW top, rows' = RevokedAboveTip(top), NEW t \in Txs
    PROVE  SameRow(t, rows[t].active /\ ~(rows[t].kind = "mined" /\ rows[t].height > top))
<1> DEFINE kept == rows[t].active /\ ~(rows[t].kind = "mined" /\ rows[t].height > top)
<1>1. rows'[t] = [rows[t] EXCEPT !.active = kept] /\ rows[t] \in Row
  BY DEF RevokedAboveTip, TypeOK, Row
<1> QED
  BY <1>1 DEF Row, SameRow

\* The receipt is in the mempool afresh, gone from it, or looked at again.
MempoolUpdate(t, seen, found, flag) ==
    LET fresh == rows[t].kind = "mempool" => rows[t].fresh
        known == rows[t].kind = "mempool" /\ rows[t].active
    IN  /\ t \in found =>
             /\ rows'[t].kind = "mempool" /\ rows'[t].active
             /\ rows'[t].eligible = (ReportConf = 0 /\ fresh)
             /\ rows'[t].fresh = fresh
        /\ t \notin found /\ ~known => rows'[t] = rows[t]
        /\ t \notin found /\ known /\ flag /\ t \notin seen => SameRow(t, FALSE)
        /\ t \notin found /\ known /\ ~(flag /\ t \notin seen) =>
             /\ rows'[t].kind = "mempool" /\ rows'[t].active
             /\ rows'[t].eligible = (ReportConf = 0 /\ rows[t].fresh)
             /\ rows'[t].fresh = rows[t].fresh

LEMMA MempoolRow ==
    ASSUME TypeOK, NEW seen, NEW found, NEW flag,
           rows' = MempoolReconciled(seen, found, flag), NEW t \in Txs
    PROVE  MempoolUpdate(t, seen, found, flag)
<1> DEFINE fresh == rows[t].kind = "mempool" => rows[t].fresh
           counts == ReportConf = 0 /\ fresh
           new == [kind |-> "mempool", height |-> 0, active |-> TRUE,
                   eligible |-> counts, depth |-> 0, fresh |-> fresh]
<1>1. rows'[t] =
        IF t \in found THEN new
        ELSE IF rows[t].kind # "mempool" \/ ~rows[t].active THEN rows[t]
        ELSE IF flag /\ t \notin seen THEN [rows[t] EXCEPT !.active = FALSE]
        ELSE [rows[t] EXCEPT !.eligible = counts]
  BY DEF MempoolReconciled
<1>2. rows[t] \in Row
  BY DEF TypeOK
<1>3. /\ new.kind = "mempool" /\ new.active /\ new.eligible = counts /\ new.fresh = fresh
  OBVIOUS
<1> HIDE DEF new
<1>4. /\ [rows[t] EXCEPT !.eligible = counts].kind = rows[t].kind
      /\ [rows[t] EXCEPT !.eligible = counts].active = rows[t].active
      /\ [rows[t] EXCEPT !.eligible = counts].eligible = counts
      /\ [rows[t] EXCEPT !.eligible = counts].fresh = rows[t].fresh
  BY <1>2 DEF Row
<1>5. rows'[t] = [rows[t] EXCEPT !.active = FALSE] => SameRow(t, FALSE)
  BY <1>2 DEF Row, SameRow
<1>6. rows[t].kind = "mempool" => (counts <=> ReportConf = 0 /\ rows[t].fresh)
  OBVIOUS
<1> HIDE DEF counts
<1>7. CASE t \in found
  BY <1>1, <1>3, <1>7 DEF counts, MempoolUpdate
<1>8. CASE t \notin found /\ ~(rows[t].kind = "mempool" /\ rows[t].active)
  BY <1>1, <1>8 DEF MempoolUpdate
<1>9. CASE t \notin found /\ rows[t].kind = "mempool" /\ rows[t].active
  <2>1. counts = (ReportConf = 0 /\ rows[t].fresh)
    BY <1>9 DEF counts
  <2> QED
    BY <1>1, <1>4, <1>5, <1>9, <2>1 DEF MempoolUpdate
<1> QED
  BY <1>7, <1>8, <1>9

LEMMA MinedRowFields ==
    ASSUME NEW h, NEW top
    PROVE  LET row == MinedRow(h, top)
           IN  /\ row.kind = "mined" /\ row.height = h /\ row.active = TRUE
               /\ row.depth = DepthAt(top, h) /\ row.fresh = TRUE
               /\ row.eligible = (DepthAt(top, h) >= ReportConf)
  BY DEF MinedRow

-----------------------------------------------------------------------------
(* A network that only adds.                                               *)

\* The steps that write receipts.
LEMMA RowKinds ==
    ASSUME [Next]_vars
    PROVE  \/ rows' = rows \/ RevokeAboveTip \/ ReconcileOverlap \/ ScanBatchStep
           \/ AdvanceReceiptMaturity \/ ReconcileCurrentMempool \/ ReconcilePeriodically
           \/ \E t \in Txs : Age(t)
<1>1. CASE QueueReorgAffected \/ QueueBatch \/ QueueMatured \/ QueueMempool \/ QueuePeriodic
           \/ IterationFails \/ CrashAndRestart
  BY <1>1
  DEF QueueReorgAffected, QueueBatch, QueueMatured, QueueMempool, QueuePeriodic,
      QueueAffected, IterationFails, CrashAndRestart, GiveUp, ledger
<1>2. CASE SampleTip \/ MarkCatchingUp \/ RecordBatch \/ FetchMempoolTxids
           \/ RecordStatus \/ Wake
  BY <1>2
  DEF SampleTip, MarkCatchingUp, RecordBatch, FetchMempoolTxids, RecordStatus, Wake, ledger
<1>3. ASSUME NEW k, DownloadBatch(k)
      PROVE  rows' = rows
  BY <1>3 DEF DownloadBatch, ledger
<1>4. CASE Network \/ UNCHANGED vars
  BY <1>4 DEF Network, Broadcast, Evict, Mine, Rewind, Moved, vars, ledger
<1> QED
  BY <1>1, <1>2, <1>3, <1>4 DEF Next, Sync

LEMMA SteadyNet ==
    ASSUME Steady, TypeOK, [Next]_vars
    PROVE  /\ Len(chain) \in Nat /\ Len(chain') \in Nat /\ Len(chain) <= Len(chain')
           /\ \A h \in Nat : h <= Len(chain) => BlockAt(h)' = BlockAt(h)
           /\ \A h \in Nat : h > Len(chain) => BlockAt(h) = {}
           /\ OnChain \subseteq OnChain'
           /\ mempool \cup OnChain \subseteq mempool' \cup OnChain'
           /\ \A t \in Txs : ~Age(t)
           /\ UNCHANGED network \/ UNCHANGED << meta, pc, task >>
<1> DEFINE Grows == /\ Len(chain') \in Nat /\ Len(chain) <= Len(chain')
                    /\ \A h \in Nat : h <= Len(chain) => BlockAt(h)' = BlockAt(h)
                    /\ OnChain \subseteq OnChain'
                    /\ mempool \cup OnChain \subseteq mempool' \cup OnChain'
                    /\ UNCHANGED network \/ UNCHANGED << meta, pc, task >>
<1>0. /\ chain \in Seq(SUBSET Txs) /\ Len(chain) \in Nat /\ DOMAIN chain = 1 .. Len(chain)
      /\ \A h \in Nat : h > Len(chain) => BlockAt(h) = {}
      /\ \A t \in Txs : ~Age(t)
  BY NetTypes DEF BlockAt, Steady, Age
<1>1. ASSUME UNCHANGED network PROVE Grows
  BY <1>0, <1>1 DEF network, BlockAt, OnChain
<1>2. ASSUME NEW t \in Txs, Broadcast(t)
      PROVE  chain' = chain /\ mempool \subseteq mempool'
  BY <1>2 DEF Broadcast
<1>3. ASSUME NEW block \in SUBSET (Txs \ OnChain), Mine(block)
      PROVE  /\ Len(chain') = Len(chain) + 1
             /\ \A h \in Nat : h <= Len(chain) => BlockAt(h)' = BlockAt(h)
             /\ OnChain \subseteq OnChain' /\ mempool \subseteq mempool' \cup OnChain'
  <2> DEFINE n == Len(chain)
  <2>1. chain' = Append(chain, block) /\ mempool' = mempool \ block
    BY <1>3 DEF Mine
  <2>2. /\ Len(chain') = n + 1 /\ DOMAIN chain' = 1 .. (n + 1)
        /\ chain'[n + 1] = block /\ \A h \in 1 .. n : chain'[h] = chain[h]
    BY <1>0, <2>1
  <2>3. \A h \in Nat : h <= n => BlockAt(h)' = BlockAt(h)
    BY <1>0, <2>2 DEF BlockAt
  <2>4. OnChain \subseteq OnChain'
    BY <1>0, <2>2 DEF OnChain
  <2>5. block \subseteq OnChain'
    BY <1>0, <2>2 DEF OnChain
  <2> QED
    BY <2>1, <2>2, <2>3, <2>4, <2>5
<1>4. ASSUME Network PROVE Grows
  <2>1. UNCHANGED << meta, pc, task >>
    BY <1>4, NetworkPlan DEF recorded
  <2>2. ASSUME NEW t \in Txs, Broadcast(t)
        PROVE  Grows
    <3>1. chain' = chain /\ mempool \subseteq mempool'
      BY <1>2, <2>2
    <3> QED
      BY <1>0, <2>1, <3>1 DEF BlockAt, OnChain
  <2>3. ASSUME NEW block \in SUBSET (Txs \ OnChain), Mine(block)
        PROVE  Grows
    <3>1. /\ Len(chain') = Len(chain) + 1
          /\ \A h \in Nat : h <= Len(chain) => BlockAt(h)' = BlockAt(h)
          /\ OnChain \subseteq OnChain' /\ mempool \subseteq mempool' \cup OnChain'
      BY <1>3, <2>3
    <3> QED
      BY <1>0, <2>1, <3>1
  <2> HIDE DEF Grows
  <2> QED
    BY <1>0, <1>4, <2>2, <2>3 DEF Network, Steady, Rewind, Evict
<1> HIDE DEF Grows
<1>5. Grows
  BY <1>1, <1>4, SyncLeavesNetwork DEF Next, vars, network
<1> QED
  BY <1>0, <1>5 DEF Grows

\* A download lies at or below the tip that was sampled.
LEMMA FetchedBelow ==
    ASSUME ControlInv, NEW f \in fetched, NEW h \in HeightsOf(f.batch)
    PROVE  h \in Nat /\ h <= tip
<1> USE ControlFacts
<1>1. /\ f.batch \in ScanBatch /\ f.batch.start <= tip /\ f.batch.start \in Nat
      /\ f.batch = NextScanBatch(f.batch.start, tip, BatchSize)
  BY WidthAssumption DEF ControlInv, FetchedOK, ScanBatch, Heights
<1>2. f.batch.end \in f.batch.start .. tip
  BY <1>1, NextBatch
<1> QED
  BY <1>1, <1>2 DEF HeightsOf

\* So does the batch that is scanned, which is empty past the tip.
LEMMA CurrentBelow ==
    ASSUME ControlInv, NEW h \in HeightsOf(CurrentBatch)
    PROVE  h \in Nat /\ h <= tip /\ h >= cursor
<1> USE ControlFacts
<1>1. CASE cursor > tip
  BY <1>1 DEF CurrentBatch, NextScanBatch, NoBatch, HeightsOf
<1>2. CASE cursor <= tip
  <2>1. CurrentBatch.start = cursor /\ CurrentBatch.end \in cursor .. tip
    BY <1>2, NextBatch DEF CurrentBatch
  <2> QED
    BY <2>1 DEF HeightsOf
<1> QED
  BY <1>1, <1>2

SteadyPlan ==
    /\ meta.scanned <= tip
    /\ cursor <= Higher(meta.scanned + 1, Birthday)

LEMMA SteadyPlanStep ==
    ASSUME ControlInv, SteadyReads, [Next]_vars, Len(chain) \in Nat
    PROVE  /\ tip' <= Len(chain) /\ meta'.scanned <= Len(chain)
           /\ tip' >= tip
           /\ pc' # "idle" => SteadyPlan'
           /\ meta'.scanned = meta.scanned \/ RecordBatch
<1> USE ControlFacts
<1>0. /\ tip <= Len(chain) /\ meta.scanned <= Len(chain)
      /\ pc # "idle" => SteadyPlan
  BY DEF SteadyReads, SteadyPlan
<1>1. CASE Planned
  BY <1>0, <1>1 DEF Planned, SteadyPlan
<1>2. CASE SampleTip
  <2>1. /\ tip' = Len(chain) /\ meta' = meta
        /\ cursor' = ForwardScanStartHeight(Birthday, meta.scanned, tip')
    BY <1>2 DEF SampleTip, recorded
  <2>2. tip' \in Heights /\ tip' < MaxU32
    BY <2>1, SyncAssumption, WidthAssumption DEF ControlInv, NetOK, Heights
  <2>3. cursor' = Birthday \/ cursor' = Lower(meta.scanned, tip') + 1
    BY <2>1, <2>2, ForwardStart
  <2> QED
    BY <1>0, <2>1, <2>3 DEF SteadyPlan, Lower, Higher
<1>3. CASE MarkCatchingUp
  <2>1. meta'.scanned = meta.scanned /\ UNCHANGED << tip, cursor >> /\ pc # "idle"
    BY <1>3 DEF MarkCatchingUp, RecordSyncStatus, task
  <2> QED
    BY <1>0, <2>1 DEF SteadyPlan
<1>4. CASE RecordBatch
  <2>1. PICK f \in fetched : /\ f.batch.start = cursor
                             /\ RecordSyncStatus("catching_up", f.batch.end)
                             /\ cursor' = f.batch.end + 1
    BY <1>4 DEF RecordBatch
  <2>2. f.batch.end \in Nat /\ f.batch.end <= tip
    BY <2>1, RecordedBatch
  <2>3. meta'.scanned = f.batch.end /\ tip' = tip
    BY <1>4, <2>1 DEF RecordBatch, RecordSyncStatus
  <2> QED
    BY <1>0, <1>4, <2>1, <2>2, <2>3 DEF SteadyPlan, Higher
<1>5. CASE RecordStatus
  <2>1. /\ meta'.scanned = Lower(tip, meta.scanned) /\ UNCHANGED << tip, cursor >>
        /\ pc # "idle"
    BY <1>5 DEF RecordStatus, RecordSyncStatus, NewLastScanned, task
  <2> QED
    BY <1>0, <2>1 DEF SteadyPlan, Lower
<1> QED
  BY <1>1, <1>2, <1>3, <1>4, <1>5, PlanKinds

LEMMA SteadyReadsStep ==
    ASSUME Steady, Birthday <= 2, LedgerInv, SteadyReads, [Next]_vars
    PROVE  SteadyReads'
<1> USE ControlFacts DEF LedgerInv
<1>0. TypeOK /\ NetOK
  BY DEF ControlInv
<1>1. /\ Len(chain) \in Nat /\ Len(chain') \in Nat /\ Len(chain) <= Len(chain')
      /\ \A h \in Nat : h <= Len(chain) => BlockAt(h)' = BlockAt(h)
  BY <1>0, SteadyNet
<1>2. /\ tip \in Nat /\ tip <= Len(chain) /\ Len(chain) >= 1
      /\ \A h \in Nat : h < Birthday => BlockAt(h) = {}
      /\ \A f \in fetched : \A h \in HeightsOf(f.batch) : f.blocks[h] = BlockAt(h)
      /\ \A h \in Nat : h <= tip => snapshot \cap BlockAt(h) = {}
  BY DEF SteadyReads
<1>3. /\ tip' <= Len(chain) /\ meta'.scanned <= Len(chain)
      /\ pc' # "idle" => SteadyPlan'
      /\ tip' \in Nat /\ meta'.scanned \in Nat
  BY <1>1, SteadyPlanStep, PlanStep
<1>4. tip' <= Len(chain') /\ meta'.scanned <= Len(chain') /\ Len(chain') >= 1
  BY <1>1, <1>2, <1>3
<1>5. \A h \in Nat : h < Birthday => BlockAt(h)' = {}
  BY <1>1, <1>2
<1>6. ASSUME NEW f \in fetched', NEW h \in HeightsOf(f.batch)
      PROVE  f.blocks[h] = BlockAt(h)'
  <2>1. CASE f \in fetched
    <3>1. h \in Nat /\ h <= Len(chain)
      BY <1>1, <1>2, <1>6, <2>1, FetchedBelow
    <3> QED
      BY <1>1, <1>2, <1>6, <2>1, <3>1
  <2>2. CASE fetched' \subseteq fetched
    BY <2>1, <2>2
  <2>3. ASSUME NEW k \in 0 .. (Ahead - 1), DownloadBatch(k), f \notin fetched
        PROVE  f.blocks[h] = BlockAt(h)'
    <3>1. PICK batch : f = [batch |-> batch, blocks |-> Read(batch)]
      BY <2>3 DEF DownloadBatch
    <3>2. f.batch = batch /\ f.blocks = Read(batch)
      BY <3>1
    <3>3. BlockAt(h)' = BlockAt(h)
      BY <2>3 DEF DownloadBatch, network, BlockAt
    <3>4. f.blocks[h] = BlockAt(h)
      BY <1>6, <3>2 DEF Read
    <3> QED
      BY <3>3, <3>4
  <2>4. \/ fetched' \subseteq fetched
        \/ \E k \in 0 .. (Ahead - 1) : DownloadBatch(k)
    BY FetchedKinds
    DEF Waits, SampleTip, RecordBatch, AdvanceReceiptMaturity, task
  <2> QED
    BY <2>1, <2>2, <2>3, <2>4
<1>7. ASSUME NEW h \in Nat, h <= tip'
      PROVE  snapshot' \cap BlockAt(h)' = {}
  <2>1. /\ snapshot' = {} \/ (snapshot' = snapshot /\ tip' = tip)
             \/ (snapshot' = mempool /\ FetchMempoolTxids)
    BY SnapshotKinds DEF ContentOK
  <2>2. BlockAt(h)' = BlockAt(h)
    BY <1>1, <1>3, <1>7
  <2>3. mempool \cap BlockAt(h) = {}
    BY <1>0 DEF NetOK
  <2> QED
    BY <1>2, <1>7, <2>1, <2>2, <2>3
<1> QED
  BY <1>3, <1>4, <1>5, <1>6, <1>7 DEF SteadyReads, SteadyPlan

SteadyRow(t) ==
    /\ rows[t].fresh
    /\ rows[t].active => \/ rows[t].kind = "mined" /\ SteadyMined(t)
                         \/ rows[t].kind = "mempool" /\ SteadyMempool(t)

\* A mined receipt that a step leaves alone stays where it is, and matures.
LEMMA MinedStays ==
    ASSUME Steady, LedgerInv, SteadyReads, [Next]_vars, NEW t \in Txs, SteadyMined(t),
           rows'[t].height = rows[t].height, rows'[t].eligible = rows[t].eligible
    PROVE  SteadyMined(t)'
<1> USE ControlFacts DEF LedgerInv
<1>0. TypeOK /\ rows[t].height \in Nat
  BY RowFields DEF ControlInv, TypeOK
<1>1. /\ Len(chain) \in Nat
      /\ \A h \in Nat : h <= Len(chain) => BlockAt(h)' = BlockAt(h)
  BY <1>0, SteadyNet
<1>2. tip' >= tip /\ tip' \in Nat /\ tip <= Len(chain)
  BY <1>1, SteadyPlanStep, PlanStep DEF SteadyReads
<1> DEFINE h == rows[t].height
<1>3. h <= tip /\ t \in BlockAt(h) /\ (rows[t].eligible => DepthAt(tip, h) >= ReportConf)
  BY DEF SteadyMined
<1>4. BlockAt(h)' = BlockAt(h)
  BY <1>0, <1>1, <1>2, <1>3
<1>5. DepthAt(tip, h) >= ReportConf => DepthAt(tip', h) >= ReportConf
  BY <1>0, <1>2, <1>3, SyncAssumption DEF DepthAt
<1> QED
  BY <1>0, <1>2, <1>3, <1>4, <1>5 DEF SteadyMined

\* A mempool receipt that a step leaves active is still in the mempool or in a
\* block to come: the height is recorded only after the batch is scanned.
LEMMA MempoolStays ==
    ASSUME Steady, LedgerInv, SteadyReads, [Next]_vars, NEW t \in Txs,
           t \in mempool \cup OnChain,
           pc \in MempoolPhase => t \in snapshot \cup OnChain,
           \A h \in Nat : t \in BlockAt(h) =>
              /\ h > meta.scanned
              /\ pc \in BatchPhase => h \notin HeightsOf(CurrentBatch),
           rows'[t].eligible => ReportConf = 0,
           ScanBatchStep => \A h \in HeightsOf(CurrentBatch) : t \notin BlockAt(h)
    PROVE  SteadyMempool(t)'
<1> USE ControlFacts DEF LedgerInv
<1>0. TypeOK
  BY DEF ControlInv
<1>1. /\ Len(chain) \in Nat /\ Len(chain') \in Nat
      /\ \A h \in Nat : h <= Len(chain) => BlockAt(h)' = BlockAt(h)
      /\ OnChain \subseteq OnChain'
      /\ mempool \cup OnChain \subseteq mempool' \cup OnChain'
      /\ UNCHANGED network \/ UNCHANGED << meta, pc, task >>
      /\ \A h \in Nat : h > Len(chain) => BlockAt(h) = {}
  BY <1>0, SteadyNet
<1>2. tip <= Len(chain) /\ meta.scanned <= Len(chain)
  BY DEF SteadyReads
<1>3. ASSUME pc' \in MempoolPhase
      PROVE  t \in snapshot' \cup OnChain'
  <2>1. (snapshot' = snapshot /\ pc' = pc) \/ FetchMempoolTxids
    BY <1>3, SnapshotKinds DEF ContentOK, MempoolPhase
  <2>2. CASE snapshot' = snapshot /\ pc' = pc
    BY <1>1, <1>3, <2>2
  <2>3. CASE FetchMempoolTxids
    <3>1. snapshot' = mempool /\ OnChain' = OnChain
      BY <2>3 DEF FetchMempoolTxids, Goto, network, OnChain
    <3> QED
      BY <3>1
  <2> QED
    BY <2>1, <2>2, <2>3
<1>4. ASSUME NEW h \in Nat, t \in BlockAt(h)'
      PROVE  /\ h > meta'.scanned
             /\ pc' \in BatchPhase => h \notin HeightsOf(CurrentBatch)'
  <2>1. CASE h > Len(chain)
    <3>1. UNCHANGED << meta, pc, task >>
      <4>1. BlockAt(h) = {}
        BY <1>1, <2>1
      <4>2. UNCHANGED network => BlockAt(h)' = BlockAt(h)
        BY DEF network, BlockAt
      <4> QED
        BY <1>1, <1>4, <4>1, <4>2
    <3>2. HeightsOf(CurrentBatch)' = HeightsOf(CurrentBatch)
      BY <3>1 DEF task, CurrentBatch, HeightsOf
    <3>3. h \notin HeightsOf(CurrentBatch)
      BY <1>1, <1>2, <2>1, CurrentBelow
    <3> QED
      BY <1>1, <1>2, <2>1, <3>1, <3>2, <3>3
  <2>2. CASE h <= Len(chain)
    <3>1. /\ t \in BlockAt(h) /\ h > meta.scanned
          /\ pc \in BatchPhase => h \notin HeightsOf(CurrentBatch)
      BY <1>1, <1>4, <2>2
    <3>2. CASE RecordBatch
      <4>1. PICK f \in fetched : /\ f.batch.start = cursor
                                 /\ RecordSyncStatus("catching_up", f.batch.end)
        BY <3>2 DEF RecordBatch
      <4>2. meta'.scanned = CurrentBatch.end /\ pc = "record_batch" /\ pc' = "scan"
        BY <3>2, <4>1, RecordedBatch DEF RecordBatch, RecordSyncStatus, Goto
      <4>3. f.batch.start = cursor /\ f.batch = CurrentBatch /\ CurrentBatch.end \in Nat
        BY <4>1, RecordedBatch
      <4>4. h < cursor \/ h > CurrentBatch.end
        BY <3>1, <4>2, <4>3 DEF BatchPhase, HeightsOf
      <4>5. h >= Birthday /\ cursor <= Higher(meta.scanned + 1, Birthday)
        BY <3>1, <4>2 DEF SteadyReads
      <4>6. h >= cursor
        BY <3>1, <4>5 DEF Higher
      <4> QED
        BY <4>2, <4>3, <4>4, <4>6 DEF BatchPhase
    <3>3. CASE ~RecordBatch
      <4>1. meta'.scanned = meta.scanned
        BY <1>1, <3>3, SteadyPlanStep
      <4>2. ASSUME pc' \in BatchPhase
            PROVE  /\ HeightsOf(CurrentBatch)' = HeightsOf(CurrentBatch)
                   /\ pc \in BatchPhase \/ ScanBatchStep
        BY <4>2, Phases DEF ScanBatchStep, task, CurrentBatch, HeightsOf
      <4> QED
        BY <3>1, <4>1, <4>2
    <3> QED
      BY <3>2, <3>3
  <2> QED
    BY <1>1, <2>1, <2>2
<1> QED
  BY <1>1, <1>3, <1>4 DEF SteadyMempool

CountedRow(t) == rows[t].active /\ rows[t].eligible

\* A range that is read as the chain has it takes no counted receipt away: a
\* mined receipt is found where it was, and a mempool receipt is mature at once.
LEMMA SteadyRange ==
    ASSUME Steady, LedgerInv, SteadyReads, [Next]_vars, NEW t \in Txs, SteadyRow(t),
           NEW S \in SUBSET Nat, NEW blocks \in [S -> SUBSET Txs],
           \A h \in S : h <= tip /\ blocks[h] = BlockAt(h),
           rows' = ReconciledInRange(blocks, tip), UNCHANGED network, tip' = tip,
           ScanBatchStep => HeightsOf(CurrentBatch) \subseteq S
    PROVE  SteadyRow(t)' /\ (CountedRow(t) => CountedRow(t)')
<1> USE ControlFacts DEF LedgerInv
<1>0. TypeOK /\ rows[t].height \in Nat /\ rows[t] \in Row
  BY RowFields DEF ControlInv, TypeOK
<1>1. \A h \in Nat : BlockAt(h)' = BlockAt(h)
  BY DEF network, BlockAt
<1>2. \A g, h \in Nat : g # h => BlockAt(g) \cap BlockAt(h) = {}
  BY DEF ControlInv, NetOK
<1>3. ASSUME NEW h \in S, t \in blocks[h], rows'[t] = MinedRow(h, tip)
      PROVE  SteadyRow(t)' /\ (CountedRow(t) => CountedRow(t)')
  <2>1. /\ rows'[t].kind = "mined" /\ rows'[t].height = h /\ rows'[t].active
        /\ rows'[t].fresh /\ rows'[t].eligible = (DepthAt(tip, h) >= ReportConf)
    BY <1>3 DEF MinedRow
  <2>2. h <= tip /\ t \in BlockAt(h) /\ t \in BlockAt(h)' /\ h \in Nat
    BY <1>1, <1>3
  <2>3. SteadyMined(t)'
    BY <2>1, <2>2 DEF SteadyMined
  <2>4. ASSUME CountedRow(t)
        PROVE  DepthAt(tip, h) >= ReportConf
    <3>1. CASE rows[t].kind = "mined" /\ SteadyMined(t)
      <4>1. rows[t].height = h
        BY <1>0, <1>2, <2>2, <3>1 DEF SteadyMined
      <4> QED
        BY <2>4, <3>1, <4>1 DEF SteadyMined, CountedRow
    <3>2. CASE SteadyMempool(t)
      <4>1. ReportConf = 0
        BY <2>4, <3>2 DEF SteadyMempool, CountedRow
      <4>2. DepthAt(tip, h) \in Nat
        BY <2>2, DepthType
      <4> QED
        BY <4>1, <4>2
    <3> QED
      BY <2>4, <3>1, <3>2 DEF CountedRow, SteadyRow
  <2> QED
    BY <2>1, <2>3, <2>4 DEF SteadyRow, CountedRow
<1>4. ASSUME \A h \in S : t \notin blocks[h],
             SameRow(t, rows[t].active
                          /\ ~(rows[t].kind = "mined" /\ rows[t].height \in S))
      PROVE  SteadyRow(t)' /\ (CountedRow(t) => CountedRow(t)')
  <2>1. /\ rows'[t].kind = rows[t].kind /\ rows'[t].height = rows[t].height
        /\ rows'[t].eligible = rows[t].eligible /\ rows'[t].fresh = rows[t].fresh
        /\ rows'[t].active => rows[t].active
        /\ rows'[t].active = (rows[t].active
                               /\ ~(rows[t].kind = "mined" /\ rows[t].height \in S))
    BY <1>4 DEF SameRow
  <2>2. CASE rows[t].active /\ rows[t].kind = "mined" /\ SteadyMined(t)
    <3>1. SteadyMined(t)'
      BY <2>1, <2>2, MinedStays
    <3>2. rows[t].height \notin S
      BY <1>4, <2>2 DEF SteadyMined
    <3> QED
      BY <2>1, <2>2, <3>1, <3>2 DEF SteadyRow, CountedRow
  <2>3. CASE rows[t].active /\ rows[t].kind = "mempool" /\ SteadyMempool(t)
    <3>1. ScanBatchStep => \A h \in HeightsOf(CurrentBatch) : t \notin BlockAt(h)
      BY <1>4
    <3>2. SteadyMempool(t)'
      BY <2>1, <2>3, <3>1, MempoolStays DEF SteadyMempool
    <3> QED
      BY <2>1, <2>3, <3>2 DEF SteadyRow, CountedRow
  <2>4. CASE ~rows[t].active
    BY <2>1, <2>4 DEF SteadyRow, CountedRow
  <2> QED
    BY <2>2, <2>3, <2>4 DEF SteadyRow
<1> QED
  BY <1>0, <1>3, <1>4, ReconciledRow

\* A mempool reconciliation takes a counted receipt away only when its
\* transaction has left the mempool unmined: if it was mined, either the tip
\* has moved, or its block was scanned.
LEMMA SteadyMempoolRow ==
    ASSUME Steady, LedgerInv, SteadyReads, [Next]_vars, NEW t \in Txs, SteadyRow(t),
           ReconcileCurrentMempool \/ ReconcilePeriodically
    PROVE  SteadyRow(t)' /\ (CountedRow(t) => CountedRow(t)')
<1> USE ControlFacts DEF LedgerInv
<1> DEFINE known == {u \in Txs : rows[u].kind = "mempool" /\ rows[u].active}
           found == (snapshot \ known) \cap (mempool \cup OnChain)
<1>0. /\ TypeOK /\ rows[t].height \in Nat /\ rows[t] \in Row
      /\ Len(chain) \in Nat /\ DOMAIN chain = 1 .. Len(chain)
  BY RowFields, NetTypes DEF ControlInv, TypeOK
<1>1. PICK flag : /\ Commit(MempoolReconciled(snapshot, found, flag), tip)
                  /\ flag => NewLastScanned >= tip /\ TipConfirmed
  BY DEF ReconcileCurrentMempool, ReconcilePeriodically, ReconcileMempool
<1>2. /\ UNCHANGED << network, tip >>
      /\ pc \in MempoolPhase /\ pc' \notin MempoolPhase /\ pc' \notin BatchPhase
      /\ ~ScanBatchStep
  BY DEF ReconcileCurrentMempool, ReconcilePeriodically, ReconcileMempool,
         MempoolPhase, BatchPhase, ScanBatchStep
<1>3. rows' = MempoolReconciled(snapshot, found, flag)
  BY <1>1 DEF Commit
<1>4. MempoolUpdate(t, snapshot, found, flag)
  BY <1>0, <1>3, MempoolRow
<1>5. CASE t \in found
  <2>1. /\ t \in snapshot /\ ~(rows[t].kind = "mempool" /\ rows[t].active)
        /\ t \in mempool \cup OnChain
    BY <1>5
  <2> HIDE DEF known, found
  <2>2. /\ rows'[t].kind = "mempool" /\ rows'[t].active
        /\ rows'[t].eligible => ReportConf = 0
        /\ rows'[t].fresh
    BY <1>5, <1>4 DEF SteadyRow, MempoolUpdate
  <2>3. \A h \in Nat : t \in BlockAt(h) => h > meta.scanned
    <3>1. meta.scanned <= tip
      BY <1>2 DEF SteadyReads, MempoolPhase
    <3>2. \A h \in Nat : t \in BlockAt(h) => h > tip
      BY <2>1 DEF SteadyReads
    <3> QED
      BY <3>1, <3>2
  <2>4. SteadyMempool(t)'
    BY <1>2, <2>1, <2>2, <2>3, MempoolStays DEF BatchPhase, MempoolPhase
  <2>5. ~CountedRow(t)
    <3>1. SteadyMined(t) => FALSE
      BY <1>0, <2>1 DEF SteadyMined, SteadyReads
    <3> QED
      BY <2>1, <3>1 DEF SteadyRow, CountedRow
  <2> QED
    BY <2>2, <2>4, <2>5 DEF SteadyRow
<1> HIDE DEF found, known
<1>6. CASE t \notin found /\ ~(rows[t].kind = "mempool" /\ rows[t].active)
  <2>1. rows'[t] = rows[t]
    BY <1>6, <1>4 DEF MempoolUpdate
  <2>2. CASE rows[t].active
    <3>1. SteadyMined(t) /\ rows[t].kind = "mined"
      BY <1>6, <2>2 DEF SteadyRow
    <3>2. SteadyMined(t)'
      BY <2>1, <3>1, MinedStays
    <3> QED
      BY <2>1, <3>1, <3>2 DEF SteadyRow, CountedRow
  <2> QED
    BY <2>1, <2>2 DEF SteadyRow, CountedRow
<1>7. CASE t \notin found /\ rows[t].kind = "mempool" /\ rows[t].active
  <2>1. SteadyMempool(t) /\ rows[t].fresh
    BY <1>7 DEF SteadyRow
  <2>2. CASE flag /\ t \notin snapshot
    <3>1. NewLastScanned >= tip /\ Len(chain) <= tip
      BY <1>1, <2>2 DEF TipConfirmed
    <3>2. meta.scanned >= tip
      BY <3>1 DEF NewLastScanned, Lower
    <3>3. t \in OnChain
      BY <1>2, <2>1, <2>2 DEF SteadyMempool
    <3>4. PICK h \in 1 .. Len(chain) : t \in BlockAt(h)
      BY <1>0, <3>3 DEF OnChain, BlockAt
    <3>5. h > meta.scanned
      BY <2>1, <3>4 DEF SteadyMempool
    <3> QED
      BY <1>0, <3>1, <3>2, <3>4, <3>5
  <2>3. CASE ~(flag /\ t \notin snapshot)
    <3>1. /\ rows'[t].kind = "mempool" /\ rows'[t].active
          /\ rows'[t].eligible = (ReportConf = 0 /\ rows[t].fresh)
          /\ rows'[t].fresh = rows[t].fresh
      BY <1>7, <2>3, <1>4 DEF MempoolUpdate
    <3>2. SteadyMempool(t)'
      BY <1>2, <2>1, <3>1, MempoolStays DEF SteadyMempool
    <3>3. rows[t].eligible => rows'[t].eligible
      BY <2>1, <3>1 DEF SteadyMempool
    <3> QED
      BY <2>1, <3>1, <3>2, <3>3 DEF SteadyRow, CountedRow
  <2> QED
    BY <2>2, <2>3
<1> QED
  BY <1>5, <1>6, <1>7

\* Every step keeps the receipts as SteadyRow says, and the counted ones counted.
LEMMA SteadyRowStep ==
    ASSUME Steady, LedgerInv, SteadyReads, [Next]_vars, NEW t \in Txs, SteadyRow(t)
    PROVE  SteadyRow(t)' /\ (CountedRow(t) => CountedRow(t)')
<1> USE ControlFacts DEF LedgerInv
<1>0. TypeOK /\ rows[t].height \in Nat
  BY RowFields DEF ControlInv, TypeOK
<1>1. ASSUME rows'[t] = rows[t], ~ScanBatchStep
      PROVE  SteadyRow(t)' /\ (CountedRow(t) => CountedRow(t)')
  <2>1. SteadyMined(t) => SteadyMined(t)'
    BY <1>1, MinedStays
  <2>2. SteadyMempool(t) => SteadyMempool(t)'
    BY <1>1, MempoolStays DEF SteadyMempool
  <2> QED
    BY <1>1, <2>1, <2>2 DEF SteadyRow, CountedRow
<1>2. CASE rows' = rows /\ ~ScanBatchStep
  BY <1>1, <1>2
<1>3. CASE RevokeAboveTip
  <2>1. meta.scanned <= tip
    BY <1>3 DEF RevokeAboveTip, SteadyReads
  <2>2. rows' = rows /\ ~ScanBatchStep
    BY <1>3, <2>1 DEF RevokeAboveTip, ScanBatchStep, ledger
  <2> QED
    BY <1>2, <2>2
<1>4. CASE ReconcileOverlap
  <2> DEFINE S == HeightsOf(OverlapBatch)
             blocks == Read(OverlapBatch)
  <2>1. S \in SUBSET Nat /\ blocks \in [S -> SUBSET Txs]
    BY <1>0, OverlapType, ReadType
  <2>2. \A h \in S : h <= tip /\ blocks[h] = BlockAt(h)
    <3>1. S \subseteq Birthday .. Lower(meta.scanned, tip)
      BY OverlapRange DEF OverlapBatch
    <3> QED
      BY <2>1, <3>1 DEF Read, Lower
  <2>3. /\ rows' = ReconciledInRange(blocks, tip) /\ UNCHANGED network /\ tip' = tip
        /\ ~ScanBatchStep
    BY <1>4 DEF ReconcileOverlap, Commit, Goto, task, ScanBatchStep
  <2> HIDE DEF S, blocks
  <2> QED
    BY <2>1, <2>2, <2>3, SteadyRange
<1>5. CASE ScanBatchStep
  <2>1. PICK f \in fetched : /\ f.batch.start = cursor
                             /\ Commit(ReconciledInRange(f.blocks, tip), tip)
    BY <1>5 DEF ScanBatchStep
  <2>2. f.batch = CurrentBatch
    BY <2>1, RecordedBatch
  <2> DEFINE S == HeightsOf(f.batch)
  <2>3. S \in SUBSET Nat /\ f.blocks \in [S -> SUBSET Txs]
    BY <1>0, ReadType DEF ControlInv, FetchedOK
  <2>4. \A h \in S : h <= tip /\ f.blocks[h] = BlockAt(h)
    BY FetchedBelow DEF SteadyReads
  <2>5. rows' = ReconciledInRange(f.blocks, tip) /\ UNCHANGED network /\ tip' = tip
    BY <1>5, <2>1 DEF ScanBatchStep, Commit, Goto, task
  <2>6. HeightsOf(CurrentBatch) \subseteq S
    BY <2>2
  <2> HIDE DEF S
  <2> QED
    BY <2>3, <2>4, <2>5, <2>6, SteadyRange
<1>6. CASE AdvanceReceiptMaturity
  <2>1. /\ rows' = Matured(tip) /\ UNCHANGED network /\ tip' = tip /\ ~ScanBatchStep
    BY <1>6 DEF AdvanceReceiptMaturity, Commit, Goto, task, ScanBatchStep
  <2>2. rows'[t] = IF rows[t].kind = "mined" /\ rows[t].active
                   THEN MinedRow(rows[t].height, tip) ELSE rows[t]
    BY <2>1 DEF Matured
  <2>3. CASE rows[t].kind = "mined" /\ rows[t].active
    <3>1. SteadyMined(t)
      BY <2>3 DEF SteadyRow
    <3>2. /\ rows'[t].kind = "mined" /\ rows'[t].height = rows[t].height
          /\ rows'[t].active /\ rows'[t].fresh
          /\ rows'[t].eligible = (DepthAt(tip, rows[t].height) >= ReportConf)
      BY <2>2, <2>3 DEF MinedRow
    <3>3. \A h : BlockAt(h)' = BlockAt(h)
      BY <2>1 DEF network, BlockAt
    <3>4. SteadyMined(t)'
      <4> PICK h : h = rows[t].height
        OBVIOUS
      <4>1. h <= tip /\ t \in BlockAt(h)' /\ rows'[t].height = h
        BY <3>1, <3>2, <3>3 DEF SteadyMined
      <4>2. rows'[t].eligible => DepthAt(tip, h) >= ReportConf
        BY <3>2
      <4> QED
        BY <2>1, <4>1, <4>2 DEF SteadyMined
    <3> QED
      BY <3>1, <3>2, <3>4 DEF SteadyMined, SteadyRow, CountedRow
  <2>4. CASE ~(rows[t].kind = "mined" /\ rows[t].active)
    BY <1>1, <2>1, <2>2, <2>4
  <2> QED
    BY <2>3, <2>4
<1>7. CASE ReconcileCurrentMempool \/ ReconcilePeriodically
  BY <1>7, SteadyMempoolRow
<1>8. \A u \in Txs : ~Age(u)
  BY DEF Steady, Age
<1> QED
  BY <1>2, <1>3, <1>4, <1>5, <1>6, <1>7, <1>8, RowKinds

LEMMA SteadyInit ==
    ASSUME Init
    PROVE  SteadyInv
<1>1. /\ chain = << {} >> /\ tip = 0 /\ meta.scanned = 0 /\ pc = "idle"
      /\ fetched = {} /\ snapshot = {}
  BY DEF Init
<1>2. \A h : BlockAt(h) = {}
  BY <1>1 DEF BlockAt
<1>3. \A t \in Txs : rows[t].fresh /\ ~rows[t].active
  BY DEF Init, NoRow
<1> QED
  BY <1>1, <1>2, <1>3 DEF SteadyInv, SteadyReads, SteadyRows

\* NoDip: while the network only adds, and no block below the wallet's birthday
\* is still to come, a counted payment stays counted at every step, whatever
\* fails: the mempool reconciliation (reconcile_current_mempool_with) revokes
\* only what was neither in the snapshot nor mined up to the tip it re-checks,
\* and the receipts of those blocks were written before.
THEOREM NoDipTheorem ==
    (Steady /\ Birthday <= 2) => (Spec => NoDip)
<1> SUFFICES ASSUME Steady, Birthday <= 2
             PROVE  Spec => NoDip
    OBVIOUS
<1>1. Init => SteadyInv
  BY SteadyInit
<1>2. SteadyInv /\ LedgerInv /\ [Next]_vars => SteadyInv'
  <2> SUFFICES ASSUME SteadyInv, LedgerInv, [Next]_vars
               PROVE  SteadyInv'
      OBVIOUS
  <2>1. SteadyReads'
    BY SteadyReadsStep DEF SteadyInv
  <2>2. \A t \in Txs : SteadyRow(t)'
    BY SteadyRowStep DEF SteadyInv, SteadyRows, SteadyRow
  <2> QED
    BY <2>1, <2>2 DEF SteadyInv, SteadyRows, SteadyRow
<1>3. SteadyInv /\ LedgerInv /\ TotalsMatchReceipts /\ TotalsMatchReceipts' /\ [Next]_vars
        => [\A t \in Txs : Counted(t) => Counted(t)']_vars
  <2> SUFFICES ASSUME SteadyInv, LedgerInv, TotalsMatchReceipts, TotalsMatchReceipts',
                      [Next]_vars, NEW t \in Txs, Counted(t)
               PROVE  Counted(t)'
      OBVIOUS
  <2>1. CountedRow(t)
    BY DEF TotalsMatchReceipts, CountedRow
  <2>2. CountedRow(t)'
    BY <2>1, SteadyRowStep DEF SteadyInv, SteadyRows, SteadyRow
  <2> QED
    BY <2>2 DEF TotalsMatchReceipts, CountedRow
<1> QED
  BY <1>1, <1>2, <1>3, LedgerInvariance, TotalsTheorem, PTL DEF Spec, NoDip

-----------------------------------------------------------------------------
(* An iteration during which nothing moved.                                *)

\* Only the tip sample starts a quiet iteration.
LEMMA QuietKinds ==
    ASSUME [Next]_vars, quiet', ~SampleTip
    PROVE  quiet /\ UNCHANGED network /\ \A t \in Txs : ~Age(t)
<1>1. Network => quiet' = FALSE
  BY DEF Network, Broadcast, Evict, Age, Mine, Rewind, Moved
<1>2. ~Network /\ \A t \in Txs : ~Age(t)
  BY <1>1 DEF Network
<1>3. CASE IterationFails \/ CrashAndRestart
  BY <1>2, <1>3 DEF IterationFails, CrashAndRestart, GiveUp
<1>4. CASE ReconcileCurrentMempool \/ ReconcilePeriodically
  BY <1>2, <1>4 DEF ReconcileCurrentMempool, ReconcilePeriodically, ReconcileMempool
<1>5. CASE RevokeAboveTip \/ ReconcileOverlap \/ QueueReorgAffected \/ MarkCatchingUp
           \/ ScanBatchStep \/ QueueBatch \/ RecordBatch \/ AdvanceReceiptMaturity
           \/ QueueMatured
  BY <1>2, <1>5
  DEF RevokeAboveTip, ReconcileOverlap, QueueReorgAffected, MarkCatchingUp,
      ScanBatchStep, QueueBatch, RecordBatch, AdvanceReceiptMaturity, QueueMatured, Goto
<1>6. CASE FetchMempoolTxids \/ QueueMempool \/ RecordStatus \/ QueuePeriodic \/ Wake
  BY <1>2, <1>6 DEF FetchMempoolTxids, QueueMempool, RecordStatus, QueuePeriodic, Wake, Goto
<1>7. ASSUME NEW k, DownloadBatch(k)
      PROVE  quiet /\ UNCHANGED network
  BY <1>7 DEF DownloadBatch
<1>8. CASE UNCHANGED vars
  BY <1>2, <1>8 DEF vars, network
<1> QED
  BY <1>2, <1>3, <1>4, <1>5, <1>6, <1>7, <1>8 DEF Next, Sync

\* The phases after the maturity pass are entered through it, those of the
\* mempool only when mempool receipts count.
LEMMA LaterPhases ==
    ASSUME [Next]_vars
    PROVE  /\ pc' \in AfterScan =>
                \/ pc \in AfterScan /\ UNCHANGED << tip, cursor >>
                \/ AdvanceReceiptMaturity
           /\ pc' \in MempoolPhase \cup {"queue_mempool"} =>
                pc \in MempoolPhase \cup {"queue_mempool"} \/ ReportConf = 0
<1> USE DEF AfterScan, MempoolPhase
<1>1. CASE Network \/ UNCHANGED vars
  BY <1>1, NetworkPlan DEF vars, task
<1>2. CASE IterationFails \/ CrashAndRestart \/ SampleTip \/ Wake
  BY <1>2 DEF IterationFails, CrashAndRestart, GiveUp, SampleTip, Wake, Goto
<1>3. CASE RevokeAboveTip \/ ReconcileOverlap \/ QueueReorgAffected \/ MarkCatchingUp
           \/ ScanBatchStep \/ QueueBatch \/ RecordBatch
  BY <1>3 DEF RevokeAboveTip, ReconcileOverlap, QueueReorgAffected, MarkCatchingUp,
              ScanBatchStep, QueueBatch, RecordBatch, Goto
<1>4. CASE QueueMatured \/ FetchMempoolTxids \/ QueueMempool \/ RecordStatus \/ QueuePeriodic
  BY <1>4 DEF QueueMatured, FetchMempoolTxids, QueueMempool, RecordStatus,
              QueuePeriodic, Goto, task
<1>5. CASE ReconcileCurrentMempool \/ ReconcilePeriodically
  BY <1>5 DEF ReconcileCurrentMempool, ReconcilePeriodically, ReconcileMempool
<1>6. ASSUME NEW k, DownloadBatch(k)
      PROVE  pc' = pc /\ UNCHANGED << tip, cursor >>
  BY <1>6 DEF DownloadBatch
<1>7. CASE AdvanceReceiptMaturity
  BY <1>7 DEF AdvanceReceiptMaturity, Goto
<1> QED
  BY <1>1, <1>2, <1>3, <1>4, <1>5, <1>6, <1>7 DEF Next, Sync

LEMMA QuietReadsStep ==
    ASSUME LedgerInv, QuietReads, [Next]_vars
    PROVE  QuietReads'
<1> USE DEF LedgerInv
<1>1. ASSUME quiet', pc' # "idle", SampleTip
      PROVE  /\ tip' = Len(chain)' /\ fetched' = {} /\ pc' \notin MempoolPhase
  <2>1. fetched = {}
    BY <1>1 DEF SampleTip, ControlInv, FetchedOK, Scanning
  <2> QED
    BY <1>1, <2>1 DEF SampleTip, network, MempoolPhase
<1>2. ASSUME quiet', pc' # "idle", ~SampleTip
      PROVE  /\ tip' = Len(chain)'
             /\ \A f \in fetched' : \A h \in HeightsOf(f.batch) : f.blocks[h] = BlockAt(h)'
             /\ pc' \in MempoolPhase => snapshot' = mempool'
  <2>1. quiet /\ UNCHANGED network
    BY <1>2, QuietKinds
  <2>2. \A h : BlockAt(h)' = BlockAt(h)
    BY <2>1 DEF network, BlockAt
  <2>3. pc # "idle" /\ tip' = tip
    BY <1>2, PlanKinds DEF Planned, MarkCatchingUp, RecordBatch, RecordStatus, task
  <2>4. /\ tip = Len(chain)
        /\ \A f \in fetched : \A h \in HeightsOf(f.batch) : f.blocks[h] = BlockAt(h)
        /\ pc \in MempoolPhase => snapshot = mempool
    BY <2>1, <2>3 DEF QuietReads
  <2>5. ASSUME NEW f \in fetched', NEW h \in HeightsOf(f.batch)
        PROVE  f.blocks[h] = BlockAt(h)
    <3>1. \/ fetched' \subseteq fetched
          \/ \E k \in 0 .. (Ahead - 1) : DownloadBatch(k)
      BY FetchedKinds
      DEF Waits, SampleTip, RecordBatch, AdvanceReceiptMaturity, task
    <3>2. ASSUME NEW k \in 0 .. (Ahead - 1), DownloadBatch(k), f \notin fetched
          PROVE  f.blocks[h] = BlockAt(h)
      <4>1. PICK batch : f = [batch |-> batch, blocks |-> Read(batch)]
        BY <3>2 DEF DownloadBatch
      <4>2. f.batch = batch /\ f.blocks = Read(batch)
        BY <4>1
      <4> QED
        BY <2>5, <4>2 DEF Read
    <3> QED
      BY <2>4, <2>5, <3>1, <3>2
  <2>6. ASSUME pc' \in MempoolPhase
        PROVE  snapshot' = mempool'
    <3>1. (snapshot' = snapshot /\ pc' = pc) \/ FetchMempoolTxids
      BY <2>6, SnapshotKinds DEF ContentOK, MempoolPhase
    <3> QED
      BY <2>1, <2>4, <2>6, <3>1 DEF FetchMempoolTxids, network
  <2> QED
    BY <2>1, <2>2, <2>3, <2>4, <2>5, <2>6 DEF network
<1>3. pc' \in MempoolPhase \cup {"queue_mempool"} => ReportConf = 0
  BY LaterPhases DEF QuietReads
<1> QED
  BY <1>1, <1>2, <1>3 DEF QuietReads

\* A range read as the chain has it is exact afterwards; so is what was exact.
LEMMA QuietRange ==
    ASSUME LedgerInv, NEW S \in SUBSET Nat, NEW blocks \in [S -> SUBSET Txs],
           \A g \in S : blocks[g] = BlockAt(g),
           Commit(ReconciledInRange(blocks, tip), tip), UNCHANGED network,
           NEW h \in Nat, h \in S \/ Exact(h)
    PROVE  Exact(h)'
<1>1. TypeOK /\ \A g, k \in Nat : g # k => BlockAt(g) \cap BlockAt(k) = {}
  BY DEF LedgerInv, ControlInv, NetOK
<1>2. \A g, k \in S : g # k => blocks[g] \cap blocks[k] = {}
  BY <1>1
<1>3. h \notin S => \A g \in S : blocks[g] \cap BlockAt(h) = {}
  BY <1>1
<1> QED
  BY <1>1, <1>2, <1>3, ReconciledExact

\* After the overlap of a quiet iteration every height below the cursor is
\* exact: it was read again, or it was final when it was recorded.
LEMMA QuietOverlap ==
    ASSUME LedgerInv, [Next]_vars, ReconcileOverlap, NEW h \in Nat, h >= Birthday, h < cursor
    PROVE  Exact(h)'
<1> USE ControlFacts DEF LedgerInv
<1>0. TypeOK /\ pc = "overlap"
  BY DEF ControlInv, ReconcileOverlap
<1>1. CASE h + Finality <= tip
  BY <1>1, OverlapExact
<1>2. CASE ~(h + Finality <= tip)
  <2>1. cursor = Birthday \/ cursor = Lower(meta.scanned, tip) + 1
    BY <1>0 DEF ControlInv, PlanOK
  <2> DEFINE end == Lower(meta.scanned, tip)
  <2>2. end \in Nat /\ end <= tip
    BY DEF Lower
  <2>3. h \in Birthday .. end /\ h + Finality > end
    BY <1>2, <2>1, <2>2
  <2>4. h \in HeightsOf(OverlapBatch)
    BY <2>3, OverlapRange DEF OverlapBatch
  <2> DEFINE S == HeightsOf(OverlapBatch)
             blocks == Read(OverlapBatch)
  <2>5. S \in SUBSET Nat /\ blocks \in [S -> SUBSET Txs]
    BY <1>0, OverlapType, ReadType
  <2>6. \A g \in S : blocks[g] = BlockAt(g)
    BY DEF Read
  <2>7. Commit(ReconciledInRange(blocks, tip), tip) /\ UNCHANGED network
    BY DEF ReconcileOverlap, Goto
  <2> HIDE DEF blocks
  <2> QED
    BY <2>4, <2>5, <2>6, <2>7, QuietRange
<1> QED
  BY <1>1, <1>2

\* A scanned batch of a quiet iteration is exact, and keeps what was.
LEMMA QuietScan ==
    ASSUME LedgerInv, QuietReads, quiet, ScanBatchStep, NEW h \in Nat,
           h \in HeightsOf(CurrentBatch) \/ Exact(h)
    PROVE  Exact(h)'
<1> USE ControlFacts DEF LedgerInv
<1>1. PICK f \in fetched : /\ f.batch.start = cursor
                           /\ Commit(ReconciledInRange(f.blocks, tip), tip)
  BY DEF ScanBatchStep
<1>2. f.batch = CurrentBatch
  BY <1>1, RecordedBatch
<1> DEFINE S == HeightsOf(f.batch)
<1>3. S \in SUBSET Nat /\ f.blocks \in [S -> SUBSET Txs]
  BY ReadType DEF ControlInv, FetchedOK
<1>4. \A g \in S : f.blocks[g] = BlockAt(g)
  BY DEF QuietReads, ScanBatchStep
<1>5. UNCHANGED network /\ (h \in S \/ Exact(h))
  BY <1>2 DEF ScanBatchStep, Goto
<1> HIDE DEF S
<1> QED
  BY <1>1, <1>3, <1>4, <1>5, QuietRange

\* The other steps of a quiet iteration keep what is exact.
LEMMA QuietExactKept ==
    ASSUME LedgerInv, QuietReads, quiet', ~SampleTip, pc # "revoke", [Next]_vars,
           ~ReconcileOverlap, ~ScanBatchStep, NEW h \in Nat, Exact(h)
    PROVE  Exact(h)'
<1> USE DEF LedgerInv
<1>0. TypeOK /\ quiet /\ UNCHANGED network /\ \A t \in Txs : ~Age(t)
  BY QuietKinds DEF ControlInv
<1>1. BlockAt(h)' = BlockAt(h)
  BY <1>0 DEF network, BlockAt
<1>2. CASE rows' = rows
  BY <1>1, <1>2 DEF Exact, MinedAt
<1>3. CASE AdvanceReceiptMaturity
  <2>1. \A t \in Txs : MinedAt(t, h)' <=> MinedAt(t, h)
    BY <1>0, <1>3, MaturedMined DEF AdvanceReceiptMaturity, Commit
  <2> QED
    BY <1>1, <2>1 DEF Exact
<1>4. CASE ReconcileCurrentMempool \/ ReconcilePeriodically
  <2> DEFINE known == {t \in Txs : rows[t].kind = "mempool" /\ rows[t].active}
             found == (snapshot \ known) \cap (mempool \cup OnChain)
  <2>1. \E flag : rows' = MempoolReconciled(snapshot, found, flag)
    BY <1>4 DEF ReconcileCurrentMempool, ReconcilePeriodically, ReconcileMempool, Commit
  <2>2. snapshot = mempool
    BY <1>0, <1>4
    DEF QuietReads, MempoolPhase, ReconcileCurrentMempool, ReconcilePeriodically
  <2>3. found \cap BlockAt(h) = {}
    BY <2>2 DEF ControlInv, NetOK
  <2> HIDE DEF found
  <2>4. \A t \in Txs : MinedAt(t, h)' <=> MinedAt(t, h) /\ t \notin found
    BY <1>0, <2>1, MempoolMined
  <2> QED
    BY <1>1, <2>3, <2>4 DEF Exact
<1>5. ~RevokeAboveTip
  BY DEF RevokeAboveTip
<1> QED
  BY <1>0, <1>2, <1>3, <1>4, <1>5, RowKinds

LEMMA QuietExactStep ==
    ASSUME LedgerInv, QuietReads, QuietExact, [Next]_vars
    PROVE  QuietExact'
<1> USE ControlFacts DEF LedgerInv
<1>0. ASSUME pc' \in ReadPhase \cup AfterScan
      PROVE  ~SampleTip /\ pc # "revoke"
  BY <1>0, Phases, LaterPhases
  DEF SampleTip, RecordBatch, ReconcileOverlap, AdvanceReceiptMaturity, ReadPhase,
      AfterScan, MempoolPhase, Scanning
<1>1. ASSUME quiet', pc' \in ReadPhase \cup AfterScan, NEW h \in Nat, h >= Birthday,
             h < cursor'
      PROVE  Exact(h)'
  <2>0. quiet /\ ~SampleTip /\ pc # "revoke"
    BY <1>0, <1>1, QuietKinds
  <2>1. CASE ReconcileOverlap
    <3>1. cursor' = cursor
      BY <2>1 DEF ReconcileOverlap, task
    <3> QED
      BY <1>1, <2>1, <3>1, QuietOverlap
  <2>2. CASE ScanBatchStep
    <3>1. cursor' = cursor /\ pc \in ReadPhase
      BY <2>2 DEF ScanBatchStep, task, ReadPhase, Scanning
    <3>2. Exact(h)
      BY <1>1, <2>0, <3>1 DEF QuietExact
    <3> QED
      BY <2>0, <2>2, <3>2, QuietScan
  <2>3. CASE RecordBatch
    <3>1. PICK f \in fetched : f.batch.start = cursor /\ cursor' = f.batch.end + 1
      BY <2>3 DEF RecordBatch
    <3>2. f.batch = CurrentBatch /\ f.batch.end \in Nat
      BY <3>1, RecordedBatch
    <3>3. pc \in BatchPhase /\ pc \in ReadPhase
      BY <2>3 DEF RecordBatch, BatchPhase, ReadPhase, Scanning
    <3>4. h >= cursor => h \in HeightsOf(CurrentBatch)
      BY <1>1, <3>1, <3>2 DEF HeightsOf
    <3>5. Exact(h)
      BY <1>1, <2>0, <3>3, <3>4 DEF QuietExact
    <3>6. ~ReconcileOverlap /\ ~ScanBatchStep
      BY <2>3 DEF RecordBatch, ReconcileOverlap, ScanBatchStep
    <3> QED
      BY <1>1, <2>0, <3>5, <3>6, QuietExactKept
  <2>4. CASE ~ReconcileOverlap /\ ~ScanBatchStep /\ ~RecordBatch
    <3>1. pc \in ReadPhase \cup AfterScan /\ cursor' = cursor
      BY <1>1, <2>4, Phases, LaterPhases
      DEF AdvanceReceiptMaturity, task, ReadPhase, Scanning
    <3>2. Exact(h)
      BY <1>1, <2>0, <3>1 DEF QuietExact
    <3> QED
      BY <1>1, <2>0, <2>4, <3>2, QuietExactKept
  <2> QED
    BY <2>1, <2>2, <2>3, <2>4
<1>2. ASSUME quiet', pc' \in BatchPhase, NEW h \in HeightsOf(CurrentBatch)'
      PROVE  Exact(h)'
  <2>0. /\ quiet /\ ~SampleTip /\ pc # "revoke"
        /\ (pc \in BatchPhase /\ UNCHANGED << tip, cursor >>) \/ ScanBatchStep
    BY <1>0, <1>2, QuietKinds, Phases DEF ReadPhase, BatchPhase, Scanning
  <2>1. UNCHANGED << tip, cursor >>
    BY <2>0 DEF ScanBatchStep, task
  <2>2. h \in HeightsOf(CurrentBatch) /\ h \in Nat
    <3>1. HeightsOf(CurrentBatch)' = HeightsOf(CurrentBatch)
      BY <2>1 DEF CurrentBatch, HeightsOf
    <3> QED
      BY <1>2, <3>1, BatchHeights
  <2>3. CASE ScanBatchStep
    BY <2>0, <2>2, <2>3, QuietScan
  <2>4. CASE ~ScanBatchStep
    <3>1. pc \in BatchPhase /\ ~ReconcileOverlap
      BY <2>0, <2>4 DEF ReconcileOverlap, BatchPhase
    <3>2. Exact(h)
      BY <2>0, <2>2, <3>1 DEF QuietExact
    <3> QED
      BY <1>2, <2>0, <2>2, <2>4, <3>1, <3>2, QuietExactKept
  <2> QED
    BY <2>3, <2>4
<1>3. pc' \in AfterScan => cursor' > tip'
  <2>1. AdvanceReceiptMaturity => cursor' > tip'
    BY DEF AdvanceReceiptMaturity, task
  <2> QED
    BY <2>1, LaterPhases DEF QuietExact
<1> QED
  BY <1>1, <1>2, <1>3 DEF QuietExact

-----------------------------------------------------------------------------
(* What a step does to one receipt, whatever the step.                     *)

\* The receipt is written as mined at a height the iteration reads or already
\* has it at; or only its activity is lowered; or the mempool takes it.
RowUpdate(t) ==
    \/ \E h \in Nat : /\ rows'[t] = MinedRow(h, tip)
                      /\ h >= Birthday \/ (rows[t].kind = "mined" /\ rows[t].height = h)
    \/ rows'[t] = rows[t]
    \/ SameRow(t, FALSE)
    \/ /\ rows'[t].kind = "mempool" /\ rows'[t].active
       /\ rows'[t].eligible => ReportConf = 0

LEMMA RangeUpdate ==
    ASSUME TypeOK, NEW S \in SUBSET Nat, NEW blocks \in [S -> SUBSET Txs],
           \A h \in S : h >= Birthday, rows' = ReconciledInRange(blocks, tip),
           rows' \in [Txs -> Row], NEW t \in Txs
    PROVE  RowUpdate(t)
<1> DEFINE kept == rows[t].active /\ ~(rows[t].kind = "mined" /\ rows[t].height \in S)
<1>1. CASE \E h \in S : rows'[t] = MinedRow(h, tip)
  BY <1>1 DEF RowUpdate
<1>2. CASE SameRow(t, kept)
  <2>1. CASE kept
    <3>1. rows[t] \in Row /\ rows'[t] \in Row /\ SameRow(t, rows[t].active)
      BY <1>2, <2>1 DEF TypeOK, SameRow
    <3>2. rows'[t] = rows[t]
      BY <3>1 DEF SameRow, Row
    <3> QED
      BY <3>2 DEF RowUpdate
  <2>2. CASE ~kept
    BY <1>2, <2>2 DEF RowUpdate, SameRow
  <2> QED
    BY <2>1, <2>2
<1> QED
  BY <1>1, <1>2, ReconciledRow

LEMMA RowUpdateStep ==
    ASSUME ControlInv, [Next]_vars, \A u \in Txs : ~Age(u), NEW t \in Txs
    PROVE  RowUpdate(t)
<1> USE ControlFacts
<1>0. TypeOK /\ rows[t] \in Row /\ rows'[t] \in Row /\ rows' \in [Txs -> Row]
  BY LedgerType DEF ControlInv, TypeOK
<1>1. CASE rows' = rows
  BY <1>1 DEF RowUpdate
<1>2. CASE rows' = RevokedAboveTip(tip)
  <2> DEFINE kept == rows[t].active /\ ~(rows[t].kind = "mined" /\ rows[t].height > tip)
  <2>1. SameRow(t, kept)
    BY <1>0, <1>2, RevokedRow
  <2>2. CASE kept
    <3>1. SameRow(t, rows[t].active)
      BY <2>1, <2>2 DEF SameRow
    <3>2. rows'[t] = rows[t]
      BY <1>0, <3>1 DEF SameRow, Row
    <3> QED
      BY <3>2 DEF RowUpdate
  <2>3. CASE ~kept
    BY <2>1, <2>3 DEF RowUpdate, SameRow
  <2> QED
    BY <2>2, <2>3
<1>3. CASE ReconcileOverlap
  <2> DEFINE S == HeightsOf(OverlapBatch)
             blocks == Read(OverlapBatch)
  <2>1. S \in SUBSET Nat /\ blocks \in [S -> SUBSET Txs]
    BY <1>0, OverlapType, ReadType
  <2>2. \A h \in S : h >= Birthday
    BY OverlapRange DEF OverlapBatch
  <2>3. rows' = ReconciledInRange(blocks, tip)
    BY <1>3 DEF ReconcileOverlap, Commit
  <2> HIDE DEF S, blocks
  <2> QED
    BY <1>0, <2>1, <2>2, <2>3, RangeUpdate
<1>4. CASE ScanBatchStep
  <2>1. PICK f \in fetched : /\ f.batch.start = cursor
                             /\ Commit(ReconciledInRange(f.blocks, tip), tip)
    BY <1>4 DEF ScanBatchStep
  <2> DEFINE S == HeightsOf(f.batch)
  <2>2. S \in SUBSET Nat /\ f.blocks \in [S -> SUBSET Txs]
    BY <1>0, ReadType DEF ControlInv, FetchedOK
  <2>3. cursor >= Birthday
    BY <1>4 DEF ScanBatchStep, ControlInv, PlanOK
  <2>4. \A h \in S : h >= Birthday
    <3>1. \A h \in S : h \in Nat /\ h >= cursor
      BY <2>1, RecordedBatch, CurrentBelow
    <3> QED
      BY <2>3, <3>1
  <2>5. rows' = ReconciledInRange(f.blocks, tip)
    BY <2>1 DEF Commit
  <2> HIDE DEF S
  <2> QED
    BY <1>0, <2>2, <2>4, <2>5, RangeUpdate
<1>5. CASE AdvanceReceiptMaturity
  <2>1. rows'[t] = IF rows[t].kind = "mined" /\ rows[t].active
                   THEN MinedRow(rows[t].height, tip) ELSE rows[t]
    BY <1>5 DEF AdvanceReceiptMaturity, Commit, Matured
  <2> QED
    BY <1>0, <2>1, RowFields DEF RowUpdate
<1>6. CASE ReconcileCurrentMempool \/ ReconcilePeriodically
  <2>1. PICK seen, found, flag : rows' = MempoolReconciled(seen, found, flag)
    BY <1>6 DEF ReconcileCurrentMempool, ReconcilePeriodically, ReconcileMempool, Commit
  <2>2. MempoolUpdate(t, seen, found, flag)
    BY <1>0, <2>1, MempoolRow
  <2> QED
    BY <2>2 DEF MempoolUpdate, RowUpdate
<1>7. RevokeAboveTip => rows' = RevokedAboveTip(tip) \/ rows' = rows
  BY DEF RevokeAboveTip, Commit, ledger
<1> QED
  BY <1>1, <1>2, <1>3, <1>4, <1>5, <1>6, <1>7, RowKinds

LEMMA BirthdayStep ==
    ASSUME ControlInv, BirthdayOK, [Next]_vars
    PROVE  BirthdayOK'
<1> SUFFICES ASSUME NEW t \in Txs, rows'[t].kind = "mined"
             PROVE  rows'[t].height >= Birthday
    BY DEF BirthdayOK
<1>1. CASE \E u \in Txs : Age(u)
  BY <1>1, AgeRows DEF BirthdayOK, ControlInv
<1>2. CASE \A u \in Txs : ~Age(u)
  <2>1. RowUpdate(t)
    BY <1>2, RowUpdateStep
  <2>2. ASSUME NEW h \in Nat, rows'[t] = MinedRow(h, tip)
        PROVE  rows'[t].height = h
    BY <2>2 DEF MinedRow
  <2> QED
    BY <2>1, <2>2 DEF RowUpdate, BirthdayOK, SameRow
<1> QED
  BY <1>1, <1>2

LEMMA MaturedStep ==
    ASSUME ControlInv, MaturedOK, [Next]_vars
    PROVE  MaturedOK'
<1> SUFFICES ASSUME pc' \in AfterScan, NEW t \in Txs, rows'[t].kind = "mined", rows'[t].active
             PROVE  /\ rows'[t].depth = DepthAt(tip', rows'[t].height)
                    /\ rows'[t].eligible = (rows'[t].depth >= ReportConf)
    BY DEF MaturedOK
<1>0. TypeOK
  BY DEF ControlInv
<1>1. CASE AdvanceReceiptMaturity
  <2>1. /\ rows'[t] = IF rows[t].kind = "mined" /\ rows[t].active
                      THEN MinedRow(rows[t].height, tip) ELSE rows[t]
        /\ tip' = tip
    BY <1>1 DEF AdvanceReceiptMaturity, Commit, Matured, task
  <2>2. rows'[t] = MinedRow(rows[t].height, tip)
    BY <2>1
  <2> QED
    BY <2>1, <2>2 DEF MinedRow
<1>2. CASE ~AdvanceReceiptMaturity
  <2>1. pc \in AfterScan /\ tip' = tip
    BY <1>2, LaterPhases
  <2>2. CASE \E u \in Txs : Age(u)
    BY <1>0, <2>1, <2>2, AgeRows DEF MaturedOK
  <2>3. CASE \A u \in Txs : ~Age(u)
    <3>1. RowUpdate(t)
      BY <2>3, RowUpdateStep
    <3>2. ASSUME NEW h \in Nat, rows'[t] = MinedRow(h, tip)
          PROVE  /\ rows'[t].depth = DepthAt(tip', rows'[t].height)
                 /\ rows'[t].eligible = (rows'[t].depth >= ReportConf)
      BY <2>1, <3>2 DEF MinedRow
    <3> QED
      BY <2>1, <3>1, <3>2 DEF RowUpdate, MaturedOK, SameRow
  <2> QED
    BY <2>2, <2>3
<1> QED
  BY <1>1, <1>2

\* A mempool reconciliation that may revoke is the only way to settle, and
\* until the next iteration nothing but the periodic one touches it.
LEMMA SettledKinds ==
    ASSUME [Next]_vars, MempoolSettled'
    PROVE  /\ quiet /\ UNCHANGED network /\ ReportConf = 0 /\ \A t \in Txs : ~Age(t)
           /\ \/ rows' = rows /\ MempoolSettled
              \/ ReconcilePeriodically /\ MempoolSettled
              \/ ReconcileCurrentMempool /\ NewLastScanned >= tip
<1> USE DEF MempoolSettled
<1>0. /\ quiet' /\ ReportConf = 0
      /\ pc' \in {"queue_mempool", "record", "waiting", "periodic", "queue_periodic"}
  OBVIOUS
<1>1. quiet /\ UNCHANGED network /\ \A t \in Txs : ~Age(t)
  <2>1. ~SampleTip
    BY <1>0 DEF SampleTip
  <2> QED
    BY <1>0, <2>1, QuietKinds
<1>2. ~Network
  BY <1>0 DEF Network, Broadcast, Evict, Age, Mine, Rewind, Moved
<1>3. ~(IterationFails \/ CrashAndRestart \/ Wake \/ SampleTip \/ RevokeAboveTip
        \/ ReconcileOverlap \/ QueueReorgAffected \/ MarkCatchingUp)
  BY <1>0 DEF IterationFails, CrashAndRestart, GiveUp, Wake, SampleTip, RevokeAboveTip,
              ReconcileOverlap, QueueReorgAffected, MarkCatchingUp, Goto
<1>4. ~(ScanBatchStep \/ QueueBatch \/ RecordBatch \/ AdvanceReceiptMaturity \/ QueueMatured)
  BY <1>0 DEF ScanBatchStep, QueueBatch, RecordBatch, AdvanceReceiptMaturity,
              QueueMatured, Goto
<1>5. \A k : ~DownloadBatch(k)
  BY <1>0 DEF DownloadBatch
<1>6. CASE FetchMempoolTxids
  BY <1>1, <1>6 DEF FetchMempoolTxids, Goto, ledger, recorded
<1>7. CASE QueueMempool \/ QueuePeriodic
  BY <1>1, <1>7
  DEF QueueMempool, QueuePeriodic, Goto, QueueAffected, NewLastScanned, recorded, task
<1>8. CASE RecordStatus
  BY <1>1, <1>8 DEF RecordStatus, RecordSyncStatus, Goto, ledger, NewLastScanned, task
<1>9. CASE ReconcileCurrentMempool
  BY <1>1, <1>9
  DEF ReconcileCurrentMempool, ReconcileMempool, NewLastScanned, recorded
<1>10. CASE ReconcilePeriodically
  BY <1>1, <1>10 DEF ReconcilePeriodically, ReconcileMempool, recorded
<1>11. CASE UNCHANGED vars
  BY <1>0, <1>1, <1>11 DEF vars, NewLastScanned
<1> QED
  BY <1>0, <1>1, <1>2, <1>3, <1>4, <1>5, <1>6, <1>7, <1>8, <1>9, <1>10, <1>11 DEF Next, Sync

\* What a settled mempool means for one transaction.
Settled(t) ==
    /\ t \in mempool <=> (rows[t].kind = "mempool" /\ rows[t].active)
    /\ t \in mempool => rows[t].eligible = rows[t].fresh

LEMMA SettledStep ==
    ASSUME LedgerInv, QuietReads, [Next]_vars, MempoolSettled', NEW t \in Txs,
           MempoolSettled => Settled(t)
    PROVE  Settled(t)'
<1> USE ControlFacts DEF LedgerInv
<1>0. /\ TypeOK /\ quiet /\ UNCHANGED network /\ ReportConf = 0
      /\ mempool' = mempool /\ mempool \in SUBSET Txs
  BY SettledKinds, NetTypes DEF ControlInv, network
<1>1. CASE rows' = rows /\ MempoolSettled
  BY <1>0, <1>1 DEF Settled
<1> DEFINE known == {u \in Txs : rows[u].kind = "mempool" /\ rows[u].active}
           found == (snapshot \ known) \cap (mempool \cup OnChain)
<1>2. ASSUME ReconcilePeriodically \/ ReconcileCurrentMempool, quiet'
      PROVE  \E flag \in BOOLEAN :
                 /\ rows' = MempoolReconciled(snapshot, found, flag)
                 /\ ReconcileCurrentMempool /\ NewLastScanned >= tip => flag
                 /\ snapshot = mempool
  <2>1. snapshot = mempool /\ tip = Len(chain)
    BY <1>0, <1>2
    DEF QuietReads, MempoolPhase, ReconcileCurrentMempool, ReconcilePeriodically
  <2>2. TipConfirmed
    BY <2>1 DEF TipConfirmed
  <2>3. CASE ReconcileCurrentMempool
    <3>1. Commit(MempoolReconciled(snapshot, found, NewLastScanned >= tip /\ TipConfirmed), tip)
      BY <1>2, <2>3 DEF ReconcileCurrentMempool, ReconcileMempool
    <3> QED
      BY <2>1, <2>2, <2>3, <3>1 DEF Commit
  <2>4. CASE ReconcilePeriodically
    <3>1. Commit(MempoolReconciled(snapshot, found, FALSE /\ TipConfirmed), tip)
      BY <1>2, <2>4 DEF ReconcilePeriodically, ReconcileMempool
    <3>2. ~ReconcileCurrentMempool
      BY <2>4 DEF ReconcilePeriodically, ReconcileCurrentMempool
    <3> QED
      BY <2>1, <3>1, <3>2 DEF Commit
  <2> QED
    BY <1>2, <2>3, <2>4
<1>3. CASE \/ ReconcilePeriodically /\ MempoolSettled
           \/ ReconcileCurrentMempool /\ NewLastScanned >= tip
  <2>1. quiet'
    BY DEF MempoolSettled
  <2>2. PICK flag \in BOOLEAN :
             /\ rows' = MempoolReconciled(snapshot, found, flag)
             /\ ReconcileCurrentMempool /\ NewLastScanned >= tip => flag
             /\ snapshot = mempool
    BY <1>2, <1>3, <2>1
  <2>3. MempoolUpdate(t, snapshot, found, flag)
    BY <1>0, <2>2, MempoolRow
  <2>4. t \in found <=> t \in mempool /\ ~(rows[t].kind = "mempool" /\ rows[t].active)
    BY <2>2
  <2> HIDE DEF found, known
  <2>5. CASE t \in found
    <3>1. /\ rows'[t].kind = "mempool" /\ rows'[t].active
          /\ rows'[t].eligible = (rows[t].kind = "mempool" => rows[t].fresh)
          /\ rows'[t].fresh = (rows[t].kind = "mempool" => rows[t].fresh)
      BY <1>0, <2>3, <2>5 DEF MempoolUpdate
    <3> QED
      BY <1>0, <2>4, <2>5, <3>1 DEF Settled
  <2>6. CASE t \notin found /\ ~(rows[t].kind = "mempool" /\ rows[t].active)
    <3>1. rows'[t] = rows[t] /\ t \notin mempool
      BY <2>3, <2>4, <2>6 DEF MempoolUpdate
    <3> QED
      BY <1>0, <2>6, <3>1 DEF Settled
  <2>7. CASE rows[t].kind = "mempool" /\ rows[t].active /\ t \notin mempool
    <3>1. flag /\ t \notin snapshot /\ t \notin found
      BY <1>3, <2>2, <2>4, <2>7 DEF Settled
    <3>2. SameRow(t, FALSE)
      BY <2>3, <2>7, <3>1 DEF MempoolUpdate
    <3> QED
      BY <1>0, <2>7, <3>2 DEF Settled, SameRow
  <2>8. CASE rows[t].kind = "mempool" /\ rows[t].active /\ t \in mempool
    <3>1. t \in snapshot /\ t \notin found
      BY <2>2, <2>4, <2>8
    <3>2. /\ rows'[t].kind = "mempool" /\ rows'[t].active
          /\ rows'[t].eligible = rows[t].fresh /\ rows'[t].fresh = rows[t].fresh
      BY <1>0, <2>3, <2>8, <3>1, RowFields DEF MempoolUpdate, TypeOK
    <3> QED
      BY <1>0, <2>8, <3>2 DEF Settled
  <2> QED
    BY <2>4, <2>5, <2>6, <2>7, <2>8
<1> HIDE DEF found
<1> QED
  BY <1>1, <1>3, SettledKinds

LEMMA MempoolStep ==
    ASSUME LedgerInv, QuietReads, MempoolOK, [Next]_vars
    PROVE  MempoolOK'
<1>0. TypeOK /\ ControlInv
  BY DEF LedgerInv, ControlInv
<1>1. ASSUME NEW t \in Txs
      PROVE  /\ rows'[t].kind = "mempool" /\ rows'[t].eligible => ReportConf = 0
             /\ rows'[t].active => rows'[t].kind # "none"
  <2>1. CASE \E u \in Txs : Age(u)
    BY <1>0, <2>1, AgeRows DEF MempoolOK
  <2>2. CASE \A u \in Txs : ~Age(u)
    <3>1. RowUpdate(t)
      BY <1>0, <2>2, RowUpdateStep
    <3>2. ASSUME NEW h \in Nat, rows'[t] = MinedRow(h, tip)
          PROVE  rows'[t].kind = "mined"
      BY <3>2 DEF MinedRow
    <3> QED
      BY <3>1, <3>2 DEF RowUpdate, MempoolOK, SameRow
  <2> QED
    BY <2>1, <2>2
<1>2. ASSUME MempoolSettled', NEW t \in Txs
      PROVE  Settled(t)'
  BY <1>2, SettledStep DEF MempoolOK, Settled
<1> QED
  BY <1>1, <1>2 DEF MempoolOK, Settled

-----------------------------------------------------------------------------
(* The array of every confirmation depth.                                  *)

RowsKept(a) == \A t \in Txs : Owner[t] = a => rows'[t] = rows[t]

\* An address is recomputed at the iteration's tip, or nothing of it changes.
LEMMA TotalsKinds ==
    ASSUME ControlInv, [Next]_vars, \A t \in Txs : ~Age(t), NEW a \in Addresses
    PROVE  \/ RowsKept(a) /\ totals'[a] = totals[a]
           \/ ~RowsKept(a) /\ totals'[a] = Report(rows', a, tip)
<1>1. CASE LedgerKept
  BY <1>1 DEF LedgerKept, RowsKept
<1>2. ASSUME NEW new \in [Txs -> Row], Commit(new, tip)
      PROVE  \/ RowsKept(a) /\ totals'[a] = totals[a]
             \/ ~RowsKept(a) /\ totals'[a] = Report(rows', a, tip)
  <2> DEFINE ids == {Owner[t] : t \in {u \in Txs : new[u] # rows[u]}}
  <2>1. /\ rows' = new
        /\ totals'[a] = IF a \in ids THEN Report(new, a, tip) ELSE totals[a]
    BY <1>2 DEF Commit
  <2>2. a \in ids <=> ~RowsKept(a)
    BY <2>1 DEF RowsKept
  <2> HIDE DEF ids
  <2> QED
    BY <2>1, <2>2
<1> QED
  BY <1>1, <1>2, LedgerKinds

AtDepth(t) ==
    rows[t].kind = "mined" /\ rows[t].active => rows[t].depth = DepthAt(tip, rows[t].height)

ReportAtTip(a) == totals[a] = Report(rows, a, tip)

\* The report at the tip is what the stored depths say when they are those of
\* the tip.
LEMMA ReportAgrees ==
    ASSUME NEW a, NEW r, NEW top, NEW array, array = Report(r, a, top),
           \A t \in Txs : Owner[t] = a /\ r[t].kind = "mined" /\ r[t].active
                            => r[t].depth = DepthAt(top, r[t].height)
    PROVE  \A i \in 0 .. ArrayDepth :
              array[i] = {t \in Txs :
                  /\ Owner[t] = a /\ r[t].active /\ r[t].eligible
                  /\ i <= IF r[t].kind = "mined" THEN r[t].depth ELSE 0}
<1> SUFFICES ASSUME NEW i \in 0 .. ArrayDepth
             PROVE  array[i] = {t \in Txs :
                      /\ Owner[t] = a /\ r[t].active /\ r[t].eligible
                      /\ i <= IF r[t].kind = "mined" THEN r[t].depth ELSE 0}
    OBVIOUS
<1>1. array[i] = {t \in Txs :
                      /\ Owner[t] = a /\ r[t].active /\ r[t].eligible
                      /\ i <= IF r[t].kind = "mined" THEN DepthAt(top, r[t].height) ELSE 0}
  BY DEF Report
<1> QED
  BY <1>1

\* Neither sees more of the receipts than their fields.
LEMMA ArraysSame ==
    ASSUME NEW a \in Addresses, totals'[a] = totals[a],
           \A t \in Txs : Owner[t] = a =>
              /\ rows'[t].kind = rows[t].kind /\ rows'[t].height = rows[t].height
              /\ rows'[t].active = rows[t].active /\ rows'[t].eligible = rows[t].eligible
              /\ rows'[t].depth = rows[t].depth
    PROVE  /\ DepthsAgree(a) => DepthsAgree(a)'
           /\ tip' = tip => (ReportAtTip(a) => ReportAtTip(a)')
<1>1. \A i :
        {t \in Txs : /\ Owner[t] = a /\ rows'[t].active /\ rows'[t].eligible
                     /\ i <= IF rows'[t].kind = "mined" THEN rows'[t].depth ELSE 0}
      = {t \in Txs : /\ Owner[t] = a /\ rows[t].active /\ rows[t].eligible
                     /\ i <= IF rows[t].kind = "mined" THEN rows[t].depth ELSE 0}
  OBVIOUS
<1>2. Report(rows', a, tip) = Report(rows, a, tip)
  <2>1. \A i :
        {t \in Txs : /\ Owner[t] = a /\ rows'[t].active /\ rows'[t].eligible
                     /\ i <= IF rows'[t].kind = "mined"
                             THEN DepthAt(tip, rows'[t].height) ELSE 0}
      = {t \in Txs : /\ Owner[t] = a /\ rows[t].active /\ rows[t].eligible
                     /\ i <= IF rows[t].kind = "mined"
                             THEN DepthAt(tip, rows[t].height) ELSE 0}
    OBVIOUS
  <2> QED
    BY <2>1 DEF Report
<1> QED
  BY <1>1, <1>2 DEF DepthsAgree, ReportAtTip

\* A receipt that was written is at its depth.
LEMMA WrittenAtDepth ==
    ASSUME ControlInv, [Next]_vars, \A u \in Txs : ~Age(u), tip' = tip, NEW t \in Txs,
           rows'[t] # rows[t]
    PROVE  AtDepth(t)'
<1>1. RowUpdate(t)
  BY RowUpdateStep
<1>2. ASSUME NEW h \in Nat, rows'[t] = MinedRow(h, tip)
      PROVE  AtDepth(t)'
  BY <1>2 DEF MinedRow, AtDepth
<1> QED
  BY <1>1, <1>2 DEF RowUpdate, AtDepth, SameRow

\* A cut iteration is remembered.
LEMMA CutKinds ==
    ASSUME [Next]_vars, ~cut'
    PROVE  /\ ~cut
           /\ pc \in BeforeMatured =>
                (pc' \in BeforeMatured /\ tip' = tip) \/ AdvanceReceiptMaturity
<1> USE DEF BeforeMatured, ReadPhase, Scanning
<1>1. CASE Network \/ UNCHANGED vars
  BY <1>1 DEF vars, Network, Broadcast, Evict, Age, Mine, Rewind, Moved, task
<1>2. CASE IterationFails \/ CrashAndRestart
  BY <1>2 DEF IterationFails, CrashAndRestart, GiveUp
<1>3. CASE SampleTip \/ RevokeAboveTip \/ ReconcileOverlap \/ QueueReorgAffected
           \/ MarkCatchingUp \/ ScanBatchStep \/ QueueBatch \/ RecordBatch
  BY <1>3 DEF SampleTip, RevokeAboveTip, ReconcileOverlap, QueueReorgAffected,
              MarkCatchingUp, ScanBatchStep, QueueBatch, RecordBatch, Goto, task
<1>4. CASE AdvanceReceiptMaturity \/ QueueMatured \/ FetchMempoolTxids \/ QueueMempool
           \/ RecordStatus \/ QueuePeriodic \/ Wake
  BY <1>4 DEF AdvanceReceiptMaturity, QueueMatured, FetchMempoolTxids, QueueMempool,
              RecordStatus, QueuePeriodic, Wake, Goto
<1>5. CASE ReconcileCurrentMempool \/ ReconcilePeriodically
  <2>1. cut' = cut
    BY <1>5 DEF ReconcileCurrentMempool, ReconcilePeriodically, ReconcileMempool
  <2>2. pc \in {"reconcile_mempool", "periodic"}
    BY <1>5 DEF ReconcileCurrentMempool, ReconcilePeriodically
  <2> QED
    BY <2>1, <2>2
<1>6. ASSUME NEW k, DownloadBatch(k)
      PROVE  pc' = pc /\ tip' = tip /\ cut' = cut
  BY <1>6 DEF DownloadBatch
<1> QED
  BY <1>1, <1>2, <1>3, <1>4, <1>5, <1>6 DEF Next, Sync

LEMMA OwnArray ==
    ASSUME ControlInv, ArraysOK, [Next]_vars, \A u \in Txs : ~Age(u), tip' = tip,
           NEW t \in Txs, OnlyReceipt(t)
    PROVE  DepthsAgree(Owner[t])'
<1> DEFINE a == Owner[t]
<1>0. a \in Addresses /\ \A u \in Txs : Owner[u] = a => u = t
  BY SyncAssumption DEF OnlyReceipt
<1>1. CASE RowsKept(a) /\ totals'[a] = totals[a]
  <2>1. DepthsAgree(a)
    BY DEF ArraysOK
  <2> HIDE DEF a
  <2>2. DepthsAgree(a)'
    BY <1>0, <1>1, <2>1, ArraysSame DEF RowsKept
  <2> QED
    BY <2>2 DEF a
<1>2. CASE ~RowsKept(a) /\ totals'[a] = Report(rows', a, tip)
  <2>1. rows'[t] # rows[t]
    BY <1>0, <1>2 DEF RowsKept
  <2>2. AtDepth(t)'
    BY <2>1, WrittenAtDepth
  <2>3. ReportAtTip(a)'
    BY <1>2 DEF ReportAtTip
  <2>4. (\A u \in Txs : Owner[u] = a => AtDepth(u))'
    BY <1>0, <2>2
  <2> HIDE DEF a
  <2>5. DepthsAgree(a)'
    BY <2>3, <2>4, ReportAgrees DEF DepthsAgree, ReportAtTip, AtDepth
  <2> QED
    BY <2>5 DEF a
<1> QED
  BY <1>0, <1>1, <1>2, TotalsKinds

\* An address is at its stored depths, or, before the maturity pass, at the tip.
LEMMA SharedArray ==
    ASSUME ControlInv, MaturedOK', [Next]_vars, \A u \in Txs : ~Age(u),
           tip' = tip, NEW a \in Addresses,
           DepthsAgree(a) \/ (pc \in BeforeMatured /\ ReportAtTip(a)), ~cut'
    PROVE  DepthsAgree(a)' \/ (pc' \in BeforeMatured /\ ReportAtTip(a)')
<1> USE DEF ControlInv
<1>1. CASE RowsKept(a) /\ totals'[a] = totals[a]
  <2>1. /\ DepthsAgree(a) => DepthsAgree(a)'
        /\ ReportAtTip(a) => ReportAtTip(a)'
    BY <1>1, ArraysSame DEF RowsKept
  <2>2. CASE AdvanceReceiptMaturity /\ ReportAtTip(a)
    <3>1. \A t \in Txs : AtDepth(t)'
      BY <2>2 DEF MaturedOK, AtDepth, AdvanceReceiptMaturity, Goto, AfterScan
    <3>2. ReportAtTip(a)'
      BY <2>1, <2>2
    <3> QED
      BY <3>1, <3>2, ReportAgrees DEF DepthsAgree, ReportAtTip, AtDepth
  <2> QED
    BY <2>1, <2>2, CutKinds
<1>2. CASE ~RowsKept(a) /\ totals'[a] = Report(rows', a, tip)
  <2>1. ReportAtTip(a)'
    BY <1>2 DEF ReportAtTip
  <2>2. CASE pc' \in AfterScan
    <3>1. \A t \in Txs : AtDepth(t)'
      BY <2>2 DEF MaturedOK, AtDepth
    <3> QED
      BY <2>1, <3>1, ReportAgrees DEF DepthsAgree, ReportAtTip, AtDepth
  <2>3. rows' # rows
    BY <1>2 DEF RowsKept
  <2>4. CASE RevokeAboveTip \/ ReconcileOverlap \/ ScanBatchStep
    BY <2>1, <2>4 DEF RevokeAboveTip, ReconcileOverlap, ScanBatchStep, Goto,
                      BeforeMatured, ReadPhase, Scanning
  <2>5. CASE AdvanceReceiptMaturity \/ ReconcileCurrentMempool \/ ReconcilePeriodically
    BY <2>2, <2>5 DEF AdvanceReceiptMaturity, ReconcileCurrentMempool,
                      ReconcilePeriodically, Goto, AfterScan
  <2> QED
    BY <2>3, <2>4, <2>5, RowKinds
<1> QED
  BY <1>1, <1>2, TotalsKinds

LEMMA ArraysStep ==
    ASSUME ControlInv, MaturedOK', ArraysOK, [Next]_vars
    PROVE  ArraysOK'
<1>0. \A t \in Txs : Owner[t] \in Addresses
  BY SyncAssumption
<1>1. CASE \E u \in Txs : Age(u)
  <2>1. /\ totals' = totals /\ tip' = tip /\ pc' = pc /\ cut' = cut
        /\ \A t \in Txs :
              /\ rows'[t].kind = rows[t].kind /\ rows'[t].height = rows[t].height
              /\ rows'[t].active = rows[t].active /\ rows'[t].eligible = rows[t].eligible
              /\ rows'[t].depth = rows[t].depth
    BY <1>1, AgeRows DEF ControlInv, Age, task
  <2>2. \A a \in Addresses : /\ DepthsAgree(a) => DepthsAgree(a)'
                             /\ ReportAtTip(a) => ReportAtTip(a)'
    BY <2>1, ArraysSame
  <2> QED
    BY <1>0, <2>1, <2>2 DEF ArraysOK, ReportAtTip, OnlyReceipt
<1>2. CASE \A u \in Txs : ~Age(u)
  <2>1. CASE SampleTip
    <3>1. /\ totals' = totals /\ rows' = rows /\ cut' = cut /\ pc \notin BeforeMatured
      BY <2>1 DEF SampleTip, ledger, BeforeMatured, ReadPhase, Scanning
    <3>2. \A a \in Addresses : DepthsAgree(a) => DepthsAgree(a)'
      BY <3>1, ArraysSame
    <3> QED
      BY <1>0, <3>1, <3>2 DEF ArraysOK, OnlyReceipt
  <2>2. CASE ~SampleTip
    <3>1. tip' = tip
      BY <2>2, PlanKinds DEF Planned, MarkCatchingUp, RecordBatch, RecordStatus, task
    <3>2. ASSUME NEW t \in Txs, OnlyReceipt(t)
          PROVE  DepthsAgree(Owner[t])'
      BY <1>2, <3>1, <3>2, OwnArray
    <3>3. ASSUME ~cut', NEW a \in Addresses
          PROVE  DepthsAgree(a)' \/ (pc' \in BeforeMatured /\ ReportAtTip(a)')
      <4>1. DepthsAgree(a) \/ (pc \in BeforeMatured /\ ReportAtTip(a))
        BY <3>3, CutKinds DEF ArraysOK, ReportAtTip
      <4> QED
        BY <1>2, <3>1, <3>3, <4>1, SharedArray
    <3> QED
      BY <3>2, <3>3 DEF ArraysOK, OnlyReceipt, ReportAtTip
  <2> QED
    BY <2>1, <2>2
<1> QED
  BY <1>1, <1>2

LEMMA QuietInit ==
    ASSUME Init
    PROVE  QuietInv
<1>1. /\ quiet = FALSE /\ pc = "idle" /\ cut = FALSE /\ totals =
            [a \in Addresses |-> [i \in 0 .. ArrayDepth |-> {}]]
      /\ \A t \in Txs : rows[t].kind = "none" /\ ~rows[t].active
  BY DEF Init, NoRow
<1>2. QuietReads /\ QuietExact /\ BirthdayOK /\ MaturedOK /\ MempoolOK
  BY <1>1 DEF QuietReads, QuietExact, BirthdayOK, MaturedOK, MempoolOK, MempoolSettled,
              MempoolPhase, AfterScan, ReadPhase, BatchPhase, Scanning
<1>3. \A a \in Addresses : DepthsAgree(a)
  BY <1>1 DEF DepthsAgree
<1> QED
  BY <1>1, <1>2, <1>3, SyncAssumption DEF QuietInv, ArraysOK

\* The sum the ledger reports is what the invariant says of the stored depths.
LEMMA ReportedBy ==
    ASSUME ControlInv, TotalsMatchReceipts, ArraysOK, QuietEnd, NEW t \in Txs,
           NEW i \in 0 .. ArrayDepth, i = 0 \/ ~cut \/ OnlyReceipt(t)
    PROVE  t \in totals[Owner[t]][i] <=>
              /\ rows[t].active /\ rows[t].eligible
              /\ i <= IF rows[t].kind = "mined" THEN rows[t].depth ELSE 0
<1>0. rows[t].depth \in Nat
  BY RowFields DEF ControlInv, TypeOK
<1>1. CASE i = 0
  <2>1. 0 <= IF rows[t].kind = "mined" THEN rows[t].depth ELSE 0
    BY <1>0
  <2> QED
    BY <1>1, <2>1 DEF TotalsMatchReceipts, Counted
<1>2. CASE ~cut \/ OnlyReceipt(t)
  <2>1. DepthsAgree(Owner[t])
    BY <1>2, SyncAssumption
    DEF ArraysOK, QuietEnd, BeforeMatured, ReadPhase, Scanning
  <2> QED
    BY <2>1 DEF DepthsAgree
<1> QED
  BY <1>1, <1>2

\* QuietIsExact: an iteration during which nothing moved ends with totals equal
\* to what chain and mempool add up to, at every confirmation depth, whatever
\* was left behind before: the overlap and the batches make every height exact,
\* advance_receipt_maturity brings the depths to the tip, and the mempool
\* reconciliation was allowed to revoke (sync_with_lightwalletd_with).
THEOREM QuietTheorem == Spec => []QuietIsExact
<1>1. Init => QuietInv
  BY QuietInit
<1>2. QuietInv /\ LedgerInv /\ [Next]_vars => QuietInv'
  <2> SUFFICES ASSUME QuietInv, LedgerInv, [Next]_vars
               PROVE  QuietInv'
      OBVIOUS
  <2>1. QuietReads' /\ QuietExact' /\ BirthdayOK'
    BY QuietReadsStep, QuietExactStep, BirthdayStep DEF QuietInv, LedgerInv
  <2>2. MaturedOK' /\ MempoolOK'
    BY MaturedStep, MempoolStep DEF QuietInv, LedgerInv
  <2>3. ArraysOK'
    BY <2>2, ArraysStep DEF QuietInv, LedgerInv
  <2> QED
    BY <2>1, <2>2, <2>3 DEF QuietInv
<1>3. QuietInv /\ LedgerInv /\ TotalsMatchReceipts => QuietIsExact
  <2> SUFFICES ASSUME QuietInv, LedgerInv, TotalsMatchReceipts, QuietEnd,
                      NEW t \in Txs, NEW i \in 0 .. ArrayDepth, ~AboveTip(t),
                      i = 0 \/ ~cut \/ OnlyReceipt(t)
               PROVE  t \in totals[Owner[t]][i] <=> t \in TrueReport(Owner[t])[i]
      BY DEF QuietIsExact
  <2> USE ControlFacts DEF LedgerInv, QuietInv
  <2> DEFINE mined == \E h \in DOMAIN chain :
                        /\ h >= Birthday /\ t \in chain[h]
                        /\ Len(chain) - h + 1 >= Higher(i, ReportConf)
             pending == /\ ReportConf = 0 /\ i = 0 /\ t \in mempool
                        /\ rows[t].kind = "mempool" => rows[t].fresh
             counted == /\ rows[t].active /\ rows[t].eligible
                        /\ i <= IF rows[t].kind = "mined" THEN rows[t].depth ELSE 0
  <2>1. t \in TrueReport(Owner[t])[i] <=> mined \/ pending
    BY DEF TrueReport
  <2>2. t \in totals[Owner[t]][i] <=> counted
    BY ReportedBy
  <2>3. /\ rows[t] \in Row /\ rows[t].height \in Nat /\ rows[t].depth \in Nat
        /\ rows[t].kind \in {"none", "mempool", "mined"} /\ i \in Nat /\ ReportConf \in Nat
    BY RowFields, SyncAssumption DEF ControlInv, TypeOK
  <2>4. /\ tip = Len(chain) /\ DOMAIN chain = 1 .. tip /\ cursor > tip
        /\ \A h \in Nat : (h >= Birthday /\ h < cursor) => Exact(h)
    BY NetTypes
    DEF QuietEnd, QuietReads, QuietExact, AfterScan, ReadPhase, Scanning, ControlInv
  <2>5. (rows[t].kind = "mined" /\ rows[t].active) =>
            /\ rows[t].depth = DepthAt(tip, rows[t].height)
            /\ rows[t].eligible = (rows[t].depth >= ReportConf)
    BY DEF QuietEnd, MaturedOK, AfterScan
  <2>6. ReportConf = 0 =>
            /\ t \in mempool <=> (rows[t].kind = "mempool" /\ rows[t].active)
            /\ t \in mempool => rows[t].eligible = rows[t].fresh
    BY DEF QuietEnd, MempoolOK, MempoolSettled
  <2>7. ASSUME mined
        PROVE  counted
    <3>1. PICK h \in DOMAIN chain : /\ h >= Birthday /\ t \in chain[h]
                                    /\ Len(chain) - h + 1 >= Higher(i, ReportConf)
      BY <2>7
    <3>2. h \in Nat /\ h <= tip /\ h < cursor /\ t \in BlockAt(h)
      BY <2>4, <3>1 DEF BlockAt
    <3>3. MinedAt(t, h)
      BY <2>4, <3>1, <3>2 DEF Exact
    <3>4. rows[t].depth = tip - h + 1 /\ rows[t].kind = "mined" /\ rows[t].active
      BY <2>5, <3>2, <3>3 DEF MinedAt, DepthAt
    <3>5. rows[t].depth >= i /\ rows[t].depth >= ReportConf
      BY <2>3, <2>4, <3>1, <3>2, <3>4 DEF Higher
    <3> QED
      BY <2>3, <2>5, <3>4, <3>5
  <2>8. ASSUME pending
        PROVE  counted
    BY <2>6, <2>8
  <2>9. ASSUME counted, rows[t].kind = "mined"
        PROVE  mined
    <3> DEFINE h == rows[t].height
    <3>1. h <= tip /\ h >= Birthday /\ h \in Nat
      BY <2>3, <2>9 DEF AboveTip, BirthdayOK
    <3>2. t \in BlockAt(h)
      BY <2>4, <2>9, <3>1 DEF Exact, MinedAt
    <3>3. h \in DOMAIN chain /\ t \in chain[h]
      BY <3>2 DEF BlockAt
    <3>4. rows[t].depth = tip - h + 1 /\ rows[t].depth >= i /\ rows[t].depth >= ReportConf
      BY <2>3, <2>5, <2>9, <3>1 DEF DepthAt
    <3>5. Len(chain) - h + 1 >= Higher(i, ReportConf)
      BY <2>4, <3>4 DEF Higher
    <3> QED
      BY <3>1, <3>3, <3>5
  <2>10. ASSUME counted, rows[t].kind # "mined"
         PROVE  pending
    <3>1. rows[t].kind = "mempool" /\ i = 0
      BY <2>3, <2>10 DEF MempoolOK
    <3>2. ReportConf = 0
      BY <2>10, <3>1 DEF MempoolOK
    <3> QED
      BY <2>6, <2>10, <3>1, <3>2
  <2> HIDE DEF mined, pending, counted
  <2> QED
    BY <2>1, <2>2, <2>7, <2>8, <2>9, <2>10
<1> QED
  BY <1>1, <1>2, <1>3, LedgerInvariance, TotalsTheorem, PTL DEF Spec

=============================================================================
