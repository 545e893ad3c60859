----------------------------- MODULE ChainSync -----------------------------
(***************************************************************************)
(* The wallet sync loop (src/wallet_runtime.rs) over the receipts ledger   *)
(* (address_receipts_recent and the totals of address_totals, src/db.rs),  *)
(* against a chain and a mempool that move while an iteration runs.        *)
(*                                                                         *)
(* One action is one database transaction together with the lightwalletd   *)
(* read it applies: the ledger has no other writer, so the moment that     *)
(* matters is the moment of the read.  Forward batches are downloaded      *)
(* ahead of their scan (DownloadPipeline), so for these the read is an     *)
(* action of its own.                                                      *)
(*                                                                         *)
(* A transaction pays one output to one issued address, and a total is     *)
(* represented by the set of transactions it sums.                         *)
(***************************************************************************)
EXTENDS SyncPlan, Sequences, FiniteSets

CONSTANTS
    Txs,           \* transactions that pay an issued address
    Addresses,     \* issued addresses
    Owner,         \* the address each transaction pays
    Birthday,      \* wallet birthday height
    Finality,      \* FINALITY_CONFIRMATIONS
    ReportConf,    \* WEBHOOK_REPORT_CONFIRMATIONS
    ArrayDepth,    \* REQUIRED_CONFIRMATIONS (0: only the total itself)
    Threshold,     \* CATCH_UP_THRESHOLD_BLOCKS
    BatchSize,     \* CATCH_UP_BATCH_SIZE
    Ahead,         \* bound: downloaded batches that may wait for the scanner
    MaxTip,        \* bound: longest chain explored
    Faults         \* what goes wrong: see Fault

Fault == {"reorg",     \* blocks below the finality depth are replaced
          "evict",     \* a transaction leaves the mempool unmined
          "aging",     \* a mempool receipt turns 24 hours old
          "io_error",  \* a lightwalletd request fails
          "db_error",  \* a call of the app database fails (busy, full)
          "crash"}     \* the process dies and is started again

ASSUME SyncAssumption ==
    /\ Owner \in [Txs -> Addresses]
    /\ Birthday \in Heights \ {0}
    /\ Finality \in Nat /\ ReportConf \in Nat /\ ArrayDepth \in Nat
    /\ ReportConf # 0 => ArrayDepth = 0
    /\ Threshold \in Nat
    /\ BatchSize \in Nat \ {0}
    /\ Ahead \in Nat \ {0}
    /\ MaxTip \in Heights \ {0, MaxU32}
    /\ Faults \subseteq Fault

Row == [kind : {"none", "mempool", "mined"}, height : Nat, active : BOOLEAN,
        eligible : BOOLEAN, depth : Nat, fresh : BOOLEAN]

NoRow == [kind |-> "none", height |-> 0, active |-> FALSE, eligible |-> FALSE,
          depth |-> 0, fresh |-> TRUE]

Steps == {"idle", "revoke", "overlap", "queue_reorg", "mark", "scan",
          "queue_batch", "record_batch", "queue_matured", "mempool",
          "reconcile_mempool", "queue_mempool", "record", "waiting",
          "periodic", "queue_periodic"}

VARIABLES
    chain,      \* the best chain: the transactions of each block (height 1 first)
    highest,    \* the longest the chain has been
    mempool,    \* transactions in the mempool
    rows,       \* address_receipts_recent
    totals,     \* received_by_confirmations; element 0 is current_total_zat
    dirty,      \* addresses marked dirty that are not yet queued
    meta,       \* service_metadata: last scanned height and sync state
    pc,         \* the next step of the sync task
    tip,        \* the tip this iteration sampled
    cursor,     \* next height of the forward scan
    fetched,    \* batches downloaded and not yet scanned
    affected,   \* address ids returned by the last ledger transaction
    snapshot,   \* mempool txids read, not yet reconciled
    quiet,      \* history: since the tip sample nothing moved and no check failed
    cut,        \* history: an iteration ended between its first ledger
                \* transaction and its maturity pass
    dropped,    \* history: dirty addresses whose ids failed iterations dropped
                \* before queueing them, and that no queue call has named since
    unrecorded  \* history: receipts of batches that were written and whose
                \* height was not recorded

network == << chain, highest, mempool >>
ledger == << rows, totals, dirty, dropped >>
recorded == << meta, unrecorded >>
task == << tip, cursor, fetched, snapshot >>
vars == << chain, highest, mempool, rows, totals, dirty, meta, pc, tip, cursor,
           fetched, affected, snapshot, quiet, cut, dropped, unrecorded >>

OnChain == UNION {chain[h] : h \in DOMAIN chain}

BlockAt(h) == IF h \in DOMAIN chain THEN chain[h] ELSE {}

Init ==
    /\ chain = << {} >> /\ highest = 1 /\ mempool = {}
    /\ rows = [t \in Txs |-> NoRow]
    /\ totals = [a \in Addresses |-> [i \in 0 .. ArrayDepth |-> {}]]
    /\ dirty = {}
    /\ meta = [scanned |-> 0, state |-> "starting"]
    /\ pc = "idle" /\ tip = 0 /\ cursor = Birthday /\ fetched = {}
    /\ affected = {} /\ snapshot = {} /\ quiet = FALSE /\ cut = FALSE
    /\ dropped = {} /\ unrecorded = {}

-----------------------------------------------------------------------------
(* The network (external).  A block with Finality confirmations stays.     *)

Moved == quiet' = FALSE /\ UNCHANGED << ledger, recorded, pc, task, affected, cut >>

Broadcast(t) ==
    /\ t \notin OnChain \cup mempool
    /\ mempool' = mempool \cup {t}
    /\ UNCHANGED << chain, highest >>
    /\ Moved

\* A new block; a transaction may be mined without having been in the mempool.
Mine(block) ==
    /\ Len(chain) < MaxTip
    /\ chain' = Append(chain, block)
    /\ highest' = Higher(highest, Len(chain) + 1)
    /\ mempool' = mempool \ block
    /\ Moved

Rewind ==
    /\ "reorg" \in Faults
    /\ Len(chain) > 1
    /\ highest - Len(chain) + 1 < Finality
    /\ chain' = SubSeq(chain, 1, Len(chain) - 1)
    /\ mempool' = mempool \cup chain[Len(chain)]
    /\ UNCHANGED highest
    /\ Moved

Evict(t) ==
    /\ "evict" \in Faults
    /\ t \in mempool
    /\ mempool' = mempool \ {t}
    /\ UNCHANGED << chain, highest >>
    /\ Moved

\* first_observed_at falls behind the 24-hour cutoff.
Age(t) ==
    /\ "aging" \in Faults
    /\ rows[t].kind = "mempool" /\ rows[t].fresh
    /\ rows' = [rows EXCEPT ![t].fresh = FALSE]
    /\ quiet' = FALSE
    /\ UNCHANGED << network, totals, dirty, dropped, recorded, pc, task, affected, cut >>

-----------------------------------------------------------------------------
(* The ledger.                                                             *)

\* Mutant: the plain difference, which a height above the tip makes negative.
UnguardedDepth(top, h) == top - h

\* Mutant: the block that holds the receipt is not counted.
DepthBelow(top, h) == IF top >= h THEN top - h ELSE 0

DepthAt(top, h) == IF top >= h THEN top - h + 1 ELSE 0

\* received_by_confirmations_zat and the eligible sum of
\* recompute_address_totals: a receipt counts in the elements up to its depth.
Report(ledgerRows, a, top) ==
    [i \in 0 .. ArrayDepth |->
        {t \in Txs :
            /\ Owner[t] = a
            /\ ledgerRows[t].active /\ ledgerRows[t].eligible
            /\ i <= IF ledgerRows[t].kind = "mined"
                    THEN DepthAt(top, ledgerRows[t].height) ELSE 0}]

\* Mutant: an address is recomputed only for receipts that are active.
CommitActiveOnly(new, top) ==
    LET ids == {Owner[t] : t \in {u \in Txs : new[u] # rows[u] /\ new[u].active}}
    IN  /\ rows' = new
        /\ totals' = [a \in Addresses |->
                        IF a \in ids THEN Report(new, a, top) ELSE totals[a]]
        /\ dirty' = dirty \cup {a \in ids : totals'[a] # totals[a]}
        /\ affected' = affected \cup ids
        /\ UNCHANGED dropped

\* Write the rows and recompute the totals of the addresses whose rows changed
\* (recompute_address_totals); their ids are what the method returns.
Commit(new, top) ==
    LET ids == {Owner[t] : t \in {u \in Txs : new[u] # rows[u]}}
    IN  /\ rows' = new
        /\ totals' = [a \in Addresses |->
                        IF a \in ids THEN Report(new, a, top) ELSE totals[a]]
        /\ dirty' = dirty \cup {a \in ids : totals'[a] # totals[a]}
        /\ affected' = affected \cup ids
        /\ UNCHANGED dropped

\* attribute_scanned_receipts for a mined receipt.
MinedRow(h, top) ==
    [kind |-> "mined", height |-> h, active |-> TRUE,
     eligible |-> DepthAt(top, h) >= ReportConf, depth |-> DepthAt(top, h),
     fresh |-> TRUE]

\* Mutant: receipts that the blocks do not hold are left alone.
ReconciledWithoutRevoking(blocks, top) ==
    [t \in Txs |->
        IF \E h \in DOMAIN blocks : t \in blocks[h]
        THEN MinedRow(CHOOSE h \in DOMAIN blocks : t \in blocks[h], top)
        ELSE rows[t]]

\* reconcile_attributed_receipts_in_range: what the blocks of the range hold is
\* upserted as mined; an active mined receipt of the range that they do not
\* hold is revoked.
ReconciledInRange(blocks, top) ==
    [t \in Txs |->
        IF \E h \in DOMAIN blocks : t \in blocks[h]
        THEN MinedRow(CHOOSE h \in DOMAIN blocks : t \in blocks[h], top)
        ELSE [rows[t] EXCEPT !.active =
                @ /\ ~(rows[t].kind = "mined" /\ rows[t].height \in DOMAIN blocks)]]

\* Mutant: a shorter chain revokes nothing.
NothingAboveRevoked(top) == rows

\* revoke_mined_receipts_above_tip.
RevokedAboveTip(top) ==
    [t \in Txs |-> [rows[t] EXCEPT !.active =
        @ /\ ~(rows[t].kind = "mined" /\ rows[t].height > top)]]

\* advance_receipt_maturity.
Matured(top) ==
    [t \in Txs |->
        IF rows[t].kind = "mined" /\ rows[t].active
        THEN MinedRow(rows[t].height, top)
        ELSE rows[t]]

\* reconcile_mempool_snapshot: seen are the txids of the snapshot, found the
\* transactions that were fetched because no active mempool row has them.
MempoolReconciled(seen, found, revokeMissing) ==
    [t \in Txs |->
        LET row == rows[t]
            fresh == row.kind = "mempool" => row.fresh
        IN  IF t \in found
            THEN [kind |-> "mempool", height |-> 0, active |-> TRUE,
                  eligible |-> ReportConf = 0 /\ fresh, depth |-> 0, fresh |-> fresh]
            ELSE IF row.kind # "mempool" \/ ~row.active THEN row
            ELSE IF revokeMissing /\ t \notin seen THEN [row EXCEPT !.active = FALSE]
            ELSE [row EXCEPT !.eligible = ReportConf = 0 /\ fresh]]

-----------------------------------------------------------------------------
(* One iteration: sync_with_lightwalletd_with.                             *)

Goto(step) == pc' = step /\ UNCHANGED << network, quiet, cut >>

\* queue_webhook_deliveries_for_dirty_addresses of the ids just returned.
QueueAffected ==
    /\ dirty' = dirty \ affected
    /\ dropped' = dropped \ affected
    /\ affected' = {}
    /\ UNCHANGED << rows, totals >>

\* Mutant: the height is not stored.
RecordStateOnly(state, scanned) == meta' = [meta EXCEPT !.state = state]

\* record_sync_status.
RecordSyncStatus(state, scanned) == meta' = [scanned |-> scanned, state |-> state]

SampleTip ==
    /\ pc = "idle"
    /\ tip' = Len(chain)
    /\ cursor' = ForwardScanStartHeight(Birthday, meta.scanned, tip')
    /\ quiet' = TRUE
    /\ pc' = "revoke"
    /\ UNCHANGED << network, ledger, recorded, fetched, affected, snapshot, cut >>

RevokeAboveTip ==
    /\ pc = "revoke"
    /\ \/ meta.scanned > tip /\ Commit(RevokedAboveTip(tip), tip) /\ unrecorded' = {}
       \/ meta.scanned <= tip /\ UNCHANGED << ledger, affected, unrecorded >>
    /\ Goto("overlap")
    /\ UNCHANGED << meta, task >>

\* What lightwalletd answers for a range: the blocks it has now.
Read(batch) == [h \in HeightsOf(batch) |-> BlockAt(h)]

\* Mutant: only the last scanned block is read again.
LastBlockOnly == ReorgOverlapBatch(Birthday, meta.scanned, tip, 1)

OverlapBatch == ReorgOverlapBatch(Birthday, meta.scanned, tip, Finality)

ReconcileOverlap ==
    /\ pc = "overlap"
    /\ Commit(ReconciledInRange(Read(OverlapBatch), tip), tip)
    /\ Goto("queue_reorg")
    /\ UNCHANGED << recorded, task >>

\* Mutant: what the overlap changed is left for the maturity pass to queue.
ReorgNotQueued ==
    /\ pc = "queue_reorg"
    /\ affected' = {}
    /\ Goto("mark")
    /\ UNCHANGED << ledger, recorded, task >>

QueueReorgAffected ==
    /\ pc = "queue_reorg"
    /\ QueueAffected
    /\ Goto("mark")
    /\ UNCHANGED << recorded, task >>

MarkCatchingUp ==
    /\ pc = "mark"
    /\ IF MarksCatchingUp(cursor, tip, Threshold)
       THEN RecordSyncStatus("catching_up", meta.scanned)
       ELSE UNCHANGED meta
    /\ Goto("scan")
    /\ UNCHANGED << ledger, affected, task, unrecorded >>

\* The downloader reads a batch ahead of the scanner, in any order.
DownloadBatch(k) ==
    LET batch == NextScanBatch(cursor + k * BatchSize, tip, BatchSize)
    IN  /\ pc = "scan"
        /\ batch # NoBatch
        /\ \A f \in fetched : f.batch # batch
        /\ fetched' = fetched \cup {[batch |-> batch, blocks |-> Read(batch)]}
        /\ UNCHANGED << network, ledger, recorded, pc, tip, cursor, affected, snapshot,
                        quiet, cut >>

ScanBatchStep ==
    /\ pc = "scan"
    /\ \E f \in fetched :
        /\ f.batch.start = cursor
        /\ Commit(ReconciledInRange(f.blocks, tip), tip)
    /\ Goto("queue_batch")
    /\ UNCHANGED << recorded, task >>

QueueBatch ==
    /\ pc = "queue_batch"
    /\ QueueAffected
    /\ Goto("record_batch")
    /\ UNCHANGED << recorded, task >>

RecordBatch ==
    /\ pc = "record_batch"
    /\ \E f \in fetched :
        /\ f.batch.start = cursor
        /\ RecordSyncStatus("catching_up", f.batch.end)
        /\ cursor' = f.batch.end + 1
        /\ fetched' = fetched \ {f}
        /\ unrecorded' = {t \in unrecorded : rows[t].height > f.batch.end}
    /\ Goto("scan")
    /\ UNCHANGED << ledger, affected, tip, snapshot >>

AdvanceReceiptMaturity ==
    /\ pc = "scan"
    /\ cursor > tip
    /\ Commit(Matured(tip), tip)
    /\ Goto("queue_matured")
    /\ UNCHANGED << recorded, task >>

QueueMatured ==
    /\ pc = "queue_matured"
    /\ QueueAffected
    /\ Goto(IF ReportConf = 0 THEN "mempool" ELSE "record")
    /\ UNCHANGED << recorded, task >>

\* new_last_scanned_height: the last batch's end, or when there was none the
\* recorded height, at most the tip.
NewLastScanned == Lower(tip, meta.scanned)

\* fetch_current_mempool_txids, in the iteration or while waiting for a block.
FetchMempoolTxids ==
    /\ ReportConf = 0
    /\ \/ pc = "mempool" /\ Goto("reconcile_mempool")
       \/ pc = "waiting" /\ Goto("periodic")
    /\ snapshot' = mempool
    /\ UNCHANGED << ledger, recorded, affected, tip, cursor, fetched >>

\* Mutant: the tip is not sampled again.
TipAssumed == TRUE

\* The tip re-checked after the snapshot is still the sampled one.
TipConfirmed == Len(chain) <= tip

\* reconcile_current_mempool_with after its snapshot: transactions without an
\* active mempool row are fetched (one that has vanished is skipped), and
\* missing ones are revoked only if the tip has not moved since, a
\* check that may itself fail.
ReconcileMempool(revokeMissing) ==
    LET known == {t \in Txs : rows[t].kind = "mempool" /\ rows[t].active}
        found == (snapshot \ known) \cap (mempool \cup OnChain)
    IN  /\ \/ /\ Commit(MempoolReconciled(snapshot, found, revokeMissing /\ TipConfirmed), tip)
              /\ UNCHANGED quiet
           \/ /\ "io_error" \in Faults
              /\ Commit(MempoolReconciled(snapshot, found, FALSE), tip)
              /\ quiet' = FALSE
        /\ snapshot' = {}
        /\ UNCHANGED << network, recorded, tip, cursor, fetched, cut >>

ReconcileCurrentMempool ==
    /\ pc = "reconcile_mempool"
    /\ ReconcileMempool(NewLastScanned >= tip)
    /\ pc' = "queue_mempool"

QueueMempool ==
    /\ pc = "queue_mempool"
    /\ QueueAffected
    /\ Goto("record")
    /\ UNCHANGED << recorded, task >>

RecordStatus ==
    /\ pc = "record"
    /\ RecordSyncStatus(IF NewLastScanned >= tip THEN "synced" ELSE "catching_up",
                        NewLastScanned)
    /\ Goto("waiting")
    /\ UNCHANGED << ledger, affected, task, unrecorded >>

-----------------------------------------------------------------------------
(* Between iterations.                                                     *)

\* The periodic reconciliation while waiting never revokes.
ReconcilePeriodically ==
    /\ pc = "periodic"
    /\ ReconcileMempool(FALSE)
    /\ pc' = "queue_periodic"

QueuePeriodic ==
    /\ pc = "queue_periodic"
    /\ QueueAffected
    /\ Goto("waiting")
    /\ UNCHANGED << recorded, task >>

\* The mempool stream ends, or the tip poll sees a higher tip.
Wake ==
    /\ pc = "waiting"
    /\ Goto("idle")
    /\ UNCHANGED << ledger, recorded, affected, task >>

CurrentBatch == NextScanBatch(cursor, tip, BatchSize)

\* The locals of the iteration are dropped, at any step of it.
GiveUp ==
    /\ affected' = {} /\ fetched' = {} /\ snapshot' = {}
    /\ pc' = "idle"
    /\ cut' = (cut \/ pc \in {"overlap", "queue_reorg", "mark", "scan",
                             "queue_batch", "record_batch"})
    /\ unrecorded' = unrecorded \cup
        {t \in Txs : /\ pc \in {"queue_batch", "record_batch"}
                     /\ rows[t].kind = "mined" /\ rows[t].active
                     /\ meta.scanned < rows[t].height
                     /\ rows[t].height <= CurrentBatch.end}
    /\ UNCHANGED << network, meta, tip, cursor, quiet >>

\* The steps that ask lightwalletd, and those that call the app database: the
\* transactions of the ledger, every queue call and every record of the status.
Requests ==
    \/ pc = "overlap" /\ OverlapBatch # NoBatch
    \/ pc \in {"scan", "mempool", "reconcile_mempool", "waiting", "periodic"}

DatabaseCalls ==
    \/ pc = "revoke" /\ meta.scanned > tip
    \/ pc = "overlap" /\ OverlapBatch # NoBatch
    \/ pc \in {"queue_reorg", "mark", "scan", "queue_batch", "record_batch",
              "queue_matured", "reconcile_mempool", "queue_mempool", "record",
              "periodic", "queue_periodic"}

\* The iteration, or the wait after it, returns an error.  The process runs on:
\* after the poll interval the next iteration starts, and what the failed one
\* made dirty stays dirty.
IterationFails ==
    /\ \/ "io_error" \in Faults /\ Requests
       \/ "db_error" \in Faults /\ DatabaseCalls
    /\ GiveUp
    /\ dropped' = dropped \cup (affected \cap dirty)
    /\ UNCHANGED << rows, totals, dirty >>

\* Startup queues every dirty address before the loops run.
CrashAndRestart ==
    /\ "crash" \in Faults
    /\ GiveUp
    /\ dirty' = {} /\ dropped' = {}
    /\ UNCHANGED << rows, totals >>

-----------------------------------------------------------------------------
Network ==
    \/ \E t \in Txs : Broadcast(t) \/ Evict(t) \/ Age(t)
    \/ \E block \in SUBSET (Txs \ OnChain) : Mine(block)
    \/ Rewind

Sync ==
    \/ SampleTip \/ RevokeAboveTip \/ ReconcileOverlap \/ QueueReorgAffected
    \/ MarkCatchingUp
    \/ \E k \in 0 .. (Ahead - 1) : DownloadBatch(k)
    \/ ScanBatchStep \/ QueueBatch \/ RecordBatch
    \/ AdvanceReceiptMaturity \/ QueueMatured
    \/ FetchMempoolTxids \/ ReconcileCurrentMempool \/ QueueMempool
    \/ RecordStatus \/ ReconcilePeriodically \/ QueuePeriodic \/ Wake

Next == Network \/ Sync \/ IterationFails \/ CrashAndRestart

Spec == Init /\ [][Next]_vars

\* The loop runs and downloads end; the tip is polled every time round while
\* waiting, also between periodic reconciliations, so a higher tip wakes it.
\* Nothing obliges the network to move, or an unchanged tip to wake the loop.
Fairness ==
    /\ WF_vars(Sync /\ pc # "waiting")
    /\ SF_vars(Wake /\ Len(chain) > tip)

FairSpec == Spec /\ Fairness

-----------------------------------------------------------------------------
(* Properties.                                                             *)

TypeOK ==
    /\ chain \in Seq(SUBSET Txs) /\ highest \in Nat /\ mempool \in SUBSET Txs
    /\ rows \in [Txs -> Row]
    /\ totals \in [Addresses -> [0 .. ArrayDepth -> SUBSET Txs]]
    /\ dirty \in SUBSET Addresses
    /\ meta \in [scanned : Nat, state : {"starting", "catching_up", "synced"}]
    /\ pc \in Steps
    /\ tip \in Nat /\ cursor \in Nat
    /\ \A f \in fetched : f.batch \in ScanBatch
    /\ affected \in SUBSET Addresses /\ snapshot \in SUBSET Txs
    /\ quiet \in BOOLEAN /\ cut \in BOOLEAN
    /\ dropped \in SUBSET Addresses /\ unrecorded \in SUBSET Txs

Counted(t) == t \in totals[Owner[t]][0]

\* TotalsMatchReceipts: the stored total is the sum of the active eligible
\* receipts after every transaction of the ledger, so no step changes a
\* receipt of an address that it leaves out of the recomputation.
TotalsMatchReceipts ==
    \A t \in Txs : Counted(t) <=> (rows[t].active /\ rows[t].eligible)

MinedAt(t, h) == rows[t].kind = "mined" /\ rows[t].active /\ rows[t].height = h

\* WindowExact: below the window that the next iteration reads again, the
\* ledger is exact in every state: a mined receipt is recorded at its height
\* and nothing else is, however reorganisations, partial iterations, stale
\* downloads, failures and restarts were interleaved.  No later step would
\* correct an error there.
WindowExact ==
    \A t \in Txs : \A h \in Birthday .. (meta.scanned - Finality) :
        t \in BlockAt(h) <=> MinedAt(t, h)

\* What the totals of an address should be.
TrueReport(a) ==
    [i \in 0 .. ArrayDepth |->
        {t \in Txs :
            /\ Owner[t] = a
            /\ \/ \E h \in DOMAIN chain :
                    /\ h >= Birthday /\ t \in chain[h]
                    /\ Len(chain) - h + 1 >= Higher(i, ReportConf)
               \/ /\ ReportConf = 0 /\ i = 0 /\ t \in mempool
                  /\ rows[t].kind = "mempool" => rows[t].fresh}]

\* A receipt recorded at a height the chain no longer has.
AboveTip(t) == rows[t].kind = "mined" /\ rows[t].active /\ rows[t].height > tip

QuietEnd == pc = "waiting" /\ quiet /\ meta.state = "synced"

\* No other receipt of the address can have it recomputed.
OnlyReceipt(t) == \A u \in Txs : Owner[u] = Owner[t] => u = t

\* QuietIsExact: an iteration during which nothing moved ends with every total,
\* at every confirmation depth, equal to what chain and mempool add up to,
\* whatever earlier iterations left behind.  (Receipts above the tip are the
\* matter of ReorgLowersTotal.)  The deeper elements are excepted for an
\* address of several receipts once an iteration was cut off: its first
\* transaction may have recomputed them at its own tip because of one receipt,
\* and when the chain is back at the earlier tip the stored depth of the others
\* is what it should be, so the maturity pass recomputes nothing.
QuietIsExact ==
    QuietEnd =>
        \A t \in Txs : \A i \in 0 .. ArrayDepth :
            (~AboveTip(t) /\ (i = 0 \/ ~cut \/ OnlyReceipt(t))) =>
                (t \in totals[Owner[t]][i] <=> t \in TrueReport(Owner[t])[i])

\* ReorgLowersTotal: after such an iteration no receipt of a block that a
\* reorganisation removed is left above the tip, whatever earlier iterations
\* left behind, except a receipt of a batch whose height has not been recorded:
\* an iteration that failed or died between the two leaves it, a rewind to the
\* recorded height revokes nothing, and it stays counted until its height is
\* recorded after all or the chain rewinds below the recorded one.
ReorgLowersTotal ==
    QuietEnd => \A t \in Txs : AboveTip(t) => t \in unrecorded

\* NothingForgotten: between iterations every changed total has been queued;
\* this is what the queue call after each ledger transaction is for.  The
\* addresses that are left dirty are those a failed iteration dropped, by an
\* error of the overlap read after the revocation or of a queue call itself,
\* and only until a later transaction changes the address again and its queue
\* call succeeds, or the process restarts.
NothingForgotten == pc \in {"idle", "waiting"} => dirty \subseteq dropped

\* NoDip: without reorganisations, evictions and aging, a counted payment stays
\* counted while it moves from the mempool into a block, at every interleaving
\* of the block with the tip sample, the scan, the snapshot and the tip check.
NoDip == [][\A t \in Txs : Counted(t) => Counted(t)']_vars

\* EventuallyScanned: once requests stop failing and the process stops dying,
\* every block that stays is scanned.
EventuallyScanned ==
    <>[][~(IterationFails \/ CrashAndRestart)]_vars =>
        \A h \in 1 .. MaxTip :
            (Len(chain) >= h) ~> (meta.scanned >= h \/ Len(chain) < h)

-----------------------------------------------------------------------------
(* What makes the safety properties inductive (ChainSyncProofs).           *)

\* A transaction is in one place, and a rewind stays below the finality depth.
NetOK ==
    /\ Len(chain) <= highest /\ highest <= Len(chain) + Finality
    /\ highest <= MaxTip
    /\ \A g, h \in Nat : g # h => BlockAt(g) \cap BlockAt(h) = {}
    /\ \A h \in Nat : BlockAt(h) \cap mempool = {}

\* Where the forward scan stands relative to what is recorded.
PlanOK ==
    /\ tip <= highest /\ meta.scanned <= highest
    /\ pc # "idle" =>
        /\ meta.scanned <= tip + Finality
        /\ cursor >= Birthday /\ cursor > Lower(meta.scanned, tip)
    /\ pc \in {"revoke", "overlap"} =>
        cursor = Birthday \/ cursor = Lower(meta.scanned, tip) + 1

Scanning == {"scan", "queue_batch", "record_batch"}

\* Downloads that wait lie on the grid of batches from the cursor on.
FetchedOK ==
    /\ pc \notin Scanning => fetched = {}
    /\ \A f \in fetched :
        /\ f.batch \in ScanBatch /\ f.batch.start <= tip
        /\ f.batch = NextScanBatch(f.batch.start, tip, BatchSize)
        /\ f.blocks \in [HeightsOf(f.batch) -> SUBSET Txs]
        /\ \E k \in Nat : f.batch.start = cursor + k * BatchSize
    /\ \A f, g \in fetched : f.batch = g.batch => f = g

ControlInv == TypeOK /\ NetOK /\ PlanOK /\ FetchedOK

\* Heights whose block is final, seen from the tip sample and the recorded one.
Final(h) == h + Finality <= tip \/ h + Finality <= meta.scanned

\* A download may be stale, but not where blocks are final, and it holds no
\* transaction that is final elsewhere; nor does a mempool snapshot.
ContentOK ==
    /\ \A f \in fetched : \A h \in HeightsOf(f.batch) :
        /\ h + Finality <= tip => f.blocks[h] = BlockAt(h)
        /\ \A g \in Nat : g # h /\ Final(g) => f.blocks[h] \cap BlockAt(g) = {}
        /\ \A g \in HeightsOf(f.batch) : g # h => f.blocks[h] \cap f.blocks[g] = {}
    /\ pc \notin {"reconcile_mempool", "periodic"} => snapshot = {}
    /\ \A g \in Nat : Final(g) => snapshot \cap BlockAt(g) = {}

Exact(h) == \A t \in Txs : t \in BlockAt(h) <=> MinedAt(t, h)

\* The final part of what this iteration has read is exact before its height
\* is recorded.
ExactOK ==
    /\ \A h \in Nat : (h >= Birthday /\ h + Finality <= meta.scanned) => Exact(h)
    /\ pc \in {"queue_reorg", "mark"} \cup Scanning =>
        \A h \in Nat : (h >= Birthday /\ h < cursor /\ h + Finality <= tip) => Exact(h)
    /\ pc \in {"queue_batch", "record_batch"} =>
        \A h \in HeightsOf(CurrentBatch) : h + Finality <= tip => Exact(h)

LedgerInv == ControlInv /\ ContentOK /\ ExactOK

\* What is dirty is about to be queued.
QueueOK ==
    /\ dirty \subseteq affected \cup dropped
    /\ pc \notin {"overlap", "queue_reorg", "queue_batch", "queue_matured",
                  "queue_mempool", "queue_periodic"} => dirty \subseteq dropped

MinedUpTo(top) ==
    \A t \in Txs : (rows[t].kind = "mined" /\ rows[t].active) =>
        rows[t].height <= top \/ t \in unrecorded

\* No mined receipt lies above what is recorded or about to be, nor, once the
\* iteration has revoked, above its tip, but those of an unrecorded batch.
HeightsOK ==
    /\ pc \notin {"queue_batch", "record_batch"} => MinedUpTo(meta.scanned)
    /\ pc \in {"queue_batch", "record_batch"} => MinedUpTo(CurrentBatch.end)
    /\ pc \notin {"idle", "revoke"} => MinedUpTo(tip)

-----------------------------------------------------------------------------
(* What makes QuietIsExact inductive.                                      *)

BatchPhase == {"queue_batch", "record_batch"}

ReadPhase == {"queue_reorg", "mark"} \cup Scanning

MempoolPhase == {"reconcile_mempool", "periodic"}

\* After the maturity pass, until the next tip sample.
AfterScan == {"queue_matured", "mempool", "queue_mempool", "record", "waiting",
              "queue_periodic"} \cup MempoolPhase

\* While nothing moves, what was read is what chain and mempool hold.
QuietReads ==
    /\ quiet /\ pc # "idle" =>
        /\ tip = Len(chain)
        /\ \A f \in fetched : \A h \in HeightsOf(f.batch) : f.blocks[h] = BlockAt(h)
        /\ pc \in MempoolPhase => snapshot = mempool
    /\ pc \in MempoolPhase \cup {"queue_mempool"} => ReportConf = 0

\* Then every height that was read again or for the first time is exact.
QuietExact ==
    /\ quiet /\ pc \in ReadPhase \cup AfterScan =>
        \A h \in Nat : (h >= Birthday /\ h < cursor) => Exact(h)
    /\ quiet /\ pc \in BatchPhase => \A h \in HeightsOf(CurrentBatch) : Exact(h)
    /\ pc \in AfterScan => cursor > tip

\* Nothing below the birthday is read.
BirthdayOK == \A t \in Txs : rows[t].kind = "mined" => rows[t].height >= Birthday

\* The maturity pass leaves every mined receipt at its depth below the tip.
MaturedOK ==
    pc \in AfterScan =>
        \A t \in Txs : (rows[t].kind = "mined" /\ rows[t].active) =>
            /\ rows[t].depth = DepthAt(tip, rows[t].height)
            /\ rows[t].eligible = (rows[t].depth >= ReportConf)

\* A reconciliation that was allowed to revoke has ended.
MempoolSettled ==
    /\ quiet /\ ReportConf = 0
    /\ \/ pc \in {"queue_mempool", "record"} /\ NewLastScanned >= tip
       \/ pc \in {"waiting", "periodic", "queue_periodic"} /\ meta.state = "synced"

\* It leaves the receipts of the mempool, and no others, active as such.
MempoolOK ==
    /\ \A t \in Txs : rows[t].kind = "mempool" /\ rows[t].eligible => ReportConf = 0
    /\ \A t \in Txs : rows[t].active => rows[t].kind # "none"
    /\ MempoolSettled =>
        \A t \in Txs :
            /\ t \in mempool <=> (rows[t].kind = "mempool" /\ rows[t].active)
            /\ t \in mempool => rows[t].eligible = rows[t].fresh

\* The array of an address is what the stored depths of its receipts say.
DepthsAgree(a) ==
    \A i \in 0 .. ArrayDepth :
        totals[a][i] = {t \in Txs :
            /\ Owner[t] = a /\ rows[t].active /\ rows[t].eligible
            /\ i <= IF rows[t].kind = "mined" THEN rows[t].depth ELSE 0}

BeforeMatured == {"overlap"} \cup ReadPhase

\* Between its first ledger transaction and its maturity pass an iteration may
\* leave an array ahead of the stored depths: it is then that of the tip.
ArraysOK ==
    /\ \A t \in Txs : OnlyReceipt(t) => DepthsAgree(Owner[t])
    /\ ~cut => \A a \in Addresses :
        DepthsAgree(a) \/ (pc \in BeforeMatured /\ totals[a] = Report(rows, a, tip))

QuietInv == QuietReads /\ QuietExact /\ BirthdayOK /\ MaturedOK /\ MempoolOK /\ ArraysOK

-----------------------------------------------------------------------------
(* What makes NoDip inductive, for a network that only adds.               *)

Steady == Faults \cap {"reorg", "evict", "aging"} = {}

\* What was read stays true, and no height is left out of the forward scan.
SteadyReads ==
    /\ tip <= Len(chain) /\ meta.scanned <= Len(chain) /\ Len(chain) >= 1
    /\ pc # "idle" =>
        meta.scanned <= tip /\ cursor <= Higher(meta.scanned + 1, Birthday)
    /\ \A h \in Nat : h < Birthday => BlockAt(h) = {}
    /\ \A f \in fetched : \A h \in HeightsOf(f.batch) : f.blocks[h] = BlockAt(h)
    /\ \A h \in Nat : h <= tip => snapshot \cap BlockAt(h) = {}

\* An active mined receipt is where it says, and mature when it counts.
SteadyMined(t) ==
    /\ rows[t].height <= tip /\ t \in BlockAt(rows[t].height)
    /\ rows[t].eligible => DepthAt(tip, rows[t].height) >= ReportConf

\* An active mempool receipt is in the mempool, or in a block that is still to
\* be scanned: so a snapshot misses it only before that scan.
SteadyMempool(t) ==
    /\ rows[t].eligible => ReportConf = 0
    /\ t \in mempool \cup OnChain
    /\ pc \in MempoolPhase => t \in snapshot \cup OnChain
    /\ \A h \in Nat : t \in BlockAt(h) =>
        /\ h > meta.scanned
        /\ pc \in BatchPhase => h \notin HeightsOf(CurrentBatch)

SteadyRows ==
    \A t \in Txs :
        /\ rows[t].fresh
        /\ rows[t].active => \/ rows[t].kind = "mined" /\ SteadyMined(t)
                             \/ rows[t].kind = "mempool" /\ SteadyMempool(t)

SteadyInv == SteadyReads /\ SteadyRows
=============================================================================
