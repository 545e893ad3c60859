------------------------------ MODULE NoteScan ------------------------------
(***************************************************************************)
(* From transactions to receipts: trial decryption of blocks and of the    *)
(* mempool (src/scanner.rs, with the keys of src/zcash.rs) and attribution *)
(* to issued addresses (src/receipt_ingest.rs).                            *)
(*                                                                         *)
(* A transaction is the sequence of its outputs to addresses of this       *)
(* wallet, each with its pool, diversifier index and value, the number of  *)
(* its other shielded outputs, and the consensus branch it is encoded for. *)
(* Whether an output decrypts is the library's matter (external): it does  *)
(* exactly when it pays an address of the wallet.                          *)
(***************************************************************************)
EXTENDS Integers, Sequences, FiniteSets

CONSTANTS
    Mainnet,           \* the network is mainnet
    SpamWindow,        \* heights of the spam window
    SpamThreshold,     \* SPAM_FILTER_OUTPUT_THRESHOLD
    Activation,        \* height at which the consensus branch changes
    ReportConf,        \* WEBHOOK_REPORT_CONFIRMATIONS
    NoAddress

ASSUME ScanAssumption ==
    /\ Mainnet \in BOOLEAN /\ SpamWindow \subseteq Nat
    /\ SpamThreshold \in Nat /\ Activation \in Nat /\ ReportConf \in Nat
    /\ NoAddress \notin Nat

ShieldedOutputs(tx) == Len(tx.outputs) + tx.others

\* apply_spam_filter keeps the transaction.
Kept(tx, height) ==
    ~(Mainnet /\ height \in SpamWindow /\ ShieldedOutputs(tx) > SpamThreshold)

\* The consensus branch of a height (external).
BranchFor(height) == IF height >= Activation THEN 1 ELSE 0

\* parse_mempool_transactions: encoded for the block after the tip.
Parses(tx, tip) == tx.branch = BranchFor(tip + 1)

\* The index of the k-th output among the outputs of its pool.
OutputIndex(tx, k) ==
    Cardinality({j \in 1 .. (k - 1) : tx.outputs[j].pool = tx.outputs[k].pool})

\* Mutant: outputs of different pools share their indices.
UidWithoutPool(tx, k) == << tx.id, "pool", OutputIndex(tx, k) >>

\* The receipt_uid of an output: transaction, pool and output index.
ReceiptUid(tx, k) == << tx.id, tx.outputs[k].pool, OutputIndex(tx, k) >>

\* IncomingReceipt of the k-th output: height 0 is the mempool.
Receipt(tx, k, height) ==
    [uid |-> ReceiptUid(tx, k), height |-> height, pool |-> tx.outputs[k].pool,
     value |-> tx.outputs[k].value, to |-> tx.outputs[k].to]

\* scan_one_compact_block of a transaction of a block.
ScanBlock(tx, height) ==
    {Receipt(tx, k, height) : k \in {j \in DOMAIN tx.outputs : Kept(tx, height)}}

\* scan_incoming_mempool_receipts_from_raw_transactions.
ScanMempool(tx, tip) ==
    {Receipt(tx, k, 0) : k \in {j \in DOMAIN tx.outputs : Parses(tx, tip)}}

DepthOf(height, tip) ==
    IF height = 0 \/ tip < height THEN 0 ELSE tip - height + 1

\* find_address_id_by_receiver_fingerprint.
AddressFor(receivers, pool, fingerprint) ==
    LET found == {r \in receivers : r.pool = pool /\ r.fingerprint = fingerprint}
    IN  IF found = {} THEN NoAddress ELSE (CHOOSE r \in found : TRUE).address_id

\* AttributedScannedReceipt, as the row it becomes.
Attributed(receipt, address, tip) ==
    [address  |-> address, value |-> receipt.value,
     kind     |-> IF receipt.height = 0 THEN "mempool" ELSE "mined",
     eligible |-> DepthOf(receipt.height, tip) >= ReportConf,
     active   |-> TRUE]
=============================================================================
