------------------------------ MODULE Payments ------------------------------
(***************************************************************************)
(* From a payment session to the payer's page: sessions (AddressBook), the *)
(* scan of the payments they receive (NoteScan), the receipts ledger, and  *)
(* the pay pages that poll the status (PaymentRequest), over a chain and a *)
(* mempool that move; or, in a development server, simulated payments.     *)
(*                                                                         *)
(* One scan is one action here: what happens when the chain moves within   *)
(* an iteration of the sync loop is the subject of ChainSync.              *)
(***************************************************************************)
EXTENDS AddressBook, NoteScan

CONSTANTS
    Readers,       \* the sessions whose pay page is opened
    SimTxids,      \* transaction ids of simulated payments
    SimAmounts,    \* amounts of simulated payments
    SimDepths,     \* their confirmations
    MaxTip         \* bound: blocks

\* Two more fields of a scenario.  batches: what the payers' transactions may
\* pay, as records [outputs, others, early]; its length bounds their number.
\* dev: a development server, with simulated payments and no scanning.

ASSUME PayerAssumption ==
    /\ \A c \in Scenarios :
        /\ \A s \in Sessions : \A r \in c.requests[s] : r.amount \in Amounts
        /\ c.batches \in Seq(SUBSET [outputs : Seq([pool : Pools, address_id : Nat, value : Nat]),
                                     others : Nat, early : BOOLEAN])
    /\ SimAmounts \subseteq Amounts

VARIABLES
    txs,        \* every transaction so far; place: 0 mempool, -1 gone, else height
    tip,        \* the chain's height
    rows,       \* address_receipts_recent, by receipt_uid
    current,    \* history: an iteration ended since the network last moved
    pages       \* the pay page of each link that has one open

network == << txs, tip >>
vars == << book, txs, tip, rows, current, pages >>

dev == scenario.dev

Gone == -1

Init ==
    /\ InitBook
    /\ txs = << >> /\ tip = 0
    /\ rows = << >>
    /\ current = FALSE
    /\ pages = << >>

-----------------------------------------------------------------------------
(* The network (external).                                                 *)

Moved ==
    /\ ~dev
    /\ current' = FALSE
    /\ UNCHANGED << book, rows, pages >>

Send(outputs, others, branch) ==
    /\ Len(txs) < Len(scenario.batches)
    /\ txs' = Append(txs, [id |-> Len(txs) + 1, outputs |-> outputs,
                           others |-> others, branch |-> branch, place |-> 0])
    /\ UNCHANGED tip
    /\ Moved

\* A payer who has the addresses of sessions pays them in some way, with a
\* transaction for the next block or, early, for the one after it.
SendBatch ==
    /\ Len(txs) < Len(scenario.batches)
    /\ \E b \in scenario.batches[Len(txs) + 1] :
        /\ \A k \in DOMAIN b.outputs : b.outputs[k].address_id \in DOMAIN issued
        /\ Send([k \in DOMAIN b.outputs |->
                    [pool |-> b.outputs[k].pool, value |-> b.outputs[k].value,
                     to |-> issued[b.outputs[k].address_id].index]],
                b.others, BranchFor(tip + IF b.early THEN 2 ELSE 1))

\* A payer scans the QR code of a page and pays what it asks for.
PayShown ==
    \E p \in DOMAIN pages :
        /\ pages[p].controls
        /\ ParseZecAmount(pages[p].qr_text.amount) > 0
        /\ Send(<< [pool  |-> "orchard", to |-> pages[p].qr_text.address,
                    value |-> ParseZecAmount(pages[p].qr_text.amount)] >>,
                0, BranchFor(tip + 1))

InMempool == {i \in DOMAIN txs : txs[i].place = 0}

Mine(block) ==
    /\ tip < MaxTip
    /\ \A i \in block : txs[i].branch = BranchFor(tip + 1)
    /\ tip' = tip + 1
    /\ txs' = [i \in DOMAIN txs |->
                IF i \in block THEN [txs[i] EXCEPT !.place = tip + 1] ELSE txs[i]]
    /\ Moved

\* The last block is replaced: its transactions are back in the mempool.
Rewind ==
    /\ tip > 0
    /\ tip' = tip - 1
    /\ txs' = [i \in DOMAIN txs |->
                IF txs[i].place = tip THEN [txs[i] EXCEPT !.place = 0] ELSE txs[i]]
    /\ Moved

Evict(i) ==
    /\ i \in InMempool
    /\ txs' = [txs EXCEPT ![i].place = Gone]
    /\ UNCHANGED tip
    /\ Moved

Network ==
    \/ SendBatch \/ PayShown \/ Rewind
    \/ \E block \in SUBSET InMempool : Mine(block)
    \/ \E i \in DOMAIN txs : Evict(i)

-----------------------------------------------------------------------------
(* The ledger.                                                             *)

\* attribute_scanned_receipts and the upsert by receipt_uid; receipts that pay
\* no issued address are dropped.
Upserted(old, receipts, top) ==
    LET owner(r) == AddressFor(receivers, r.pool, FingerprintOf(r.pool, r.to))
        ours     == {r \in receipts : owner(r) # NoAddress}
    IN  [u \in DOMAIN old \cup {r.uid : r \in ours} |->
            IF \E r \in ours : r.uid = u
            THEN LET r == CHOOSE r \in ours : r.uid = u
                 IN  Attributed(r, owner(r), top)
            ELSE old[u]]

\* Revoke the active rows of a kind that the scan did not find again.
Revoked(old, kind, found) ==
    [u \in DOMAIN old |->
        IF old[u].kind = kind /\ u \notin found THEN [old[u] EXCEPT !.active = FALSE]
        ELSE old[u]]

Scans == ~dev /\ lock = NoSession

\* The overlap and the forward scan: the receipts of the best chain are
\* upserted, and mined ones it does not have are revoked.
ChainScanned(old) ==
    LET found == UNION {ScanBlock(txs[i], txs[i].place) :
                            i \in {j \in DOMAIN txs : txs[j].place > 0}}
    IN  Revoked(Upserted(old, found, tip), "mined", {r.uid : r \in found})

\* The mempool: transactions without an active mempool row are fetched and
\* scanned; active mempool rows whose transaction has left it are revoked,
\* if the blocks are scanned up to the tip.
MempoolScanned(old, revokeMissing) ==
    LET known == {u[1] : u \in {v \in DOMAIN old :
                                    old[v].kind = "mempool" /\ old[v].active}}
        found == UNION {ScanMempool(txs[i], tip) : i \in InMempool \ known}
        kept  == {u \in DOMAIN old : u[1] \in InMempool} \cup {r.uid : r \in found}
        new   == Upserted(old, found, tip)
    IN  IF revokeMissing THEN Revoked(new, "mempool", kept) ELSE new

\* An iteration of the sync loop.
SyncIteration ==
    /\ Scans
    /\ rows' = IF ReportConf = 0 THEN MempoolScanned(ChainScanned(rows), TRUE)
               ELSE ChainScanned(rows)
    /\ current' = TRUE
    /\ UNCHANGED << book, network, pages >>

\* The periodic reconciliation between iterations.
ReconcilePeriodically ==
    /\ Scans
    /\ ReportConf = 0
    /\ rows' = MempoolScanned(rows, FALSE)
    /\ UNCHANGED << book, network, current, pages >>

SimulatedUid(txid, a) == << txid, "simulated", a >>

\* simulate_payment; an omitted depth is far above every threshold.  (The
\* marker it sets first is in Startup, the delivery it queues in WebhookOutbox.)
SimulatePayment(txid, a, amount, depth) ==
    /\ dev /\ lock = NoSession
    /\ a \in DOMAIN issued
    /\ ParseZecAmount(amount) > 0
    /\ LET uid == SimulatedUid(txid, a)
           row == [address |-> a, value |-> ParseZecAmount(amount),
                   kind |-> IF depth = 0 THEN "mempool" ELSE "mined",
                   eligible |-> depth >= ReportConf, active |-> TRUE]
       IN  rows' = [u \in DOMAIN rows \cup {uid} |-> IF u = uid THEN row ELSE rows[u]]
    /\ UNCHANGED << book, network, current, pages >>

\* current_total_zat: recomputed with every change of the address's rows.
TotalOf(a) ==
    MapThenSumSet(LAMBDA u : rows[u].value,
                  {u \in DOMAIN rows : rows[u].address = a /\ rows[u].active
                                       /\ rows[u].eligible})

-----------------------------------------------------------------------------
(* The status route and the pay pages.                                     *)

StatusOfLink(p) ==
    LET a == links[p].address_id
    IN  StatusOf(issued[a].index, issued[a].amount, TotalOf(a), links[p].return_url)

OnPages == UNCHANGED << book, network, rows, current >>

\* GET /pay/{payment_id}, by the payer or a reloading page.
LoadPage(p) ==
    /\ p \in DOMAIN links
    /\ p \in DOMAIN pages => pages[p].stage = "reloading"
    /\ pages' = [q \in DOMAIN pages \cup {p} |->
                    IF q = p THEN Rendered(StatusOfLink(p)) ELSE pages[q]]
    /\ OnPages

\* GET /payments/{payment_id}; a poll that fails changes nothing.
PollPage(p) ==
    /\ p \in DOMAIN pages
    /\ pages[p].stage = "polling"
    /\ pages' = [pages EXCEPT ![p] = Polled(@, StatusOfLink(p))]
    /\ OnPages

\* The page sends the payer to the return URL.
LeavePage(p) ==
    /\ p \in DOMAIN pages
    /\ pages[p].stage = "leaving"
    /\ pages' = [q \in DOMAIN pages \ {p} |-> pages[q]]
    /\ OnPages

Booked(A) == A /\ UNCHANGED << network, rows, current, pages >>

Next ==
    \/ \E s \in Sessions : Booked(Session(s))
    \/ Booked(Crash)
    \/ Network \/ SyncIteration \/ ReconcilePeriodically
    \/ \E txid \in SimTxids, a \in 1 .. Len(issued), v \in SimAmounts, d \in SimDepths :
        SimulatePayment(txid, a, v, d)
    \/ \E p \in Readers : LoadPage(p) \/ PollPage(p) \/ LeavePage(p)

Reloads(p) == p \in DOMAIN pages /\ pages[p].stage = "reloading" /\ LoadPage(p)

\* An open page polls and reloads, and its requests succeed now and then.
Fairness == \A p \in Readers : WF_vars(PollPage(p)) /\ WF_vars(Reloads(p))

Spec == Init /\ [][Next]_vars /\ Fairness

-----------------------------------------------------------------------------
(* Properties.                                                             *)

Stages == {"polling", "reloading", "leaving"}

TypeOK ==
    /\ scenario \in Scenarios
    /\ \A k \in DOMAIN issued : issued[k].index \in wallet.valid
    /\ \A r \in receivers : r.address_id \in DOMAIN issued /\ r.pool \in Pools
    /\ \A r1, r2 \in receivers :
        (r1.pool = r2.pool /\ r1.fingerprint = r2.fingerprint) => r1 = r2
    /\ DOMAIN links \subseteq Sessions
    /\ \A p \in DOMAIN links : links[p].address_id \in DOMAIN issued
    /\ lock \in Sessions \cup {NoSession}
    /\ tip \in 0 .. MaxTip
    /\ \A i \in DOMAIN txs : txs[i].place \in Gone .. tip
    /\ \A u \in DOMAIN rows : rows[u].address \in DOMAIN issued
    /\ current \in BOOLEAN
    /\ DOMAIN pages \subseteq DOMAIN links
    /\ \A p \in DOMAIN pages :
        pages[p].status \in PaymentStatus /\ pages[p].stage \in Stages

\* AnsweredIsPayable: the link of every answered session leads to the address
\* and the amount of its answer, with its own return URL; the address has a
\* receiver in every pool, and no other session was given it.  Requests run
\* side by side and may die between the allocation and the link.
AnsweredIsPayable ==
    \A s \in Sessions : req[s].step = "answered" =>
        /\ s \in DOMAIN links
        /\ LET a == links[s].address_id
           IN  /\ AnswerOf(s) = QrText(issued[a].index, issued[a].amount)
               /\ links[s].return_url = req[s].request.return_url
               /\ {r.pool : r \in {q \in receivers : q.address_id = a}} = Pools
               /\ \A p \in DOMAIN links \ {s} :
                    issued[links[p].address_id].index # issued[a].index

\* The valid indices above every issued one.
FreeIndices == {i \in wallet.valid : \A k \in DOMAIN issued : issued[k].index < i}

\* No address can be issued any more: no index is left, or the receivers of
\* the next one have the fingerprint of an issued address.
Blocked ==
    \/ FreeIndices = {}
    \/ \E k \in DOMAIN issued, p \in Pools :
        FingerprintOf(p, issued[k].index) = FingerprintOf(p, Min(FreeIndices))

\* RefusedOnlyWhenBlocked: sessions that allocate at the same time, and
\* addresses left behind by requests that failed half way, never make a
\* session fail for want of an address while there is one.
RefusedOnlyWhenBlocked ==
    (\E s \in Sessions : req[s].step = "refused") => Blocked

\* The transaction counts: it is in the mempool, or deep enough in the chain
\* and not dropped by the spam filter.
Counts(i) ==
    IF txs[i].place > 0
    THEN Kept(txs[i], txs[i].place) /\ DepthOf(txs[i].place, tip) >= ReportConf
    ELSE txs[i].place = 0 /\ ReportConf = 0

PaidBy(i, a) ==
    MapThenSumSet(LAMBDA k : txs[i].outputs[k].value,
                  {k \in DOMAIN txs[i].outputs : txs[i].outputs[k].to = issued[a].index})

\* What chain and mempool pay to an address.
PaidTo(a) == MapThenSumSet(LAMBDA i : PaidBy(i, a), {i \in DOMAIN txs : Counts(i)})

\* CreditedExactly: when the network has not moved since an iteration of the
\* sync loop, every address has exactly what was paid to it: each output once, whatever
\* its pool, its place in the transaction and the way it took through
\* mempool, blocks and reorganisations, and no output of another address.
\* (A mempool transaction encoded for another upgrade is found when mined.)
CreditedExactly ==
    (current /\ \A i \in InMempool : Parses(txs[i], tip)) =>
        \A a \in DOMAIN issued : TotalOf(a) = PaidTo(a)

\* RestCompletes: paying what the status route asks for completes the payment
\* exactly, at every total: nothing is lost or added when the rest is turned
\* into decimal text and read back by the payer's wallet.
RestCompletes ==
    \A p \in DOMAIN links :
        LET a == links[p].address_id
            s == StatusOfLink(p)
            requested == ParseZecAmount(issued[a].amount)
        IN  (requested # NoValue /\ ~Settled(s.status)) =>
                TotalOf(a) + ParseZecAmount(s.qr_text.amount) = requested

\* The page shows the status as it is now and, if there is something to pay,
\* the request as it is now.
ShowsNow(p) ==
    LET s == StatusOfLink(p)
    IN  /\ pages[p].stage = "polling"
        /\ pages[p].status = s.status
        /\ pages[p].controls = ~Settled(s.status)
        /\ pages[p].controls => pages[p].qr_text = s.qr_text

\* PagesCatchUp: when the receipts stop changing, every open page that has not
\* left for its return URL comes to show what is true, also after a receipt
\* that had settled it was revoked.
PagesCatchUp ==
    <>[][UNCHANGED rows]_vars =>
        \A p \in Readers :
            <>[](p \in DOMAIN pages =>
                    pages[p].stage = "leaving" \/ ShowsNow(p))

-----------------------------------------------------------------------------
(* The inductive invariant of the address book, which no step of the       *)
(* network, the scan or the pages touches.                                 *)

Requests == UNION {scenario.requests[s] : s \in Sessions}

Steps == {"idle", "rejected", "begin", "insert", "link", "answered", "refused", "failed"}

ReqStates == [step : Steps, request : Requests \cup {NoAmount},
              last : wallet.valid \cup {NoIndex}, id : Nat]

BookTypes ==
    /\ scenario \in Scenarios
    /\ issued \in Seq([index : wallet.valid, amount : {r.amount : r \in Requests}])
    /\ lock \in Sessions \cup {NoSession}
    /\ DOMAIN links \subseteq Sessions
    /\ req \in [Sessions -> ReqStates]

\* Addresses are issued in the order of their indices.
IndicesGrow ==
    \A j, k \in DOMAIN issued : j < k => issued[j].index < issued[k].index

ReceiversExact ==
    receivers = UNION {NewReceivers(k, issued[k].index) : k \in DOMAIN issued}

\* A session that is about to insert holds the lock, so what it read is true.
LockHeld ==
    \A s \in Sessions :
        /\ req[s].step = "insert" <=> lock = s
        /\ req[s].step = "insert" => req[s].last = LastIndex

\* A session under way has a request.
RequestHeld ==
    \A s \in Sessions :
        req[s].step \in {"begin", "insert", "link", "answered"} =>
            req[s].request \in Requests

HasAddress(s) == req[s].step \in {"link", "answered"}

\* The address of a session is its own, and was issued for what it asked.
AddressOwn ==
    \A s \in Sessions : HasAddress(s) =>
        /\ req[s].id \in DOMAIN issued
        /\ issued[req[s].id].amount = req[s].request.amount
        /\ \A t \in Sessions \ {s} : HasAddress(t) => req[t].id # req[s].id

\* The links are those of the answered sessions.
LinksAnswered ==
    \A s \in Sessions :
        /\ s \in DOMAIN links <=> req[s].step = "answered"
        /\ s \in DOMAIN links =>
            links[s] = [address_id |-> req[s].id, return_url |-> req[s].request.return_url]

BookInv ==
    /\ BookTypes
    /\ IndicesGrow
    /\ ReceiversExact
    /\ LockHeld
    /\ RequestHeld
    /\ AddressOwn
    /\ LinksAnswered
    /\ RefusedOnlyWhenBlocked

-----------------------------------------------------------------------------
(* The inductive invariant of the ledger, for CreditedExactly and          *)
(* RestCompletes.                                                          *)

\* No two issued addresses share a receiver.
FingerprintsDiffer ==
    \A j, k \in DOMAIN issued : \A p \in Pools :
        FingerprintOf(p, issued[j].index) = FingerprintOf(p, issued[k].index) => j = k

Output == [pool : Pools, value : Nat, to : Nat]

Transaction ==
    [id : Nat, outputs : Seq(Output), others : Nat, branch : {0, 1}, place : Int]

\* Transactions pay issued addresses.
TxsOK ==
    /\ tip \in Nat
    /\ txs \in Seq(Transaction)
    /\ \A i \in DOMAIN txs :
        /\ txs[i].id = i
        /\ txs[i].place \in Gone .. tip
        /\ \A k \in DOMAIN txs[i].outputs :
            \E a \in DOMAIN issued : issued[a].index = txs[i].outputs[k].to

Page == [status : PaymentStatus, qr_text : [address : Nat, amount : Amounts],
         controls : BOOLEAN, stage : Stages]

\* Pages ask for payments to issued addresses.
PagesOK ==
    \A p \in DOMAIN pages :
        /\ pages[p] \in Page
        /\ \E a \in DOMAIN issued : issued[a].index = pages[p].qr_text.address

Uid(i, k) == ReceiptUid(txs[i], k)

\* Every row is that of an output, with its value and the address it pays.
RowsTrue(old) ==
    /\ \A u \in DOMAIN old :
        \E i \in DOMAIN txs : \E k \in DOMAIN txs[i].outputs : u = Uid(i, k)
    /\ \A i \in DOMAIN txs : \A k \in DOMAIN txs[i].outputs : Uid(i, k) \in DOMAIN old =>
        /\ old[Uid(i, k)].value = txs[i].outputs[k].value
        /\ old[Uid(i, k)].address \in DOMAIN issued
        /\ issued[old[Uid(i, k)].address].index = txs[i].outputs[k].to

\* The rows of a transaction come and go together.
RowsTogether(old) ==
    \A i \in DOMAIN txs : \A j, k \in DOMAIN txs[i].outputs : Uid(i, j) \in DOMAIN old =>
        /\ Uid(i, k) \in DOMAIN old
        /\ old[Uid(i, k)].kind = old[Uid(i, j)].kind
        /\ old[Uid(i, k)].active = old[Uid(i, j)].active

Row == [address : Nat, value : Nat, kind : {"mempool", "mined"},
        eligible : BOOLEAN, active : BOOLEAN]

\* There are rows of the mempool only if unconfirmed payments are reported.
KindsOK(old) ==
    \A u \in DOMAIN old :
        /\ old[u] \in Row
        /\ old[u].kind = "mempool" => ReportConf = 0 /\ old[u].eligible

LedgerOK(old) == RowsTrue(old) /\ RowsTogether(old) /\ KindsOK(old)

\* A development server has simulated rows and nothing else.
SimulatedOK ==
    /\ IsFiniteSet(DOMAIN rows)
    /\ \A u \in DOMAIN rows : rows[u].value \in Nat
    /\ txs = << >> /\ ~current

\* The rows that count are those of the transactions that count.
Exact(old) ==
    \A i \in DOMAIN txs : \A k \in DOMAIN txs[i].outputs :
        (Uid(i, k) \in DOMAIN old /\ old[Uid(i, k)].active /\ old[Uid(i, k)].eligible)
            <=> Counts(i)

CurrentOK == (current /\ \A i \in InMempool : Parses(txs[i], tip)) => Exact(rows)

LedgerInv ==
    /\ FingerprintsDiffer
    /\ TxsOK
    /\ PagesOK
    /\ IF dev THEN SimulatedOK ELSE LedgerOK(rows) /\ CurrentOK
=============================================================================
