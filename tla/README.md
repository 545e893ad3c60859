# A TLA+ model of the zcash payment service

The payment service hands out a fresh shielded address per order, watches the
chain and the mempool through lightwalletd, keeps one running total per address
and tells the merchant's store about every change by webhook. It holds no
spending key. What can go wrong is therefore bookkeeping: a payment counted
twice, lost, left standing after a reorganisation, or never reported. The
modules here model that bookkeeping, and the interleavings, failures and
restarts it has to survive.

Paths in this document are relative to the repository; `db.rs`,
`wallet_runtime.rs`, `webhook_delivery.rs`, `scanner.rs`, `service.rs`,
`receipt_ingest.rs` and `lib.rs` are the files of `src/src/`.

## 1. Inventory

### Processes and tasks

One process (`lib.rs`, `run_with_config`) opens the SQLite database, checks it
against the configuration, recovers the outbox, and then runs three things:

| task | code | writes |
|---|---|---|
| HTTP service | `service.rs` | payment sessions, addresses, links (and, on a testnet development server, simulated receipts) |
| wallet sync loop | `wallet_runtime.rs` | receipts, address totals, sync status; queues deliveries |
| webhook worker | `webhook_delivery.rs` | delivery states, acknowledgments; queues deliveries |

They share the database and nothing else. Every method of `db.rs` that writes
is one `BEGIN IMMEDIATE` transaction, so methods are atomic and serialised;
everything *between* two methods is an interleaving point and a crash point.

### Components

| component | state | operations | what makes it correct |
|---|---|---|---|
| webhook outbox (`db.rs` 1340-1780) | `address_totals`, `webhook_deliveries` | recompute, queue, claim, record success / retry / permanent failure, recover, queue all dirty | the newest total is never shadowed by an older event; acknowledgments only move forward; retry budget; nothing is stranded by a restart |
| webhook worker (`webhook_delivery.rs`) | the delivery in hand | claim, POST, classify the answer, record | decides on the attempt count it read; one delivery at a time |
| startup (`lib.rs`, `db.rs`) | `service_metadata` | apply a changed `REQUIRED_CONFIRMATIONS`, recover interrupted deliveries, queue dirty addresses | may die between any two of its steps |
| scan planning (`wallet_runtime.rs`) | none | pure functions over `u32` heights | the overlap covers every height a reorganisation below finality can touch; batches tile the range |
| download pipeline (`wallet_runtime.rs` 895-1085) | fetches in flight, a bounded channel | spawn, await in order, send, receive, scan | order, completeness, bounded memory, termination after any failure |
| wallet sync loop (`wallet_runtime.rs` 225-720) | `sync_state`, the locals of one iteration | sample tip, revoke above tip, reconcile overlap, scan batches, mature, reconcile mempool, record, wait | ledger and totals follow the chain although it moves during the iteration |
| receipts ledger (`db.rs` 640-1340, `receipt_ingest.rs`) | `receipts` | four reconciliations, maturity, recompute | total = active eligible receipts; a payment moves from mempool to block without a dip |
| lightwalletd client (`scanner.rs`) | one cached channel per URL, the open mempool stream | tip, block range, mempool txids, transaction, wait for a block | a retry uses a new connection; a range is read once; a call ends; a new block ends the wait |
| note scanning (`scanner.rs`, `receipt_ingest.rs`, `zcash.rs`) | none | spam filter, decrypt, match an output to an issued address, name the receipt | each output credited once, to its address |
| payment sessions, address allocation (`service.rs`, `db.rs`) | diversifier index, `issued_addresses`, `address_receivers`, `payment_links` | validate, allocate, store link | no address issued twice; an answered session can be paid |
| HTTP API, pay page (`service.rs`, `pay_page.rs`) | the page in the payer's browser | status, page, poll, reload, redirect | what is shown and asked for is what is true; the rest asked for completes the payment |
| simulated payments (`service.rs`) | `simulated_data_marker`, receipts | mark, record | simulated data never mixes with scanned data |
| configuration (`config.rs`) | none | accept or refuse an environment | what is accepted is coherent |
| startup identity (`db.rs`, `service.rs`) | singleton rows | insert or compare | a changed key, network or setting is refused, also in a race |
| schema migrations (`db.rs`) | the schema | create, rebuild pools, add columns | complete for whoever is past them, whoever did the work |
| wallet database (`wallet_db.rs`) | set of migrated paths, a lock | open, migrate once | no task of the process is connected during the migration |
| PrestaShop module (`plugins/prestashop/`) | the order, its row in `zcash_payment_order`, a lock per order | checkout session, webhook, state-change and credit-slip hooks | a shortfall holds a paid order, only the module's own hold is released, a cancelled or refunded order is never completed, a covered one is |
| other store plugins (`plugins/`) | newest `state_version` per order | verify, decide, capture | the same promises |
| node client, logging | – | – | see section 8 |

### Interactions

* sync loop -> outbox: after each ledger transaction, a *second* transaction
  queues deliveries for the addresses the first one returned.
* worker -> outbox: recording a success runs the same queue helper inside its
  own transaction, so a total that changed while the request was out is queued
  there.
* worker -> store: an HTTP request that may be lost, answered late, or applied
  without the worker learning of it. `event_id` is (address, `state_version`).
* store -> service: before it completes an order the store reads the total once
  more (`GET /payments/{id}`), outside any transaction of the sync loop.
* merchant -> store: state changes and refunds go through the module's hooks and
  its lock; edits of the order do not.
* lightwalletd -> sync loop: the tip, blocks and the mempool are separate
  requests; each answers for the chain at that moment. Concurrent requests share
  one channel; whoever fails on it removes whatever is cached.
* payer's page -> service: polls the status; reloads when it shows something
  else than before.
* process <-> process: two processes may overlap on the same files, for example
  during a redeployment; nothing but SQLite serialises them.

### What is hard

A reorganisation between two requests of one iteration; a block mined between
the tip sample and the mempool snapshot; a crash or an error between the
transaction that recomputes a total and the one that queues it; an older
delivery that succeeds after a newer one; a delivery that was applied and is
recorded as failed; three concurrent downloads that end in any order while the
scanner fails; a restart with another `REQUIRED_CONFIRMATIONS`; a merchant who
cancels while a webhook waits for the service; two first starts on one file; a
request that dies between its address and its link; a connection that stays
open and silent. The complete
list, each with its line, is under `hazards` in `PROJECT.json`.

## 2. Modules

| module | models | depends on |
|---|---|---|
| `ReportedTotal` | what the outbox promises: a versioned register per address | – |
| `WebhookOutbox` | outbox, worker, startup recovery, receiver | `ReportedTotal` (refinement) |
| `MCWebhookOutbox` | instances for TLC | `WebhookOutbox` |
| `WebhookOutboxProofs` | theorems, among them the refinement of `ReportedTotal` | `WebhookOutbox` |
| `SyncPlan` | the height arithmetic, as operators | – |
| `SyncPlanProofs` | lemmas about it | `SyncPlan` |
| `DownloadPipeline` | downloader task, channel, scanner task | `SyncPlan` |
| `MCDownloadPipeline` | instances | `DownloadPipeline` |
| `DownloadPipelineProofs` | theorems | `DownloadPipeline`, `SyncPlanProofs` |
| `ChainSync` | chain, mempool, one iteration step by step, ledger, totals | `SyncPlan` |
| `MCChainSync` | instances | `ChainSync` |
| `ChainSyncProofs` | theorems | `ChainSync`, `SyncPlanProofs` |
| `StoreOrder` | one order of a PrestaShop store: checkout, webhook handler, merchant | – |
| `StoreDelivery` | the order under any sequence of events | `StoreOrder` |
| `MCStoreDelivery` | instances | `StoreDelivery` |
| `StoreDeliveryProofs` | theorems | `StoreDelivery` |
| `StoreOutbox` | outbox and store composed | `WebhookOutbox`, `StoreOrder` |
| `MCStoreOutbox` | instances | `StoreOutbox` |
| `ServiceConfig` | which environments are accepted, as operators | – |
| `Startup` | opening, migrating and checking the files, by overlapping processes | `ServiceConfig` |
| `MCStartup` | instances | `Startup` |
| `StartupProofs` | theorems | `Startup` |
| `PaymentRequest` | amounts, status and pay page, as operators | – |
| `AddressBook` | payment sessions: allocation and link | `PaymentRequest` |
| `NoteScan` | which outputs become which receipts, as operators | – |
| `Payments` | sessions, chain, scan, ledger and pages together | `AddressBook`, `NoteScan` |
| `MCPayments` | instances | `Payments` |
| `PaymentsProofs` | theorems | `Payments` |
| `LightwalletdClient` | channel cache, attempts, timeouts, the wait for a block | – |
| `MCLightwalletdClient` | instances | `LightwalletdClient` |
| `LightwalletdClientProofs` | theorems | `LightwalletdClient` |

Definitions whose comment begins with `Mutant:` are faulty variants of the
definition that follows; nothing refers to them. They record, per property,
which plausible mistake in the code the property detects.

### WebhookOutbox

State and code:

* `totals[a]` is the row of `address_totals`: `report` (total and
  `received_by_confirmations`), `version` (`state_version`), `dirty`
  (`dirty_state`), `notified` (`last_notified_*`), `acked`
  (`last_notified_event_id`, as a position in the log, 0 for NULL).
* `deliveries[a]` is the `webhook_deliveries` rows of the address in
  `delivery_id` order. Rows are never deleted.
* `affected` is the list of ids between the recompute and the queue call; it is
  a local of the sync loop and dies with the iteration.
* `job`, `answered` are the worker's locals; `wire` the requests that may still
  reach the receiver; `received` the receiver, which every plugin implements as
  "apply only a greater `state_version`".
* `phase` walks through `run_with_config`: `down`, `initialized`
  (`apply_required_confirmations`), `recovered`
  (`recover_interrupted_webhook_deliveries`), `up`
  (`queue_all_dirty_webhook_deliveries`).

Each database method is one action. What the receipts add up to is an input: a
recompute may find any report allowed by the configured number of
confirmations (an array that starts with the total and never increases). Which
ready row a claim takes is left open: `ORDER BY observed_at` compares RFC 3339
text whose fractional seconds lose trailing zeros, so it does not fix the order
of events. The backoff is "due at some time". The signature, headers and the
text of the payload are left out.

`Faults` selects among `crash`, `sync_error` (an error between recompute and
queue), `record_error` (the outcome of an attempt cannot be written) and
`late_arrival` (a request reaches the receiver after the worker gave it up).

`ReportedTotal` is the outbox without rows, queues, attempts and restarts: a
total changes and takes the next version, may be published, may be heard by the
receiver if it is newer than what the receiver has, and may become known to the
service as heard. `ImplementsReportedTotal` maps the row to `current`, the log
to `published`, the receiver to `heard` and the acknowledgment to `known`; that
a restart with another `REQUIRED_CONFIRMATIONS` rebuilds the arrays without a
new version is invisible there, and nothing that was published is ever altered
or heard out of order.

### SyncPlan and DownloadPipeline

`SyncPlan` has the planning functions as operators with the saturation of
`u32`. `DownloadPipeline` has one action per step of `run_ordered_downloads`
(spawn while there is room, pop the oldest handle, await, send or be refused)
and of the receive loop of `scan_batches_with_pipeline` (receive, scan and
record, fail, notice the closed channel and join). A fetch ends as `ok`,
`error` or `panic`; the setup between spawning the downloader and the first
receive may fail too. Returning from the scan drops the receiver and leaves the
downloader behind, as the code does.

### ChainSync

The network is `chain` (a sequence of blocks, each a set of transactions),
`mempool`, and `highest`, which bounds a reorganisation to fewer than
`Finality` blocks. Blocks are mined, the tip is rewound and replaced,
transactions are broadcast and evicted, a provisional receipt passes 24 hours,
all between any two steps of the sync task.

`pc` walks through `sync_with_lightwalletd_with`, one value per database
transaction or network request whose order matters. `Commit` is the common tail
of the four ledger methods: write the rows, recompute the addresses whose rows
changed, mark changed totals dirty, return the ids. A total is represented by
the *set of transactions it sums*, so an amount counted twice or left out is
visible whatever the amounts are; `totals[a][i]` is entry `i` of
`received_by_confirmations` (entry 0 is the total). One transaction pays one
output to one address.

A network read and the transaction that writes its result are one step where
nothing else can use the value in between: the sync loop is the ledger's only
writer. Where it matters they are two: forward batches are read up to `Ahead`
batches early (`DownloadBatch`), and the mempool snapshot precedes the
transaction fetches and the tip check. A read that returns fewer blocks than
asked is a read of empty blocks.

An iteration ends early in three ways, each at every step where the code allows
it: a request to lightwalletd fails (`io_error`, at the steps `Requests`); a
call of the app database fails, which is a transaction of the ledger, a queue
call or a record of the status (`db_error`, at the steps `DatabaseCalls`); or
the process dies (`crash`). After the first two the process runs on with
whatever was committed: `IterationFails` drops the ids that were about to be
queued, and the addresses stay dirty. After a crash the start queues all dirty
addresses. A call that fails is rolled back, so it is the step that does not
happen.

`quiet`, `cut`, `dropped` and `unrecorded` are history variables. Nothing moved
since the tip was sampled; an iteration was cut off; the dirty addresses whose
ids failed iterations dropped, which no queue call has named since; the receipts
of batches whose height was not recorded, because the iteration ended between
the batch's ledger transaction and `record_sync_status`. No guard reads them:
they say which states a property has to except, and nothing more.

### StoreOrder, StoreDelivery and StoreOutbox

`order` is the shop's order (its state, its total with currency, whether it
still uses this payment method, whether it was refunded), `record` the row of
`zcash_payment_order`, `handler` the webhook request that holds the order's
named lock, `checkout` the request that places the order. States are grouped
as the code groups them: the awaiting state, two paid states (one that the
module sets, one that only the merchant sets), the hold state, closed ones, and
any other.

`apply` is one action per statement that another actor can get in front of:
`BeginDelivery` reads and decides, `MarkHold` and `HoldOrder` are the two
writes of `auto_hold`, `ServiceAnswers` is the status request with the second
reading of the order, `CompleteOrder` the state change, `RecordVersion` the
last write. In between the request may die or a statement fail, and the
merchant may do whatever needs no lock: edit the order, change the payment
method, clear the review. State changes of the merchant wait for the lock;
a credit slip gives up waiting after ten seconds and goes on (`lock_timeout`).
`received_zat` and `seen_zat` only feed notes and pages and are left out.

`past` is a history variable, computed in one place (`Remember`) from the
change of the other variables.

In `StoreDelivery` every state the address ever had may arrive as an event, at
any time, any number of times. In `StoreOutbox` the requests are those of the
delivery worker, the status request reads `address_totals`, and the answer is
what the worker records.

### ServiceConfig and Startup

`ServiceConfig` turns an environment into a configuration or refuses it
(`Config::from_env` and the URL checks): which variables go together, the
bounds of the numbers, the derived values. Listen address, log directory and
the texts of errors are left out.

`Startup` runs any number of processes on one app file and one wallet file. A
*task* is a caller: `http` is `PaymentService::initialize` (a program that
embeds the crate may have several), `sync` the sync loop, which opens both
files again in each iteration, `worker` the webhook worker. Each statement that
reads or commits is an action, named for what it does: look in the cache of
migrated paths, take the init lock, migrate the wallet file; the schema batch,
the pool rebuild, looking for a column and adding it; reading and inserting
each singleton row; `apply_required_confirmations`; the last checks. A start
that fails ends its process. A
process may crash anywhere, a database may be busy, and a busy wallet file is
read as one without an account. `overlapped` is a history variable.

### PaymentRequest, AddressBook, NoteScan and Payments

`PaymentRequest` has the decimal text of an amount as a whole part and a
sequence of digits, its conversion to zatoshi and back with the checks of
`service.rs`, the payment status, the QR request and the page's script as
operators on records. `AddressBook` has a session step by step: validate, take
the write lock and allocate (next valid diversifier above the last index, one
receiver per pool, unique fingerprints), then store the link in a transaction
of its own; a request may die or find the database busy between them.
`NoteScan` says which outputs of a transaction become receipts: the spam filter
on the number of outputs in the window, the branch a mempool transaction is
parsed with, the receipt id from transaction, pool and output index, and the
attribution to an address by receiver fingerprint. Whether an output decrypts
is external.

`Payments` puts them on a chain and a mempool. A scan is one action here; what
happens when the chain moves within an iteration is the subject of `ChainSync`.
The last blocks are scanned again in each iteration, and the page is a record
that `LoadPage`, `PollPage` and `LeavePage` change as the script does. In a
development scenario nothing is scanned and `SimulatePayment` writes the
receipts. Labels, memos and messages are left out.

### LightwalletdClient

A call is one run of `with_lightwalletd_retry`: get the cached channel or
connect without holding the lock, send the request, and on a failure remove
whatever channel is cached, wait and try again. Channel numbers stand for
connections; a number is free again once no handle to it is left. A connection
is up, half open (HTTP/2 pings will find out), mute (the server answers pings
and nothing else) or broken. The sync loop is reduced to what decides which
calls run at the same time: the downloads of an iteration, then the wait on the
mempool stream with its first tip check and its tip poll, which a periodic
mempool reconciliation suspends.

## 3. Runs

| run | configuration | checks |
|---|---|---|
| `outbox` | one address, totals 0..1, N unset or 1, two attempts, two versions, all faults | `LastWord`, `ReceiverAgrees`, `RetryBudget`, `OutboxInv`, `AckNeverMovesBack`, `ImplementsReportedTotal` |
| `outbox_live` | the same with crashes only, fair | `SendingIsOwned`, `EventuallyTold` |
| `outbox_forgotten` | fair, sync errors | `DirtyIsPosted` is violated |
| `pipeline` | concurrency 3, depth 4 (the code's values), several ranges and batch sizes, fair | `InOrder`, `Complete`, `PipelineInv`, `Terminates` |
| `sync` | mempool mode, two interchangeable transactions (symmetry) to one address, arrays of depth 2, finality 2, four blocks, all faults | `TypeOK`, `TotalsMatchReceipts`, `WindowExact`, `QuietIsExact`, `NothingForgotten` |
| `sync_deep` | one transaction, finality 3, eight blocks, threshold of 2 confirmations, birthday above the first block; reorganisations, failed requests and database calls, crashes | `WindowExact`, `QuietIsExact`, `ReorgLowersTotal` |
| `sync_steady` | fair; no reorganisation, eviction or aging; failed requests and database calls, crashes; two transactions, one address | `NoDip`, `EventuallyScanned` |
| `store` | two prices, three versions, four moves of the merchant, all faults | `ShortIsHeld`, `OwnHoldOnly`, `FlaggedNeverCompleted` |
| `store_superseded` | outbox and store, no faults, no merchant | `CoveredIsAccepted` is violated |
| `startup` | two overlapping processes with a sync loop, or one process with two services and a worker; environments that are accepted, refused, or in conflict; fresh and old files; one failure | `IdentityAgreed`, `SettingsAgreed`, `SchemaComplete`, `SiblingsKeepOut`, `ScansRealOnly`, `EventuallyUp` |
| `payments` | two sessions, at most two transactions of several outputs, two blocks with an upgrade between them; development servers with distinct, colliding and exhausted keys | `AnsweredIsPayable`, `RefusedOnlyWhenBlocked`, `CreditedExactly`, `RestCompletes`, `PagesCatchUp` |
| `client` | two downloads, then the wait with its reconciliations; two attempts, two faults, ranges of two blocks | `RetryOnFresh`, `RangeExact`, `CallsEnd`, `TipMoveWakes` |

`TypeOK` of `ChainSync` is checked by `sync`, that of `DownloadPipeline` as part
of `PipelineInv`. Those of the other modules are part of the inductive
invariants of section 5 and proved with them; in `Payments` they are `BookTypes`,
`TxsOK`, `PagesOK` and `KindsOK`.

What they show, in words:

* **outbox.** Whatever the order of recomputes, claims, answers, lost and late
  requests, unrecorded outcomes, crashes and changes of
  `REQUIRED_CONFIRMATIONS`: an address that is not dirty has its current total
  as the last word of its log, and if its newest delivery is the acknowledged
  one the receiver holds that total. The outbox implements the register of
  `ReportedTotal`.
* **pipeline.** Batches are scanned in height order without gap or repetition
  in whatever order fetches end, `Ok` means the whole range, and both tasks end
  also when one fails while the other waits.
* **sync.** Below the window that the next iteration reads again the ledger is
  exact in *every* state; the total equals the active eligible receipts after
  every transaction; an iteration during which nothing moved ends with exact
  totals, whatever the iterations before it left behind. The deeper elements of
  `received_by_confirmations` are exact as well, unless an earlier iteration was
  cut off and the address has several receipts (section 6). Between iterations
  the addresses that are dirty are those whose ids a failed iteration dropped,
  by a failed overlap read or a failed queue call, and no others.
* **sync_deep.** The same with a deeper window. An undisturbed iteration leaves
  a receipt above the tip only if it belongs to a batch whose height was not
  recorded (section 6); every other reorganisation lowers the total.
* **sync_steady.** While blocks only arrive, a payment that is counted stays
  counted through its way from the mempool into a block; and once iterations
  stop failing, every block is scanned.
* **store.** When the store has recorded a shortfall, the order is not left in
  a paid state; the handler never releases a hold the merchant set and never
  completes an order that was cancelled or refunded, in whatever order events,
  retries and merchant changes come. The last two except orders whose request
  died between the two writes of `auto_hold`, or whose flag was set without the
  lock or not at all: the code does not recover from these.
* **startup.** Whichever of two first starts wins each row, a task that gets past
  the checks runs with the identity and the settings that are stored, on a
  complete schema; the wallet file is migrated while no sibling is connected to
  it; without overlapping processes simulated data is never scanned; and a
  process whose environment the files accept comes up in the end.
* **payments.** Sessions that run side by side or die half way leave every
  answered session with an address of its own that its link leads to, and none
  is refused while an address is left. After a scan that the network has not
  overtaken, each address has exactly what was paid to it. What the page asks
  for completes the payment to the zatoshi, and open pages come to show what is
  true, also after a reorganisation takes a payment back.
* **client.** With calls that connect, cache and remove channels under each
  other's feet, no attempt goes back to a channel that failed it, attempts are bounded, no
  range has a block twice, and only calls without a request timeout can hang, on a server
  that is connected and mute. Once the stream is open, a new block ends the
  wait even if the stream stalls.
* The two violations are disagreements between code and documentation; see
  section 6.

### Bounds

Two versions suffice for the outbox to have an acknowledged, an outstanding and
a current report that differ; two attempts give a retry and an exhaustion. One
address loses nothing: rows of different addresses interact only through the
worker's single job, and the proofs (section 5) cover any number. In
`sync_deep` a `Finality` of 3 lets a reorganisation replace two blocks, so that
an overlap has an inner block, and eight blocks leave several heights below the
window, which is where `WindowExact` speaks. One transaction stands there for
any number: receipts of different addresses meet in no guard and no update of
the ledger, only in the blocks and batches that hold them. Receipts of one
address do meet, when one of them has the others recomputed, and that is what
`sync` is for: two receipts of one address in mempool mode, at a finality of 2,
with every fault. Four blocks are the fewest that put a block which can be
replaced below the window; they are affordable because states are compared by
`LiveView` of `MCChainSync`, which leaves out what no later step and no property
of the run can read: the locals of an iteration that has ended, the cursor after
the scan, the contents of inactive receipts, and `unrecorded`. (Without the view
the run finds no error either, among five times as many states.) `Ahead` of 2
lets a stale batch wait behind a fresh one. The pipeline uses the code's own constants, and ranges of up to seven heights, so
that the channel can fill while three fetches are in flight. Three versions
and four moves let an order be paid, held, released and held again with a
merchant's change in each place; amounts need only tell covered from short.
`startup`: two processes are enough to lose any race; one failure is a crash or
a busy database in any place, and since a failed start is restarted it meets
every half-finished state of the files. It disables the deadlock check because
processes that were refused and stopped have nothing left to do. `payments`: a
transaction with two outputs in two pools, one to two addresses and one above
the spam threshold (2 for the code's 50); two blocks give a reorganisation and
an upgrade height; two decimals stand for eight. Its deadlock check is off
because all sessions may have ended. `client`: two attempts (3 in the code)
and two faults, so that a call can run out of attempts and that two calls can
fail on different channels; eight channel numbers are never exhausted. `MaxU32` stands
for `u32::MAX`; no theorem or run lets the tip reach it.

## 4. Fairness

* Outbox: weak fairness of the worker (its loop polls, and each attempt ends)
  and of startup (a supervisor restarts the process); strong fairness of the
  queue call (iterations that recompute again and again do not all fail before
  it). Nothing is assumed of the receiver, the network, the funds or crashes.
  The HTTP client of the worker has no timeout, so "each attempt ends" is an
  assumption about the connection, not about the code: a receiver that accepts
  the connection and never answers stops all deliveries.
* Pipeline: weak fairness of both tasks and of the fetches. HTTP/2 keepalive
  and the bounded retries of `scanner.rs` end each fetch, unless a server stays
  connected and mute: `CallsEnd` of `LightwalletdClient` says exactly that.
* Sync loop: weak fairness of its steps, strong fairness of waking up when the
  tip is higher, because the tip is polled each interval independently of the
  mempool stream. Nothing obliges the network to move. `EventuallyScanned` is
  conditional on iterations that fail, or crash, only finitely often.
* Store: no fairness; its properties are safety properties.
* Startup: weak fairness of each task's steps, and of the supervisor that
  restarts an exited process. A first start and a simulated payment are free
  choices.
* Payments: open pages poll and reload (weak fairness), and such requests
  succeed in the end. Sessions, the network and the sync loop owe nothing:
  `PagesCatchUp` is about what happens once receipts stop changing.
* Client: weak fairness of each call (its timers fire, a standing connection is
  answered), of a reconciliation and of the keepalive; strong fairness of the
  wait, which reconciliations suspend again and again but to which `select!`
  always comes back. Nothing obliges a mute server to go away.

## 5. Proofs

Eight modules hold proofs that TLAPS checks, each beside the model it is about.
The theorems hold for every value of the constants that satisfies the named
assumptions of the modules: any number of addresses, transactions, sessions,
tasks, calls and events, any finality depth, batch size, retry limit, key and
environment. Bounds on counters (`MaxVersion`, `MaxTip`, `MaxMoves`, ...) are
constants like the others. The properties with a theorem are those that the
runs check, under the same definitions.

| module | theorem | states |
|---|---|---|
| `WebhookOutboxProofs` | `TypeCorrect`, `Invariance` | `TypeOK`, `TypeOK /\ OutboxInv` |
| | `LastWordTheorem`, `RetryBudgetTheorem`, `ReceiverAgreesTheorem` | the invariant of that name |
| | `SendingTheorem` | `SendingIsOwned` |
| | `AckTheorem` | `AckNeverMovesBack`, an action property |
| | `Refinement` | `ImplementsReportedTotal` |
| `DownloadPipelineProofs` | `PipelineInvariance`, `InOrderTheorem`, `CompleteTheorem` | `PipelineInv`, `InOrder`, `Complete` |
| `ChainSyncProofs` | `ControlInvariance`, `TypeTheorem` | `ControlInv`, `TypeOK` |
| | `TotalsTheorem` | `TotalsMatchReceipts` |
| | `LedgerInvariance`, `WindowTheorem` | `LedgerInv`, `WindowExact` |
| | `QueuedTheorem` | `NothingForgotten` |
| | `ReorgTheorem` | `ReorgLowersTotal` |
| | `QuietTheorem` | `QuietIsExact` |
| | `NoDipTheorem` | `NoDip`, an action property, if `Steady /\ Birthday <= 2` |
| `LightwalletdClientProofs` | `ClientInvariance`, `RetryTheorem`, `RangeTheorem` | `ClientInv`, `RetryOnFresh`, `RangeExact` |
| `StartupProofs` | `StartupInvariance` | `StartupInv` |
| | `IdentityTheorem`, `SettingsTheorem`, `SchemaTheorem`, `SiblingsTheorem`, `RealTheorem` | `IdentityAgreed`, `SettingsAgreed`, `SchemaComplete`, `SiblingsKeepOut`, `ScansRealOnly` |
| `StoreDeliveryProofs` | `DeliveryInvariance`, `ShortTheorem` | `DeliveryInv`, `ShortIsHeld` |
| | `OwnHoldTheorem`, `FlaggedTheorem` | `OwnHoldOnly`, `FlaggedNeverCompleted`, action properties |
| `PaymentsProofs` | `BookInvariance`, `AnsweredTheorem`, `RefusedTheorem` | `BookInv`, `AnsweredIsPayable`, `RefusedOnlyWhenBlocked` |
| | `LedgerInvariance`, `CreditedTheorem`, `RestTheorem` | `LedgerInv`, `CreditedExactly`, `RestCompletes` |
| `SyncPlanProofs` | lemmas only | batches, overlap and the grid of `SyncPlan` |

One theorem has a hypothesis, because the property fails without it: `NoDip` is
about a network that only adds (`Steady`: no reorganisation, eviction or aging),
to a chain that has reached the wallet's birthday (the first block of a
behaviour is block 1, so every later one is at or above a birthday of 2;
section 6 says what happens otherwise). Its run is configured in the same way.
No other theorem excludes a fault. `NothingForgotten` and `ReorgLowersTotal`
name what failures may leave behind instead: the addresses in `dropped` and the
receipts in `unrecorded`.

Inductive invariants are defined at the end of the module they belong to, and
hold on the instances of the runs as well. What each adds, and why it is needed:

* **OutboxInv.** `LastWord` is not inductive. That `INSERT OR IGNORE` may drop
  an event is harmless only because an event of the row's own version carries
  the row's total; that an acknowledgment may be taken for "already carried"
  only because `last_notified_total` is the total of the acknowledged event;
  that a late success changes nothing only because nothing newer than the
  acknowledgment has succeeded. `RowOK` relates a row to its log, `JobOK` the
  worker's job to a row in `sending`, `ReceiverOK` what the receiver holds to
  the log and the acknowledgment. There is a lemma for each row operation and
  one for each action. The refinement maps each address separately: a recompute
  is a `Change`, a queue transaction a `Publish`, an applied request a `Hear`,
  a recorded success a `Learn` or a `Publish`, everything else a stutter.
* **PipelineInv.** The channel, the popped fetch and the fetches in flight tile
  what is left of the range, in this order; `OpenWhileScanning`, `ErrorIsLast`
  and `StoppedIsEmpty` say how the two tasks see each other's end. `InOrder`
  and `Complete` follow for any concurrency and depth, not only 3 and 4.
* **ControlInv and LedgerInv.** `WindowExact` speaks of recorded heights only.
  Inductively, `ExactOK` follows the exact part of the ledger through an
  iteration (after the overlap, after each batch, up to the cursor), and
  `ContentOK` says how wrong a stale download or mempool snapshot can be: not
  where its tip sees blocks as final, and never with a transaction that is
  final elsewhere. Both rest on `ControlInv`: rewinds stay below the finality
  depth, the forward scan continues where the recorded height ends, waiting
  downloads lie on the grid of batches. `QueueOK` and `HeightsOK` do the same
  for `NothingForgotten` and `ReorgLowersTotal`: what is dirty is about to be
  queued or was dropped, at every step; no mined receipt lies above the recorded
  height, the batch in progress or, once the iteration has revoked, its tip, but
  those of unrecorded batches.
* **QuietInv**, beside `LedgerInv`, for `QuietIsExact`. While nothing moves,
  what was read is what chain and mempool hold (`QuietReads`), so every height
  up to the cursor is exact, not only those below the window (`QuietExact`).
  The total is then right if every stored depth is that of the tip
  (`MaturedOK`), if the reconciliation left the receipts of the mempool active
  and no others (`MempoolOK`), and if the array of an address says what the
  stored depths say. This last part, `ArraysOK`, is what an iteration that is
  cut off can break: before the maturity pass an array may be ahead of the
  stored depths, and an iteration that goes on mends it.
* **SteadyInv**, for `NoDip`. An active mempool receipt is in the mempool, or in
  a block above the recorded height whose batch has not been committed yet
  (`SteadyMempool`). So when the receipt is not in the snapshot, its block is
  above the heights that have been scanned, and a reconciliation that may
  revoke has scanned up to its tip: the block is above the tip, the tip check
  sees it, and nothing is revoked.
* **ClientInv.** The cached channel is one on which no running call has failed,
  because a failing call removes whatever is cached and a number is reused only
  when no handle to it is left.
* **StartupInv.** One clause per task and kind of knowledge: what it may rely
  on at each of its steps (columns it found, rows it read, the lock it holds),
  given that other tasks only complete files and never take back what they
  did. A busy wallet file is the exception, hence `failures = 0` in `Belongs`.
* **DeliveryInv.** A request works on a newer state than the record has, what
  it set out to do is still what the order needs, and a hold marked as the
  module's own is one, or is about to be.
* **BookInv.** Addresses are issued in the order of their indices, receivers are
  exactly those of the issued addresses, and the session that is about to insert
  holds the lock, so the last index it read is still the last. Hence an
  allocation fails exactly in the states that `Blocked` describes, and since
  no address can be issued in such a state it stays one.
* **LedgerInv** of `Payments`, for `CreditedExactly` and `RestCompletes`. No two
  issued addresses share a receiver (`FingerprintsDiffer`), so an output is
  attributed to the address it pays. Every row is that of an output, which has
  a row of its own (`RowsTrue`; different outputs have different receipt ids),
  and the rows of one transaction are present, active and of a kind together
  (`RowsTogether`): it is why the mempool scan may skip a transaction of which
  it has one active row. `Exact`, that the rows that count are those of
  the outputs that count, is established by every iteration from any ledger
  (`SyncExact`) and kept by the periodic reconciliation (`MempoolExact`).
  Payments made from a page are to issued addresses because pages ask for
  nothing else (`PagesOK`). That makes the two sums equal: one over the rows of
  an address, the other over transactions and, in each, over outputs
  (`ExactTotals`, from `SumOfParts` and `SumRenamed`). For `RestCompletes`,
  `RoundTrip` shows that `parse_zec_amount` reads what `format_zat_as_zec`
  wrote, for every value and every number of decimals.

The sums and the powers of ten are defined by recursion. The induction that the
lemmas about them need is made from well-founded order: the set of
counterexamples, if it were not empty, would have a least element
(`SetInduction`, `SubsetInduction`), and the recursive function is shown to
exist before anything is said about it (`SumExists`, `PowerFacts`).

Assumptions worth naming: `PipelineAssumption` and `SyncAssumption` keep heights
below `MaxU32`, where the `u32` arithmetic saturates; `SyncAssumption` has one
owner per transaction; `StartupAssumption` types the numbers of an environment
and the birthdays of wallet accounts, and `RowAssumption` and `BookAssumption`
say that the values for an absent row and an absent index are no rows and no
indices. `TextAssumption` says that text which is no decimal number, and a
missing amount, are not decimal texts; `PayerAssumption` types what sessions
ask for and what payers send; `ScanAssumption` keeps the absent address apart
from the ids. TLC evaluates all of them.

Only model-checked:

* The liveness properties (`EventuallyTold`, `Terminates`, `EventuallyScanned`,
  `EventuallyUp`, `PagesCatchUp`, `CallsEnd`, `TipMoveWakes`), which the prover
  does not reach.
* What `StoreOutbox` shows of store and outbox together.

## 6. Where code and documents disagree

1. *A dirty address can be forgotten* (`outbox_forgotten`,
   `wallet_runtime.rs:286`). An error between the revocation above the tip and
   the queue call drops the list of affected ids; later iterations see no
   change, so the address stays dirty until it changes again or the process is
   restarted. An error of a queue call itself (`wallet_runtime.rs:304`, `395`,
   `711`, `1051`) does the same, at any of the four ledger transactions.
   `book/src/integration.md:83` says the worker posts whenever an issued address
   is dirty.
2. *A covered order can stay unpaid* (`store_superseded`,
   `ZcashPaymentWebhook.php:122`). An event the store finds superseded is
   answered 2xx and not recorded. When the total dipped and came back between
   two queue calls (a reorganisation that moves the payment to a lower height:
   revoked above the tip, found again by the overlap), the outbox has the
   restored total as acknowledged and sends nothing more.
   `book/src/prestashop.md:10` says the order is accepted once the total covers
   it. The other plugins answer superseded events the same way.

### Known limits

Met while modelling, and without a run of their own: the properties are stated,
or their runs configured, so that they except exactly these cases. The first
three (the acknowledged total, the dip, the vanished block) are also at odds
with a document, which is named.

* Outbox. If the receiver applied an event whose attempts nevertheless ended in
  `permanent_failure`, a return to the acknowledged total is marked clean and
  nothing is sent (`db.rs:1409`; `book/src/integration.md:83` promises a
  delivery for every change). An outcome that cannot be written leaves the
  row in `sending` until the next restart (`webhook_delivery.rs:130`). The HTTP
  client has no timeout (`webhook_delivery.rs:30`).
* Sync. The tip is compared by height only, so a branch of equal length passes
  the check before the mempool snapshot and a mined payment dips until the next
  iteration (`wallet_runtime.rs:670`; `src/spec.md:242` says that it does not
  dip). If the process dies between a batch's receipts and its recorded height
  (`wallet_runtime.rs:1043`), or runs on after an error of the queue call or of
  `record_sync_status` there (`1051`, `1079`), and the chain then rewinds to the
  recorded height, the revocation above the tip is skipped (`273`) and the
  receipt of a vanished block stays counted until the chain grows past it or
  rewinds below the recorded height (`book/src/integration.md:108` says a reorg
  lowers the total). `ReorgLowersTotal` excepts exactly these receipts. An
  iteration that is cut off after its first ledger transaction, with the chain
  back at the earlier tip afterwards, leaves elements above 0 of
  `received_by_confirmations` stale until the next block, if the address has
  several receipts: that transaction recomputed the whole address at its own
  tip because of one receipt, the stored depths of the others are what the
  earlier tip asks for, and `advance_receipt_maturity` recomputes only where a
  stored depth differs (`db.rs:828`; the comment on
  `received_by_confirmations_zat`, `db.rs:2305`, promises element `i` at the
  tip). `QuietIsExact` excepts this case; it came to light in the attempt to
  prove the property without the exception. Running without a key or an
  endpoint sets the scanned height back to 0 (`wallet_runtime.rs:160`). Nothing
  compares the birthday with the tip: with one above it, a payment that is seen
  in the mempool and mined below the birthday is revoked and never found in a
  block, because the forward scan starts at the birthday
  (`wallet_runtime.rs:823`). `NoDip` is therefore stated for a birthday that
  the chain has reached; that is the use of a birthday, which lies before the
  wallet's first payment.
* Startup. A database from before `receipt_kind` fails in the schema batch on
  every start (`db.rs:1849`). A first start stores the identity before the key
  is decoded, or with a birthday the wallet account does not have; later starts
  with a correct environment are then refused (`service.rs:123`). A refused
  start may have written the identity or `REQUIRED_CONFIRMATIONS` already. A
  busy wallet file is read as one without an account, so its key is not
  compared (`wallet_db.rs:151`). A process that was already past its checks
  keeps scanning when an overlapping development server marks the database.
* Sessions. A collision of receiver fingerprints makes the allocating
  transaction fail at the same index on every attempt, so no address can be issued
  any more. The address of a request that died before its link is never used
  again. A requested amount of 0 is `paid` at once. A transaction with more
  than 50 outputs inside the filtered window is dropped, payments included. A
  page whose reload fails stops polling.
* Client. Block ranges, the tree state and the opening of the mempool stream
  have no request timeout (`scanner.rs:174`). The last failed attempt leaves
  its channel in the cache. A block stream that ends early without an error is
  accepted as complete; `ChainSync` takes such a read for empty blocks.

## 7. Plan

Done: the models of sections 2 and 3, and the proofs of section 5. Left, in
order of what the system's users depend on most:

1. The other store plugins: no lock for merchant changes in WooCommerce and
   EDD, a single capture in Medusa and Vendure.
2. The composition of `ChainSync` with `WebhookOutbox`: its `Commit` and
   `QueueAffected` steps are `RecomputeAddressTotals` and
   `QueueWebhookDeliveriesForDirtyAddresses`.

## 8. Not modelled

Cryptography (trial decryption, HMAC signatures, key derivation, the validity
of a diversifier) is external or pure; its results are inputs.
`sync_state_transitions` and the reorganisation journal are written and never
read. The backoff delay only decides when a row is due. The health route, HTML
text, log output and the process entry have no state of their own; the node
client makes stateless calls and checks a signature; the tree state request is
used by nothing. What differs in the other store plugins is planned
(section 7).
