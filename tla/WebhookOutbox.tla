--------------------------- MODULE WebhookOutbox ---------------------------
(***************************************************************************)
(* The durable webhook outbox of the payment service: the address_totals   *)
(* rows and the webhook_deliveries rows of the app database (src/db.rs),   *)
(* the sync loop that recomputes totals and queues deliveries in separate  *)
(* transactions (src/wallet_runtime.rs), the delivery worker               *)
(* (src/webhook_delivery.rs), the startup recovery (src/lib.rs), and the   *)
(* upstream receiver, which keeps the newest state_version it has seen.    *)
(*                                                                         *)
(* Every database method is one IMMEDIATE SQLite transaction, so it is one *)
(* atomic action here.  What the receipts add up to is an input of this    *)
(* module: a recompute may find any report.                                *)
(***************************************************************************)
EXTENDS Integers, Sequences, FiniteSets

CONSTANTS
    Addresses,     \* issued addresses (rows of address_totals)
    NoAddress,     \* "no address", for the idle worker
    Totals,        \* the zatoshi totals that receipts can add up to
    Settings,      \* REQUIRED_CONFIRMATIONS values N in use; -1 is "unset"
    MaxAttempts,   \* WEBHOOK_MAX_ATTEMPTS
    MaxVersion,    \* bound: largest state_version explored
    Faults         \* which faults occur: see Fault

Fault == {"crash",        \* the process dies and is started again
          "sync_error",   \* a sync step fails between recompute and queue
          "record_error", \* the worker cannot write an attempt's outcome
          "late_arrival"} \* a request outlives the attempt that sent it

ASSUME OutboxAssumption ==
    /\ NoAddress \notin Addresses
    /\ Totals \subseteq Nat
    /\ 0 \in Totals
    /\ Settings \subseteq Int
    /\ \A n \in Settings : n >= -1
    /\ MaxAttempts \in Nat \ {0}
    /\ MaxVersion \in Nat
    /\ Faults \subseteq Fault

-----------------------------------------------------------------------------
(* Data.  A report is what an event carries: total_received_zat and        *)
(* received_by_confirmations, an array of N+1 totals that starts with      *)
(* total_received and never increases.  NULL (setting unset, or an address *)
(* that was never recomputed) is the empty array.                          *)

Arrays(n) == [1 .. (n + 1) -> Totals]

Array == UNION {Arrays(n) : n \in Settings \cup {-1}}

Report == [total : Totals, array : Array]

ReportsUnder(n) ==
    {r \in [total : Totals, array : Arrays(n)] :
        \A i \in 1 .. (n + 1) :
            /\ r.array[i] <= r.total
            /\ i = 1 => r.array[i] = r.total
            /\ \A j \in 1 .. i : r.array[j] >= r.array[i]}

FreshReport == [total |-> 0, array |-> << >>]

\* A row of address_totals.  acked is the position of the delivery named by
\* last_notified_event_id, 0 when that is NULL.
Row == [report : Report, version : Nat,
        dirty : {"clean", "dirty", "queued_for_webhook"},
        notified : Report, acked : Nat]

FreshRow == [report |-> FreshReport, version |-> 0, dirty |-> "clean",
             notified |-> FreshReport, acked |-> 0]

OutstandingStates == {"queued", "sending", "retry_wait"}

\* A row of webhook_deliveries.  Its event_id is the pair (address, version);
\* its delivery_id is its position in the address's log.
Delivery == [version : Nat, report : Report,
             state : OutstandingStates \cup {"succeeded", "permanent_failure"},
             attempts : Nat]

\* Mutant: the payload is built from the last notified total.
DeliveryOfNotified(row) == [version |-> row.version, report |-> row.notified,
                            state |-> "queued", attempts |-> 0]

NewDelivery(row) == [version |-> row.version, report |-> row.report,
                     state |-> "queued", attempts |-> 0]

\* A request on the network: one attempt to deliver one event.
Message == [addr : Addresses, index : Nat, attempt : Nat]

NoJob == [addr |-> NoAddress, index |-> 0, attempt |-> 0]

VARIABLES
    phase,        \* "down", "initialized", "recovered" or "up"
    required,     \* service_metadata.required_confirmations
    totals,       \* address_totals
    deliveries,   \* webhook_deliveries, one log per address
    affected,     \* address ids the sync loop recomputed and has not queued
    job,          \* the delivery the worker has claimed (with attempt_count)
    answered,     \* the receiver has answered 2xx to the worker's request
    wire,         \* requests that may still reach the receiver
    received      \* the receiver: newest version applied, and its report

vars == << phase, required, totals, deliveries, affected, job, answered,
           wire, received >>

Idle == job = NoJob

TypeOK ==
    /\ phase \in {"down", "initialized", "recovered", "up"}
    /\ required \in Settings \cup {-1}
    /\ totals \in [Addresses -> Row]
    /\ deliveries \in [Addresses -> Seq(Delivery)]
    /\ affected \in SUBSET Addresses
    /\ job \in Message \cup {NoJob}
    /\ answered \in BOOLEAN
    /\ wire \in SUBSET Message
    /\ received \in [Addresses -> [version : Nat, report : Report]]

Init ==
    /\ phase = "up"
    /\ required \in Settings \cup {-1}
    /\ totals = [a \in Addresses |-> FreshRow]
    /\ deliveries = [a \in Addresses |-> << >>]
    /\ affected = {}
    /\ job = NoJob
    /\ answered = FALSE
    /\ wire = {}
    /\ received = [a \in Addresses |-> [version |-> 0, report |-> FreshReport]]

-----------------------------------------------------------------------------
(* queue_webhook_deliveries_in_tx, for one address.                        *)

\* Deliveries newer than the acknowledged one that are still to be sent.
Outstanding(row, log) ==
    {i \in DOMAIN log : i > row.acked /\ log[i].state \in OutstandingStates}

\* Mutant: compare with the acknowledgment only.
CarriedByAck(row, log) == row.report = row.notified

\* The newest report the receiver will see is already the current one: that
\* of the newest outstanding delivery, or else the acknowledged one.
AlreadyCarried(row, log) ==
    IF Outstanding(row, log) = {}
    THEN row.report = row.notified
    ELSE \E i \in Outstanding(row, log) :
            /\ \A j \in Outstanding(row, log) : j <= i
            /\ row.report = log[i].report

\* INSERT OR IGNORE: event_id is UNIQUE.
EventExists(row, log) == \E i \in DOMAIN log : log[i].version = row.version

QueuedRow(row, log) ==
    IF row.dirty # "dirty" THEN row
    ELSE [row EXCEPT !.dirty =
            IF AlreadyCarried(row, log) /\ Outstanding(row, log) = {}
            THEN "clean" ELSE "queued_for_webhook"]

\* Mutant: event_id is not UNIQUE.
QueuedLogTwice(row, log) ==
    IF row.dirty = "dirty" /\ ~AlreadyCarried(row, log)
    THEN Append(log, NewDelivery(row))
    ELSE log

QueuedLog(row, log) ==
    IF row.dirty = "dirty" /\ ~AlreadyCarried(row, log) /\ ~EventExists(row, log)
    THEN Append(log, NewDelivery(row))
    ELSE log

QueueTx(S) ==
    /\ totals' = [a \in Addresses |->
                    IF a \in S THEN QueuedRow(totals[a], deliveries[a])
                    ELSE totals[a]]
    /\ deliveries' = [a \in Addresses |->
                        IF a \in S THEN QueuedLog(totals[a], deliveries[a])
                        ELSE deliveries[a]]

-----------------------------------------------------------------------------
(* The sync loop (and the simulated-payment route): recompute in one       *)
(* transaction, queue the affected addresses in the next.                  *)

\* Mutant: the version stays.
RecomputedSameVersion(row, report) ==
    IF report = row.report THEN row
    ELSE [row EXCEPT !.report = report, !.dirty = "dirty"]

\* recompute_address_totals: a changed report bumps the version and marks the
\* row dirty; an unchanged one keeps whatever dirty state it had.
RecomputedRow(row, report) ==
    IF report = row.report THEN row
    ELSE [row EXCEPT !.report = report, !.version = @ + 1, !.dirty = "dirty"]

RecomputeAddressTotals(S) ==
    /\ phase = "up"
    /\ \E new \in [S -> ReportsUnder(required)] :
        /\ \A a \in S : new[a] # totals[a].report => totals[a].version < MaxVersion
        /\ totals' = [a \in Addresses |->
                        IF a \in S THEN RecomputedRow(totals[a], new[a])
                        ELSE totals[a]]
    /\ affected' = affected \cup S
    /\ UNCHANGED << phase, required, deliveries, job, answered, wire, received >>

QueueWebhookDeliveriesForDirtyAddresses ==
    /\ phase = "up"
    /\ affected # {}
    /\ QueueTx(affected)
    /\ affected' = {}
    /\ UNCHANGED << phase, required, job, answered, wire, received >>

\* A later step of the same iteration returns an error before the queue call:
\* the recomputed totals are committed, the list of affected ids is dropped.
SyncIterationFails ==
    /\ "sync_error" \in Faults
    /\ phase = "up"
    /\ affected # {}
    /\ affected' = {}
    /\ UNCHANGED << phase, required, totals, deliveries, job, answered, wire,
                    received >>

-----------------------------------------------------------------------------
(* The delivery worker: one task, one delivery at a time.                  *)

\* One row moves to a new state, counting the attempt when it has ended.
SetDelivery(log, i, state, attempts) ==
    [log EXCEPT ![i] = [@ EXCEPT !.state = state, !.attempts = attempts]]

SetJob(state) ==
    deliveries' = [deliveries EXCEPT ![job.addr] =
        SetDelivery(@, job.index, state, @[job.index].attempts + 1)]

\* claim_ready_webhook_delivery and the POST.  A retry may or may not be due,
\* and observed_at is wall-clock text (fractions without trailing zeros), so
\* ORDER BY observed_at does not fix an order: any ready row can be next.
ClaimReadyWebhookDelivery(a, i) ==
    /\ phase = "up"
    /\ Idle
    /\ deliveries[a][i].state \in {"queued", "retry_wait"}
    /\ deliveries' = [deliveries EXCEPT ![a] =
                        SetDelivery(@, i, "sending", @[i].attempts)]
    /\ job' = [addr |-> a, index |-> i, attempt |-> deliveries[a][i].attempts]
    /\ wire' = wire \cup {job'}
    /\ answered' = FALSE
    /\ UNCHANGED << phase, required, totals, affected, received >>

\* The attempt is over for the worker.  Its request is gone too, unless the
\* connection died while the receiver still has the request to process.
EndAttempt ==
    /\ job' = NoJob
    /\ answered' = FALSE
    /\ \/ wire' = wire \ {job}
       \/ /\ "late_arrival" \in Faults
          /\ wire' = wire
    /\ UNCHANGED << phase, required, affected, received >>

AckedRow(row, log, i) ==
    [row EXCEPT !.notified = log[i].report, !.acked = i, !.dirty = "dirty"]

\* Mutant: the last success to be recorded is the acknowledgment.
LastSuccessCounts(row, i) == FALSE

\* The acknowledged delivery is newer than delivery i (delivery_id order).
NewerIsAcked(row, i) == row.acked > i

\* record_webhook_delivery_success: a late success of an older event leaves
\* the acknowledgment alone; otherwise acknowledge, mark dirty and run the
\* queue helper in the same transaction.
RecordWebhookDeliverySuccess ==
    LET a   == job.addr
        i   == job.index
        log == SetDelivery(deliveries[a], i, "succeeded",
                           deliveries[a][i].attempts + 1)
        row == AckedRow(totals[a], log, i)
    IN  /\ phase = "up"
        /\ ~Idle
        /\ answered
        /\ \/ /\ NewerIsAcked(totals[a], i)
              /\ deliveries' = [deliveries EXCEPT ![a] = log]
              /\ UNCHANGED totals
           \/ /\ ~NewerIsAcked(totals[a], i)
              /\ totals' = [totals EXCEPT ![a] = QueuedRow(row, log)]
              /\ deliveries' = [deliveries EXCEPT ![a] = QueuedLog(row, log)]
        /\ EndAttempt

\* Mutant: one attempt too many.
FailsOneLater(attemptCount) == attemptCount + 1 > MaxAttempts

\* should_permanently_fail, on the attempt_count read when the row was claimed.
ShouldPermanentlyFail(attemptCount) == attemptCount + 1 >= MaxAttempts

\* 5xx, 429 or a transport error; the receiver may have applied the event.
RecordWebhookDeliveryRetry ==
    /\ phase = "up"
    /\ ~Idle
    /\ ~ShouldPermanentlyFail(job.attempt)
    /\ SetJob("retry_wait")
    /\ UNCHANGED totals
    /\ EndAttempt

\* Attempts exhausted, or the receiver refused the event (any other status).
RecordWebhookDeliveryPermanentFailure ==
    /\ phase = "up"
    /\ ~Idle
    /\ ShouldPermanentlyFail(job.attempt) \/ ~answered
    /\ SetJob("permanent_failure")
    /\ UNCHANGED totals
    /\ EndAttempt

\* The outcome cannot be written (the database stays busy, the disk is full):
\* deliver_ready_once returns the error and the loop goes on to other rows.
RecordOutcomeFails ==
    /\ "record_error" \in Faults
    /\ phase = "up"
    /\ ~Idle
    /\ UNCHANGED << totals, deliveries >>
    /\ EndAttempt

-----------------------------------------------------------------------------
(* The receiver (external): applies an event only when its state_version   *)
(* is greater than the last one stored, and answers 2xx either way.        *)

ReceiverApplies(m) ==
    LET event == deliveries[m.addr][m.index]
    IN  /\ received' = [received EXCEPT ![m.addr] =
                IF event.version > @.version
                THEN [version |-> event.version, report |-> event.report]
                ELSE @]
        /\ wire' = wire \ {m}
        /\ answered' = (answered \/ (phase = "up" /\ m = job))
        /\ UNCHANGED << phase, required, totals, deliveries, affected, job >>

-----------------------------------------------------------------------------
(* Process death and startup (run_with_config).                            *)

Crash ==
    /\ "crash" \in Faults
    /\ phase # "down"
    /\ phase' = "down"
    /\ affected' = {}
    /\ job' = NoJob
    /\ answered' = FALSE
    /\ UNCHANGED << required, totals, deliveries, wire, received >>

\* apply_required_confirmations, under the setting n of this start: when it
\* changed, every array is rebuilt silently (no version, no dirty mark).
Initialize(n) ==
    /\ phase = "down"
    /\ phase' = "initialized"
    /\ required' = n
    /\ \/ n = required /\ UNCHANGED totals
       \/ /\ n # required
          /\ \E new \in [Addresses -> ReportsUnder(n)] :
                /\ \A a \in Addresses : new[a].total = totals[a].report.total
                /\ totals' = [a \in Addresses |-> [totals[a] EXCEPT !.report = new[a]]]
    /\ UNCHANGED << deliveries, affected, job, answered, wire, received >>

\* Mutant: a restart leaves claimed rows as they are.
NothingRecovered(log) == log

RecoveredLog(log) ==
    [i \in DOMAIN log |->
        IF log[i].state = "sending"
        THEN [log[i] EXCEPT !.state = "retry_wait"]
        ELSE log[i]]

RecoverInterruptedWebhookDeliveries ==
    /\ phase = "initialized"
    /\ phase' = "recovered"
    /\ deliveries' = [a \in Addresses |-> RecoveredLog(deliveries[a])]
    /\ UNCHANGED << required, totals, affected, job, answered, wire, received >>

\* Mutant: a restart does not look for dirty addresses.
StartWithoutQueueing ==
    /\ phase = "recovered"
    /\ phase' = "up"
    /\ UNCHANGED << required, totals, deliveries, affected, job, answered, wire,
                    received >>

QueueAllDirtyWebhookDeliveries ==
    /\ phase = "recovered"
    /\ phase' = "up"
    /\ QueueTx({a \in Addresses : totals[a].dirty = "dirty"})
    /\ UNCHANGED << required, affected, job, answered, wire, received >>

-----------------------------------------------------------------------------
Worker ==
    \/ \E a \in Addresses : \E i \in DOMAIN deliveries[a] :
            ClaimReadyWebhookDelivery(a, i)
    \/ RecordWebhookDeliverySuccess
    \/ RecordWebhookDeliveryRetry
    \/ RecordWebhookDeliveryPermanentFailure
    \/ RecordOutcomeFails

Startup ==
    \/ \E n \in Settings \cup {-1} : Initialize(n)
    \/ RecoverInterruptedWebhookDeliveries
    \/ QueueAllDirtyWebhookDeliveries

Next ==
    \/ \E S \in SUBSET Addresses : S # {} /\ RecomputeAddressTotals(S)
    \/ QueueWebhookDeliveriesForDirtyAddresses
    \/ SyncIterationFails
    \/ Worker
    \/ \E m \in wire : ReceiverApplies(m)
    \/ Crash
    \/ Startup

Spec == Init /\ [][Next]_vars

\* The loops of the process run: the worker polls, records what it sent, and
\* stops waiting for a lost request; sync iterations that recompute again and
\* again do not all fail before their queue call; a supervisor restarts a dead
\* process.  Nothing obliges funds to move, a request to arrive, or a crash.
Fairness ==
    /\ SF_vars(QueueWebhookDeliveriesForDirtyAddresses)
    /\ WF_vars(Worker)
    /\ WF_vars(Startup)

FairSpec == Spec /\ Fairness

-----------------------------------------------------------------------------
(* Properties.                                                             *)

TotalAt(log, i) == IF i = 0 THEN 0 ELSE log[i].report.total

LastWordOf(row, log) ==
    \E i \in row.acked .. Len(log) :
        /\ TotalAt(log, i) = row.report.total
        /\ \A k \in (i + 1) .. Len(log) : log[k].state = "permanent_failure"

\* LastWord: once an address is not marked dirty, the last thing its log still
\* says, or has said, about the address is the current total: some delivery,
\* the acknowledged one or a newer one, carries it, and every delivery after
\* that one has failed for good.  This is what the comparison with the newest
\* outstanding delivery in queue_webhook_deliveries_in_tx is for: an older
\* event must never be left as the last word.
LastWord ==
    \A a \in Addresses :
        totals[a].dirty # "dirty" => LastWordOf(totals[a], deliveries[a])

\* ReceiverAgrees: when an address is not dirty and its newest delivery has
\* been acknowledged, the receiver holds the current total, whatever order
\* the deliveries, retries, late requests and restarts came in.
ReceiverAgrees ==
    \A a \in Addresses :
        (totals[a].dirty # "dirty" /\ totals[a].acked = Len(deliveries[a])) =>
            received[a].report.total = totals[a].report.total

\* RetryBudget: a delivery that is still to be sent has attempts left; the
\* worker decides on the attempt_count it read before the request, which no
\* other step may have made stale.
RetryBudget ==
    \A a \in Addresses : \A i \in DOMAIN deliveries[a] :
        /\ deliveries[a][i].attempts <= MaxAttempts
        /\ deliveries[a][i].state \in OutstandingStates =>
                deliveries[a][i].attempts < MaxAttempts

\* SendingIsOwned: from the startup recovery on, a row in 'sending' is the one
\* the worker holds, so no restart leaves a claimed delivery behind.  (A
\* failure to write an outcome does: see record_error.)
SendingIsOwned ==
    phase \in {"recovered", "up"} =>
        \A a \in Addresses : \A i \in DOMAIN deliveries[a] :
            deliveries[a][i].state = "sending" =>
                \/ job.addr = a /\ job.index = i
                \/ "record_error" \in Faults

-----------------------------------------------------------------------------
(* The inductive invariant behind LastWord, ReceiverAgrees and RetryBudget. *)

\* One address: its row against its log.  Event versions grow along the log up
\* to the row's version; an event of the row's own version carries the row's
\* total (which is why ignoring a duplicate event_id loses nothing).
RowOK(row, log) ==
    /\ row.acked \in 0 .. Len(log)
    /\ row.notified.total = TotalAt(log, row.acked)
    /\ \A i, j \in 1 .. Len(log) : i < j => log[i].version < log[j].version
    /\ \A i \in 1 .. Len(log) :
        /\ log[i].version \in 1 .. row.version
        /\ log[i].version = row.version => log[i].report.total = row.report.total
        /\ i > row.acked => log[i].state # "succeeded"
        /\ log[i].attempts <= MaxAttempts
        /\ log[i].state \in OutstandingStates => log[i].attempts < MaxAttempts
    /\ row.dirty = "dirty" => row.version >= 1
    /\ row.dirty # "dirty" => LastWordOf(row, log)

\* The worker's claim: it holds a row in 'sending' with the attempt_count it
\* read, and only in a running process.
JobOK ==
    /\ answered => ~Idle
    /\ ~Idle =>
        /\ phase = "up"
        /\ job.index \in 1 .. Len(deliveries[job.addr])
        /\ deliveries[job.addr][job.index].state = "sending"
        /\ deliveries[job.addr][job.index].attempts = job.attempt
        /\ answered =>
            received[job.addr].version >= deliveries[job.addr][job.index].version

\* The receiver of address a has nothing that was never sent, and everything
\* it acknowledged.
ReceiverOK(a) ==
    LET log == deliveries[a]
    IN  /\ \/ received[a].version = 0 /\ received[a].report.total = 0
           \/ \E i \in 1 .. Len(log) :
                /\ received[a].version = log[i].version
                /\ received[a].report.total = log[i].report.total
        /\ totals[a].acked > 0 =>
                received[a].version >= log[totals[a].acked].version

\* OutboxInv: the three together, for every address; requests on the network
\* name rows that exist.
OutboxInv ==
    /\ \A a \in Addresses : RowOK(totals[a], deliveries[a]) /\ ReceiverOK(a)
    /\ JobOK
    /\ \A m \in wire : m.index \in 1 .. Len(deliveries[m.addr])

\* AckNeverMovesBack: the acknowledged delivery of an address only moves to a
\* newer one, although an older delivery can succeed after a newer one
\* (record_webhook_delivery_success).
AckNeverMovesBack ==
    [][\A a \in Addresses : totals'[a].acked >= totals[a].acked]_vars

Settled(a) ==
    /\ totals[a].dirty # "dirty"
    /\ \A i \in DOMAIN deliveries[a] :
            deliveries[a][i].state \in {"succeeded", "permanent_failure"}

\* EventuallyTold: if the process stops crashing, every address ends up with
\* nothing left to send, and then the receiver has the current total unless a
\* delivery was given up.
EventuallyTold ==
    <>[](phase = "up") =>
        \A a \in Addresses :
            <>[]( /\ Settled(a)
                  /\ \/ received[a].report.total = totals[a].report.total
                     \/ \E i \in DOMAIN deliveries[a] :
                            deliveries[a][i].state = "permanent_failure")

\* DirtyIsPosted: while the process keeps running, an address that is dirty
\* and whose total differs from the last one successfully delivered is sent
\* (or stops being so).  It fails: an iteration that stops between recompute
\* and queue forgets which addresses it recomputed, and no later iteration
\* sees a change to queue; only a restart looks for dirty rows.
DirtyIsPosted ==
    <>[](phase = "up") =>
        \A a \in Addresses :
            (/\ totals[a].dirty = "dirty"
             /\ totals[a].report.total # totals[a].notified.total)
            ~> \/ job.addr = a
               \/ totals[a].dirty # "dirty"
               \/ totals[a].report.total = totals[a].notified.total

-----------------------------------------------------------------------------
(* Refinement: rows and logs as versioned totals.                          *)

\* The total and version that an address row, a delivery or the receiver has.
StampOf(x) == [version |-> x.version, total |-> x.report.total]

PublishedOf(log) == {StampOf(log[i]) : i \in DOMAIN log}

KnownVersion(row, log) == IF row.acked = 0 THEN 0 ELSE log[row.acked].version

Abstract == INSTANCE ReportedTotal WITH
    current   <- [a \in Addresses |-> StampOf(totals[a])],
    published <- [a \in Addresses |-> PublishedOf(deliveries[a])],
    heard     <- [a \in Addresses |-> StampOf(received[a])],
    known     <- [a \in Addresses |-> KnownVersion(totals[a], deliveries[a])]

\* ImplementsReportedTotal: the outbox is a versioned register.  Whatever the
\* interleaving of recomputes, queue calls, attempts, late requests and
\* restarts, no version is ever used for two totals, an event always carries
\* the total that was current when it was queued, the receiver only ever moves
\* to newer published totals, and what is acknowledged was really heard.
ImplementsReportedTotal == Abstract!Spec
=============================================================================
