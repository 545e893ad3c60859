---------------------------- MODULE StoreOutbox ----------------------------
(***************************************************************************)
(* The webhook outbox of the service and a store's order together: the     *)
(* requests of the delivery worker are handled by the store, whose answer  *)
(* the worker records, and the store's status request (GET /payments/{id}) *)
(* reads the address_totals row as it is at that moment.                   *)
(***************************************************************************)
EXTENDS WebhookOutbox, StoreOrder

\* The address issued for the order.
Addr == CHOOSE a \in Addresses : TRUE

VARIABLE request    \* the request the handler is working on, or NoJob

outboxVars == << phase, required, totals, deliveries, affected, job, wire >>

allVars == << vars, storeVars, request >>

\* ZcashPaymentBalance::settled: the last element of the array, or the total
\* when there is no array.
SettledAmount(report) ==
    IF report.array = << >> THEN report.total ELSE report.array[Len(report.array)]

EventOf(m) ==
    LET d == deliveries[m.addr][m.index]
    IN  [version |-> d.version, total |-> SettledAmount(d.report)]

LiveAmount == SettledAmount(totals[Addr].report)

StoreOutboxInit == Init /\ StoreInit /\ request = NoJob

\* The service side.  An address can be paid once the customer has seen it.
ServiceSide ==
    /\ \/ record.issued /\ RecomputeAddressTotals({Addr})
       \/ QueueWebhookDeliveriesForDirtyAddresses
       \/ SyncIterationFails
       \/ Worker
       \/ Crash
       \/ Startup
    /\ UNCHANGED << order, record, handler, checkout, moves, request >>

HandleRequest(m) ==
    /\ BeginDelivery(EventOf(m))
    /\ request' = m
    /\ wire' = wire \ {m}
    /\ UNCHANGED << phase, required, totals, deliveries, affected, job, answered,
                    received >>

\* The worker sees a 2xx if it still waits for this very attempt.
AnswerRequest ==
    /\ Reply
    /\ request' = NoJob
    /\ answered' = (answered \/ (handler.ok /\ phase = "up" /\ request = job))
    /\ UNCHANGED << outboxVars, received >>

\* What the outbox calls the receiver's state is the version the store recorded.
StoreRecords ==
    /\ RecordVersion
    /\ received' = [received EXCEPT ![Addr] =
            [version |-> record'.version, report |-> deliveries[Addr][request.index].report]]
    /\ UNCHANGED << outboxVars, answered, request >>

StoreSide ==
    /\ \/ MarkHold \/ HoldOrder \/ HoldFails
       \/ ServiceUnavailable \/ ServiceAnswers(LiveAmount)
       \/ CompleteOrder
       \/ DatabaseError
       \/ Checkout
       \/ Merchant
    /\ UNCHANGED << outboxVars, answered, received, request >>

RequestDies ==
    /\ HandlerDies
    /\ request' = NoJob
    /\ UNCHANGED << outboxVars, answered, received >>

StoreOutboxNext ==
    /\ \/ ServiceSide
       \/ \E m \in wire : HandleRequest(m)
       \/ AnswerRequest
       \/ StoreRecords
       \/ StoreSide
       \/ RequestDies
    /\ Remember

StoreOutboxSpec == StoreOutboxInit /\ [][StoreOutboxNext]_allVars

-----------------------------------------------------------------------------
\* Nothing is left to happen: every delivery was answered with 2xx, the address
\* is not dirty, and no request is under way.
AllDelivered ==
    /\ Settled(Addr)
    /\ \A i \in DOMAIN deliveries[Addr] : deliveries[Addr][i].state = "succeeded"
    /\ affected = {}
    /\ Idle
    /\ handler.pc = "none"

\* CoveredIsAccepted: once everything has been delivered and the total covers
\* the order, an order the merchant has not touched is accepted.  It fails: a
\* status request that falls between the two recomputes of a reorganisation
\* (revoked above the tip, then found again by the overlap) makes apply answer
\* 2xx without recording the event, the outbox takes the total for delivered,
\* and the restored total equals the acknowledged one, so nothing is sent again.
CoveredIsAccepted ==
    (AllDelivered /\ moves = 0 /\ LiveAmount >= Due) => order.state = "accepted"
=============================================================================
