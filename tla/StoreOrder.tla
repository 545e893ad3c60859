----------------------------- MODULE StoreOrder -----------------------------
(***************************************************************************)
(* One order of a PrestaShop store that takes Zcash: the module's record of *)
(* the order (zcash_payment_order), the checkout that issues its address,   *)
(* the webhook handler that completes, holds and releases it, and the      *)
(* merchant, whose state changes go through the module's hooks.            *)
(*                                                                         *)
(* A handler works under a per-order lock but writes the record and the    *)
(* order in separate statements and asks the service in between, so each   *)
(* of these is a step: the merchant, a database error or the death of the  *)
(* request can come before any of them.  Notes to the merchant and the     *)
(* amounts that only notes and pages show are left out.                    *)
(*                                                                         *)
(* The event and the service's answer are parameters of the actions; the   *)
(* modules that extend this one say where they come from.                  *)
(***************************************************************************)
EXTENDS Integers

CONSTANTS
    Due,           \* the amount the order asks for, in zatoshis
    Prices,        \* totals (with currency) that the order can have
    MaxMoves,      \* bound: how many times the merchant acts
    StoreFaults    \* which faults occur: see StoreFault

StoreFault == {"state_error",   \* setCurrentState throws
               "db_error",      \* a read or write of the module's table throws
               "died",          \* the request's process dies
               "hook_lost",     \* a state is saved, its post-update hook is not run
               "lock_timeout"}  \* a credit slip stops waiting for the lock

ASSUME StoreAssumption ==
    /\ Due \in Nat \ {0}
    /\ Prices # {}
    /\ MaxMoves \in Nat
    /\ StoreFaults \subseteq StoreFault

-----------------------------------------------------------------------------
(* Order states: is_paid, is_closed, is_open and hold_state tell them apart. *)

Paid == {"accepted", "shipped"}

States == Paid \cup {"awaiting", "hold", "closed", "other"}

NoState == "none"

Orders == [state : States, price : Prices, ours : BOOLEAN, refunded : BOOLEAN]

\* A row of zcash_payment_order; `issued` is: it has an address.
Records == [issued : BOOLEAN, priced : Prices, version : Nat,
            needsReview : BOOLEAN, autoHold : BOOLEAN,
            preHold : Paid \cup {NoState}]

Events == [version : Nat, total : Nat]

NoEvent == [version |-> 0, total |-> 0]

\* A request inside the lock: the step it is at, its event, the state it read
\* (later: the state it will set), and whether its answer is 2xx.
Handlers == [pc : {"none", "hold", "holding", "confirm", "complete", "record", "reply"},
             event : Events, target : States \cup {NoState}, ok : BOOLEAN]

NoHandler == [pc |-> "none", event |-> NoEvent, target |-> NoState, ok |-> FALSE]

VARIABLES
    order,     \* the order as the shop stores it
    record,    \* the module's record of it
    handler,   \* the webhook request that holds the lock
    checkout,  \* the customer's checkout request: [pc, price]
    moves,     \* how many times the merchant has acted
    past       \* history: what the properties need to remember

storeVars == << order, record, handler, checkout, moves, past >>

CheckoutSteps == {"placed", "requested", "refused", "failing", "done"}

StoreTypeOK ==
    /\ order \in Orders
    /\ record \in Records
    /\ handler \in Handlers
    /\ checkout \in [pc : CheckoutSteps, price : Prices]
    /\ moves \in 0 .. MaxMoves
    /\ past \in [held : {"nobody", "module", "merchant"}, flagged : BOOLEAN,
                 touched : BOOLEAN, disturbed : BOOLEAN]

\* validateOrder has just created the order; it has no record yet.
StoreInit ==
    \E p \in Prices :
        /\ order = [state |-> "awaiting", price |-> p, ours |-> TRUE, refunded |-> FALSE]
        /\ record = [issued |-> FALSE, priced |-> p, version |-> 0,
                     needsReview |-> FALSE, autoHold |-> FALSE, preHold |-> NoState]
        /\ handler = NoHandler
        /\ checkout = [pc |-> "placed", price |-> p]
        /\ moves = 0
        /\ past = [held |-> "nobody", flagged |-> FALSE, touched |-> FALSE,
                   disturbed |-> FALSE]

\* The MySQL named lock of the order.
LockFree == handler.pc = "none" /\ checkout.pc # "requested"

-----------------------------------------------------------------------------
(* State changes.                                                          *)

\* Mutant: the hold markers outlive the hold.
MarkersKept(r, new) ==
    IF r.issued /\ new = "closed" THEN [r EXCEPT !.needsReview = TRUE] ELSE r

\* after_status_change: a hold that ends takes its markers with it, and a
\* closed order is flagged for review.
AfterStatusChange(r, new) ==
    IF ~r.issued THEN r
    ELSE LET ends == r.autoHold /\ new # "hold"
         IN  [r EXCEPT !.autoHold = @ /\ ~ends,
                       !.preHold = IF ends THEN NoState ELSE @,
                       !.needsReview = @ \/ new = "closed"]

\* setCurrentState, with the hooks of an order that is ours.
StateChanged(new) ==
    /\ order' = [order EXCEPT !.state = new]
    /\ record' = IF order.ours /\ order.state # new
                 THEN AfterStatusChange(record, new) ELSE record

\* The state is saved, the hook after it does not run or cannot write.
StateChangedUnhooked(new) ==
    /\ "hook_lost" \in StoreFaults
    /\ order' = [order EXCEPT !.state = new]
    /\ UNCHANGED record

\* History.  held: who put the order on hold.  flagged: an order with an
\* address was closed or refunded, and the merchant has not cleared the review
\* since.  touched: the merchant changed the state since the last recorded
\* event.  disturbed: hold markers or a review flag may be missing or left
\* over, because a request died between its two writes or went without lock.
Remember ==
    past' = [held |->
                IF order'.state # "hold" THEN "nobody"
                ELSE IF order.state = "hold" THEN past.held
                ELSE IF handler' # handler THEN "module" ELSE "merchant",
             flagged |->
                IF record.needsReview /\ ~record'.needsReview THEN FALSE
                ELSE \/ past.flagged
                     \/ /\ record.issued
                        /\ order.ours
                        /\ \/ order.state # "closed" /\ order'.state = "closed"
                           \/ order'.refunded # order.refunded,
             touched |->
                IF record'.version # record.version THEN FALSE
                ELSE past.touched
                     \/ (order'.state # order.state /\ handler' = handler),
             disturbed |->
                \/ past.disturbed
                \/ handler.pc = "holding" /\ handler'.pc = "none"
                \/ order'.refunded # order.refunded /\ ~LockFree
                \/ /\ order'.state # order.state
                   /\ order.ours
                   /\ record' # AfterStatusChange(record, order'.state)]

-----------------------------------------------------------------------------
(* Checkout: start_session_locked, then the failure path of validation.php. *)

RequestSession ==
    /\ checkout.pc = "placed"
    /\ LockFree
    /\ checkout' = [pc |-> IF order.ours /\ order.state = "awaiting"
                           THEN "requested" ELSE "refused",
                    price |-> order.price]
    /\ UNCHANGED << order, record, handler, moves >>

\* The request took time: the order is read again before the address is saved.
SaveSession ==
    /\ checkout.pc = "requested"
    /\ \/ /\ order.ours
          /\ order.state = "awaiting"
          /\ order.price = checkout.price
          /\ record' = [record EXCEPT !.issued = TRUE, !.priced = order.price]
          /\ checkout' = [checkout EXCEPT !.pc = "done"]
       \/ \* the order changed, the service did not answer, or the row was not saved
          /\ checkout' = [checkout EXCEPT !.pc = "refused"]
          /\ UNCHANGED record
    /\ UNCHANGED << order, handler, moves >>

\* The order is failed if it is still open and nothing can be paid to it.
CheckRefused ==
    /\ checkout.pc = "refused"
    /\ \/ checkout' = [checkout EXCEPT !.pc =
                IF order.ours /\ order.state = "awaiting" /\ ~record.issued
                THEN "failing" ELSE "done"]
       \/ /\ "db_error" \in StoreFaults     \* left open for the merchant
          /\ checkout' = [checkout EXCEPT !.pc = "done"]
    /\ UNCHANGED << order, record, handler, moves >>

FailOrder ==
    /\ checkout.pc = "failing"
    /\ LockFree \/ ~order.ours
    /\ \/ StateChanged("closed")
       \/ "state_error" \in StoreFaults /\ UNCHANGED << order, record >>
    /\ checkout' = [checkout EXCEPT !.pc = "done"]
    /\ UNCHANGED << handler, moves >>

Checkout == RequestSession \/ SaveSession \/ CheckRefused \/ FailOrder

-----------------------------------------------------------------------------
(* The webhook handler: ZcashPaymentWebhook::handle and apply.             *)

At(pc, e) == [pc |-> pc, event |-> e, target |-> order.state, ok |-> FALSE]

Answer(ok) == handler' = [handler EXCEPT !.pc = "reply", !.ok = ok]

Short(e) == e.total < Due

\* An unknown address, or an event that is not newer.
Ignored(e) == ~record.issued \/ e.version <= record.version

\* What apply sets aside for the merchant instead of acting on it.
SetAside ==
    \/ order.state = "hold" /\ ~record.autoHold
    \/ record.needsReview
    \/ ~order.ours
    \/ order.state \notin Paid /\ record.priced # order.price

Flagged == record' = [record EXCEPT !.needsReview = TRUE]

\* Takes the lock, reads order and record, and decides.
BeginDelivery(e) ==
    /\ LockFree
    /\ \/ /\ Ignored(e)
          /\ handler' = [At("reply", e) EXCEPT !.ok = TRUE]
          /\ UNCHANGED record
       \/ /\ ~Ignored(e)
          /\ SetAside
          /\ Flagged
          /\ handler' = At(IF order.state \in Paid /\ Short(e) /\ order.ours
                           THEN "hold" ELSE "record", e)
       \/ /\ ~Ignored(e) /\ ~SetAside
          /\ order.state \in Paid
          /\ handler' = At(IF Short(e) THEN "hold" ELSE "record", e)
          /\ UNCHANGED record
       \/ /\ ~Ignored(e) /\ ~SetAside
          /\ order.state = "closed"
          /\ Flagged
          /\ handler' = At("record", e)
       \/ /\ ~Ignored(e) /\ ~SetAside
          /\ order.state \notin Paid \cup {"closed"}
          /\ handler' = At(IF Short(e) THEN "record" ELSE "confirm", e)
          /\ UNCHANGED record
    /\ UNCHANGED << order, checkout, moves >>

\* auto_hold: the markers are written before the state is changed.
MarkHold ==
    /\ handler.pc = "hold"
    /\ record' = [record EXCEPT !.autoHold = TRUE, !.preHold = handler.target]
    /\ handler' = [handler EXCEPT !.pc = "holding"]
    /\ UNCHANGED << order, checkout, moves >>

HoldOrder ==
    /\ handler.pc = "holding"
    /\ StateChanged("hold")
    /\ handler' = [handler EXCEPT !.pc = "record"]
    /\ UNCHANGED << checkout, moves >>

\* Mutant: the outcome of auto_hold is ignored.
HoldFailureIgnored ==
    /\ "state_error" \in StoreFaults
    /\ handler.pc = "holding"
    /\ record' = [record EXCEPT !.autoHold = FALSE, !.preHold = NoState]
    /\ handler' = [handler EXCEPT !.pc = "record"]
    /\ UNCHANGED << order, checkout, moves >>

\* The state could not be changed: take the markers back and ask for a retry.
HoldFails ==
    /\ "state_error" \in StoreFaults
    /\ handler.pc = "holding"
    /\ record' = [record EXCEPT !.autoHold = FALSE, !.preHold = NoState]
    /\ Answer(FALSE)
    /\ UNCHANGED << order, checkout, moves >>

OwnHold == order.state = "hold" /\ record.autoHold

\* The service does not answer, or answers with something else.
ServiceUnavailable ==
    /\ handler.pc = "confirm"
    /\ Answer(FALSE)
    /\ UNCHANGED << order, record, checkout, moves >>

\* The service's own total decides; the order is read again before acting.
ServiceAnswers(live) ==
    /\ handler.pc = "confirm"
    /\ \/ /\ live < Due            \* superseded: answered 2xx, not recorded
          /\ Answer(TRUE)
       \/ /\ live >= Due
          /\ \/ SetAside
             \/ order.state # "awaiting" /\ ~OwnHold
          /\ Answer(FALSE)
       \/ /\ live >= Due
          /\ ~SetAside
          /\ order.state = "awaiting" \/ OwnHold
          /\ handler' = [handler EXCEPT !.pc = "complete",
                            !.target = IF OwnHold /\ record.preHold # NoState
                                       THEN record.preHold ELSE "accepted"]
    /\ UNCHANGED << order, record, checkout, moves >>

CompleteOrder ==
    /\ handler.pc = "complete"
    /\ \/ /\ StateChanged(handler.target)
          /\ handler' = [handler EXCEPT !.pc = "record"]
       \/ /\ StateChangedUnhooked(handler.target)
          /\ Answer(FALSE)
       \/ /\ "state_error" \in StoreFaults
          /\ Answer(FALSE)
          /\ UNCHANGED << order, record >>
    /\ UNCHANGED << checkout, moves >>

\* The version is recorded last.
RecordVersion ==
    /\ handler.pc = "record"
    /\ record' = [record EXCEPT !.version = handler.event.version]
    /\ Answer(TRUE)
    /\ UNCHANGED << order, checkout, moves >>

\* ZcashPaymentDbException: nothing after the failed statement runs.
DatabaseError ==
    /\ "db_error" \in StoreFaults
    /\ handler.pc \in {"hold", "confirm", "record"}
    /\ Answer(FALSE)
    /\ UNCHANGED << order, record, checkout, moves >>

\* The answer leaves and the lock is released.
Reply ==
    /\ handler.pc = "reply"
    /\ handler' = NoHandler
    /\ UNCHANGED << order, record, checkout, moves >>

\* The connection goes with the process, and the lock with the connection.
HandlerDies ==
    /\ "died" \in StoreFaults
    /\ handler.pc \notin {"none", "reply"}
    /\ handler' = NoHandler
    /\ UNCHANGED << order, record, checkout, moves >>

-----------------------------------------------------------------------------
(* The merchant.                                                           *)

Move ==
    /\ moves < MaxMoves
    /\ moves' = moves + 1
    /\ UNCHANGED << handler, checkout >>

\* Mutant: the back office does not wait for the webhook's lock.
StateChangeUnlocked(new) ==
    /\ Move
    /\ order.state # new
    /\ StateChanged(new) \/ StateChangedUnhooked(new)

\* hookActionOrderStatusUpdate takes the lock (or refuses the change) for an
\* order that is ours; the change and the post-update hook run inside it.
MerchantChangesState(new) ==
    /\ Move
    /\ order.state # new
    /\ order.ours => LockFree
    /\ StateChanged(new) \/ StateChangedUnhooked(new)

\* Editing the order's lines changes its total; no hook of the module runs.
MerchantReprices(p) ==
    /\ Move
    /\ order.price # p
    /\ order' = [order EXCEPT !.price = p]
    /\ UNCHANGED record

\* The order is taken over by another payment method.
MerchantSwitchesMethod ==
    /\ Move
    /\ order.ours
    /\ order' = [order EXCEPT !.ours = FALSE]
    /\ UNCHANGED record

\* hookActionOrderSlipAdd: waits for the lock, and goes on without it after
\* ten seconds.
MerchantAddsSlip ==
    /\ Move
    /\ ~order.refunded
    /\ order.ours => LockFree \/ "lock_timeout" \in StoreFaults
    /\ order' = [order EXCEPT !.refunded = TRUE]
    /\ record' = IF order.ours /\ record.issued
                 THEN [record EXCEPT !.needsReview = TRUE] ELSE record

\* The merchant has reconciled the order and resets needs_review in the table.
MerchantClearsReview ==
    /\ Move
    /\ record.needsReview
    /\ record' = [record EXCEPT !.needsReview = FALSE]
    /\ UNCHANGED order

Merchant ==
    \/ \E s \in States : MerchantChangesState(s)
    \/ \E p \in Prices : MerchantReprices(p)
    \/ MerchantSwitchesMethod
    \/ MerchantAddsSlip
    \/ MerchantClearsReview
=============================================================================
