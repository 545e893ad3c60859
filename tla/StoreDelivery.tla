--------------------------- MODULE StoreDelivery ---------------------------
(***************************************************************************)
(* A store's order under any delivery the service can make: every state of *)
(* the address that was ever observed may arrive as an event at any time,  *)
(* again and in any order, which is more than the outbox promises.         *)
(***************************************************************************)
EXTENDS StoreOrder, Sequences

CONSTANTS
    Amounts,      \* settled totals the address can have
    MaxVersions   \* bound: largest state_version explored

ASSUME DeliveryAssumption ==
    /\ Amounts \subseteq Nat
    /\ MaxVersions \in Nat

VARIABLE observed   \* settled total of each state_version of the address

vars == << storeVars, observed >>

Live == IF observed = << >> THEN 0 ELSE observed[Len(observed)]

TypeOK ==
    /\ StoreTypeOK
    /\ observed \in Seq(Amounts)
    /\ Len(observed) <= MaxVersions

Init == StoreInit /\ observed = << >>

\* The service recomputes a different total; only an address that was shown
\* to the customer can be paid.
ServiceRecomputes ==
    /\ record.issued
    /\ Len(observed) < MaxVersions
    /\ \E t \in Amounts \ {Live} : observed' = Append(observed, t)
    /\ UNCHANGED << order, record, handler, checkout, moves >>

Deliver(v) == BeginDelivery([version |-> v, total |-> observed[v]])

\* A step of the store, which cannot change what the service has observed.
InStore(A) == A /\ UNCHANGED observed /\ Remember

Next ==
    \/ ServiceRecomputes /\ Remember
    \/ \E v \in DOMAIN observed : InStore(Deliver(v))
    \/ InStore(MarkHold)
    \/ InStore(HoldOrder)
    \/ InStore(HoldFails)
    \/ InStore(ServiceUnavailable)
    \/ InStore(ServiceAnswers(Live))
    \/ InStore(CompleteOrder)
    \/ InStore(RecordVersion)
    \/ InStore(DatabaseError)
    \/ InStore(Reply)
    \/ InStore(HandlerDies)
    \/ InStore(RequestSession)
    \/ InStore(SaveSession)
    \/ InStore(CheckRefused)
    \/ InStore(FailOrder)
    \/ \E s \in States : InStore(MerchantChangesState(s))
    \/ \E p \in Prices : InStore(MerchantReprices(p))
    \/ InStore(MerchantSwitchesMethod)
    \/ InStore(MerchantAddsSlip)
    \/ InStore(MerchantClearsReview)

Spec == Init /\ [][Next]_vars

-----------------------------------------------------------------------------
(* Properties.                                                             *)

\* A step of the webhook handler that changes the state of an order that is the
\* module's (the hooks do not lock an order of another payment method).
HandlerMovesOrder ==
    /\ order.ours
    /\ handler' # handler
    /\ order'.state # order.state

\* OwnHoldOnly: the handler releases a hold only if the module put it there,
\* whatever holds, releases, retries and merchant changes came before; unless
\* a request was cut off between writing the markers and changing the state.
\* (The markers of auto_hold and what after_status_change does to them.)
OwnHoldOnly ==
    [][HandlerMovesOrder /\ order.state = "hold"
        => past.held = "module" \/ past.disturbed]_vars

\* FlaggedNeverCompleted: once an order with an address was closed or refunded,
\* no event completes or releases it until the merchant has cleared the review:
\* a cancellation cannot slip in between the handler's check and its update.
FlaggedNeverCompleted ==
    [][HandlerMovesOrder /\ order'.state \in Paid
        => ~past.flagged \/ past.disturbed]_vars

\* ShortIsHeld: when the store has recorded the newest state of the address and
\* that does not cover the order, the order is not left in a paid state, unless
\* the merchant put it there since.  The version is recorded last, so a failure
\* anywhere before leaves the event to be retried.
ShortIsHeld ==
    (/\ handler.pc = "none"
     /\ record.issued
     /\ order.ours
     /\ observed # << >>
     /\ record.version = Len(observed)
     /\ Live < Due
     /\ ~past.touched)
    => order.state \notin Paid

-----------------------------------------------------------------------------
(* The inductive invariant behind these properties.                        *)

\* A request carries a state that was observed, and works on a newer one than
\* the record has; only an issued address has states, versions or markers.
EventsGenuine ==
    /\ handler.pc # "none" =>
        /\ handler.event.version \in DOMAIN observed
        /\ handler.event.total = observed[handler.event.version]
    /\ handler.pc \notin {"none", "reply"} =>
            record.issued /\ record.version < handler.event.version
    /\ record.version <= Len(observed)
    /\ observed # << >> \/ record.autoHold => record.issued

\* What a request set out to do is still what the order needs.
HandlerInv ==
    /\ handler.pc \in {"hold", "holding"} =>
            handler.target \in Paid /\ (order.ours => order.state \in Paid)
    /\ handler.pc \in {"confirm", "complete"} => ~Short(handler.event)
    /\ handler.pc = "complete" => handler.target \in Paid
    /\ (handler.pc = "record" /\ Short(handler.event) /\ order.ours) =>
            order.state \notin Paid

\* An order whose newest state is recorded is not left in a paid state.
NewestHeld ==
    (/\ record.issued /\ order.ours /\ ~past.touched
     /\ observed # << >> /\ record.version = Len(observed) /\ Live < Due)
    => order.state \notin Paid

\* Marked as the module's own, a hold is, or is about to be.
HoldsMarked ==
    (order.ours /\ record.autoHold /\ ~past.disturbed) =>
        \/ order.state = "hold" /\ past.held = "module"
        \/ order.state # "hold" /\ handler.pc = "holding"

\* An order that was closed or refunded carries the review flag, and a request
\* completes only an order that does not, or a hold of its own.
FlagsKept ==
    ~past.disturbed =>
        /\ past.flagged => record.needsReview
        /\ (handler.pc = "complete" /\ order.ours) =>
            /\ ~past.flagged
            /\ order.state = "hold" => past.held = "module"

DeliveryInv ==
    TypeOK /\ EventsGenuine /\ HandlerInv /\ NewestHeld /\ HoldsMarked /\ FlagsKept
=============================================================================
