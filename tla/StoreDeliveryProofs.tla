------------------------- MODULE StoreDeliveryProofs -------------------------
(***************************************************************************)
(* Proofs about StoreDelivery: its safety properties hold for any number   *)
(* of observed states and merchant moves, any prices and amounts, and any  *)
(* set of faults.                                                          *)
(*                                                                         *)
(* The inductive invariant is DeliveryInv.  The history variable is        *)
(* computed by Remember in every step, so what a step does to it is taken  *)
(* from one lemma (Remembered), what a change of the order's state does to *)
(* the module's record from another (StateMoved), and every action is then *)
(* looked at once per part of the invariant.                               *)
(***************************************************************************)
EXTENDS StoreDelivery, TLAPS

-----------------------------------------------------------------------------
(* Types.                                                                  *)

Pasts == [held : {"nobody", "module", "merchant"}, flagged : BOOLEAN,
          touched : BOOLEAN, disturbed : BOOLEAN]

\* The variables of the store without the merchant's moves and the history.
ShopOK ==
    /\ order \in Orders
    /\ record \in Records
    /\ handler \in Handlers
    /\ checkout \in [pc : CheckoutSteps, price : Prices]

\* The history that a step leaves has its type.
LEMMA PastType ==
    ASSUME past \in Pasts, Remember
    PROVE  past' \in Pasts
BY DEF Remember, Pasts

\* What the history says after a step, and what it then said before.
LEMMA Remembered ==
    ASSUME past \in Pasts, Remember
    PROVE  /\ ~past'.disturbed =>
                /\ ~past.disturbed
                /\ ~(handler.pc = "holding" /\ handler'.pc = "none")
                /\ order'.refunded # order.refunded => LockFree
                /\ (order'.state # order.state /\ order.ours) =>
                        record' = AfterStatusChange(record, order'.state)
           /\ order'.state = "hold" =>
                IF order.state = "hold" THEN past'.held = past.held
                ELSE handler' # handler => past'.held = "module"
           /\ past'.flagged =>
                /\ record.needsReview => record'.needsReview
                /\ \/ past.flagged
                   \/ /\ record.issued /\ order.ours
                      /\ \/ order.state # "closed" /\ order'.state = "closed"
                         \/ order'.refunded # order.refunded
           /\ ~past'.touched =>
                \/ record'.version # record.version
                \/ ~past.touched /\ (order'.state # order.state => handler' # handler)
BY DEF Remember, Pasts

\* A change of the order's state, with its hooks or without, changes nothing
\* else of the order, and of the record at most markers and flags.
LEMMA StateMoved ==
    ASSUME ShopOK, NEW new \in States, StateChanged(new) \/ StateChangedUnhooked(new)
    PROVE  /\ order' \in Orders /\ record' \in Records
           /\ order'.state = new
           /\ order'.ours = order.ours /\ order'.refunded = order.refunded
           /\ order'.price = order.price
           /\ record'.version = record.version /\ record'.issued = record.issued
           /\ record'.autoHold => record.autoHold
           /\ record.needsReview => record'.needsReview
BY DEF ShopOK, StateChanged, StateChangedUnhooked, AfterStatusChange, Orders, Records

\* What the hooks make of the record of an issued address.
LEMMA Hooked ==
    ASSUME ShopOK, NEW new \in States, record.issued,
           record' = AfterStatusChange(record, new)
    PROVE  /\ record'.autoHold => new = "hold"
           /\ new = "closed" => record'.needsReview
BY DEF ShopOK, AfterStatusChange, Records

\* The steps of the store, by who takes them.
HandlerAction ==
    \/ \E v \in DOMAIN observed : Deliver(v)
    \/ MarkHold \/ HoldOrder \/ HoldFails \/ ServiceUnavailable \/ ServiceAnswers(Live)
    \/ CompleteOrder \/ RecordVersion \/ DatabaseError \/ Reply \/ HandlerDies

OtherAction ==
    \/ RequestSession \/ SaveSession \/ CheckRefused \/ FailOrder
    \/ \E s \in States : MerchantChangesState(s)
    \/ \E p \in Prices : MerchantReprices(p)
    \/ MerchantSwitchesMethod \/ MerchantAddsSlip \/ MerchantClearsReview

\* Every step is one of the service or of the store, and is remembered.
LEMMA NextSplit ==
    ASSUME Next
    PROVE  /\ Remember
           /\ \/ ServiceRecomputes
              \/ UNCHANGED observed /\ (HandlerAction \/ OtherAction)
BY DEF Next, InStore, HandlerAction, OtherAction

\* A new request starts with a genuine event.
LEMMA DeliverType ==
    ASSUME ShopOK, observed \in Seq(Amounts), NEW v \in DOMAIN observed,
           NEW pc \in {"reply", "hold", "record", "confirm"}
    PROVE  LET e == [version |-> v, total |-> observed[v]]
           IN  /\ At(pc, e) \in Handlers
               /\ [At(pc, e) EXCEPT !.ok = TRUE] \in Handlers
<1>1. v \in Nat /\ observed[v] \in Nat
  <2>1. DOMAIN observed = 1 .. Len(observed) /\ Len(observed) \in Nat
    OBVIOUS
  <2>2. v \in 1 .. Len(observed) /\ observed[v] \in Amounts
    BY <2>1
  <2>3. Amounts \subseteq Nat
    BY DeliveryAssumption
  <2>4. observed[v] \in Nat
    BY <2>2, <2>3
  <2>5. v \in Nat
    BY <2>1, <2>2
  <2> QED BY <2>4, <2>5
<1>2. [version |-> v, total |-> observed[v]] \in Events
  BY <1>1 DEF Events
<1> QED BY <1>2 DEF At, Handlers, ShopOK, Orders

\* The steps of the webhook handler keep the types.
LEMMA HandlerTypes ==
    ASSUME TypeOK, HandlerInv, HandlerAction
    PROVE  ShopOK' /\ moves' = moves
<1>1. ShopOK
  BY DEF TypeOK, StoreTypeOK, ShopOK
<1>2. ASSUME NEW pc \in {"none", "hold", "holding", "confirm", "complete", "record", "reply"}
      PROVE  [handler EXCEPT !.pc = pc] \in Handlers
  BY <1>1 DEF ShopOK, Handlers
<1>3. \A ok \in BOOLEAN : Answer(ok) => handler' \in Handlers
  BY <1>1 DEF ShopOK, Handlers, Answer
<1>4. CASE \E v \in DOMAIN observed : Deliver(v)
  <2>1. PICK v \in DOMAIN observed : Deliver(v)
    BY <1>4
  <2> DEFINE e == [version |-> v, total |-> observed[v]]
  <2>2. \A pc \in {"reply", "hold", "record", "confirm"} :
            At(pc, e) \in Handlers /\ [At(pc, e) EXCEPT !.ok = TRUE] \in Handlers
    BY <1>1, DeliverType DEF TypeOK
  <2>3. BeginDelivery(e)
    BY <2>1 DEF Deliver
  <2> HIDE DEF e
  <2>4. handler' \in Handlers
    BY <2>2, <2>3 DEF BeginDelivery
  <2>5. record' \in Records
    BY <1>1, <2>3 DEF BeginDelivery, Flagged, ShopOK, Records
  <2> QED BY <1>1, <2>3, <2>4, <2>5 DEF BeginDelivery, ShopOK
<1>5. CASE MarkHold
  <2>1. handler.target \in Paid
    BY <1>5 DEF MarkHold, HandlerInv
  <2>2. record' \in Records
    BY <1>1, <1>5, <2>1 DEF MarkHold, ShopOK, Records
  <2> QED BY <1>1, <1>2, <1>5, <2>2 DEF MarkHold, ShopOK
<1>6. CASE HoldOrder
  <2>1. order' \in Orders /\ record' \in Records
    BY <1>1, <1>6, StateMoved DEF HoldOrder, States
  <2> QED BY <1>1, <1>2, <1>6, <2>1 DEF HoldOrder, ShopOK
<1>7. CASE HoldFails
  <2>1. record' \in Records
    BY <1>1, <1>7 DEF HoldFails, ShopOK, Records
  <2> QED BY <1>1, <1>3, <1>7, <2>1 DEF HoldFails, ShopOK
<1>8. CASE ServiceUnavailable \/ DatabaseError
  BY <1>1, <1>3, <1>8 DEF ServiceUnavailable, DatabaseError, ShopOK
<1>9. CASE ServiceAnswers(Live)
  <2>1. [handler EXCEPT !.pc = "complete",
                        !.target = IF OwnHold /\ record.preHold # NoState
                                   THEN record.preHold ELSE "accepted"] \in Handlers
    <3>1. PICK target : target = IF OwnHold /\ record.preHold # NoState
                                 THEN record.preHold ELSE "accepted"
      OBVIOUS
    <3>2. target \in Paid
      BY <1>1, <3>1 DEF ShopOK, Records, Paid
    <3>3. [handler EXCEPT !.pc = "complete", !.target = target] \in Handlers
      BY <1>1, <3>2 DEF ShopOK, Handlers, States
    <3> QED BY <3>1, <3>3
  <2> QED BY <1>1, <1>3, <1>9, <2>1 DEF ServiceAnswers, ShopOK
<1>10. CASE CompleteOrder
  <2>1. handler.target \in States
    BY <1>10 DEF CompleteOrder, HandlerInv, States
  <2>2. PICK new \in States : new = handler.target
    BY <2>1
  <2>3. order' \in Orders /\ record' \in Records
    BY <1>1, <1>10, <2>2, StateMoved DEF CompleteOrder, ShopOK
  <2>4. handler' \in Handlers
    BY <1>2, <1>3, <1>10 DEF CompleteOrder
  <2> QED BY <1>1, <1>10, <2>3, <2>4 DEF CompleteOrder, ShopOK
<1>11. CASE RecordVersion
  <2>1. record' \in Records
    BY <1>1, <1>11 DEF RecordVersion, ShopOK, Records, Handlers, Events
  <2> QED BY <1>1, <1>3, <1>11, <2>1 DEF RecordVersion, ShopOK
<1>12. CASE Reply \/ HandlerDies
  <2>1. NoHandler \in Handlers
    BY DEF NoHandler, NoEvent, Handlers, Events
  <2> QED BY <1>1, <1>12, <2>1 DEF Reply, HandlerDies, ShopOK
<1> QED
  BY <1>4, <1>5, <1>6, <1>7, <1>8, <1>9, <1>10, <1>11, <1>12 DEF HandlerAction

\* So do the steps of the customer and of the merchant.
LEMMA OtherTypes ==
    ASSUME TypeOK, OtherAction
    PROVE  ShopOK' /\ moves' \in 0 .. MaxMoves /\ handler' = handler
<1>1. ShopOK /\ moves \in 0 .. MaxMoves
  BY DEF TypeOK, StoreTypeOK, ShopOK
<1>2. Move => moves' \in 0 .. MaxMoves /\ UNCHANGED << handler, checkout >>
  BY <1>1, StoreAssumption DEF Move
<1>3. CASE RequestSession \/ SaveSession \/ CheckRefused
  <2>1. checkout' \in [pc : CheckoutSteps, price : Prices]
    BY <1>1, <1>3 DEF RequestSession, SaveSession, CheckRefused, ShopOK, CheckoutSteps, Orders
  <2>2. record' \in Records
    BY <1>1, <1>3 DEF RequestSession, SaveSession, CheckRefused, ShopOK, Records, Orders
  <2> QED BY <1>1, <1>3, <2>1, <2>2 DEF RequestSession, SaveSession, CheckRefused, ShopOK
<1>4. CASE FailOrder
  <2>1. order' \in Orders /\ record' \in Records
    BY <1>1, <1>4, StateMoved DEF FailOrder, States, ShopOK
  <2>2. checkout' \in [pc : CheckoutSteps, price : Prices]
    BY <1>1, <1>4 DEF FailOrder, ShopOK, CheckoutSteps
  <2> QED BY <1>1, <1>4, <2>1, <2>2 DEF FailOrder, ShopOK
<1>5. CASE \E s \in States : MerchantChangesState(s)
  <2>1. PICK s \in States : MerchantChangesState(s)
    BY <1>5
  <2>2. order' \in Orders /\ record' \in Records
    BY <1>1, <2>1, StateMoved DEF MerchantChangesState
  <2> QED BY <1>1, <1>2, <2>1, <2>2 DEF MerchantChangesState, ShopOK
<1>6. CASE \/ \E p \in Prices : MerchantReprices(p)
           \/ MerchantSwitchesMethod \/ MerchantAddsSlip \/ MerchantClearsReview
  <2>1. order' \in Orders /\ record' \in Records
    BY <1>1, <1>6 DEF MerchantReprices, MerchantSwitchesMethod, MerchantAddsSlip,
                      MerchantClearsReview, ShopOK, Orders, Records
  <2>2. Move
    BY <1>6 DEF MerchantReprices, MerchantSwitchesMethod, MerchantAddsSlip,
                MerchantClearsReview
  <2> QED BY <1>1, <1>2, <2>1, <2>2 DEF ShopOK
<1> QED BY <1>3, <1>4, <1>5, <1>6 DEF OtherAction

\* Every step keeps the types.
LEMMA TypeStep ==
    ASSUME TypeOK, HandlerInv, Next
    PROVE  TypeOK'
<1>1. past \in Pasts
  BY DEF TypeOK, StoreTypeOK, Pasts
<1>2. past' \in Pasts
  BY <1>1, NextSplit, PastType
<1>3. CASE ServiceRecomputes
  <2>1. Len(observed) \in Nat /\ Len(observed) < MaxVersions /\ MaxVersions \in Nat
    BY <1>3, DeliveryAssumption DEF ServiceRecomputes, TypeOK
  <2>2. PICK t \in Amounts : observed' = Append(observed, t)
    BY <1>3 DEF ServiceRecomputes
  <2>3. observed' \in Seq(Amounts) /\ Len(observed') = Len(observed) + 1
    BY <2>2 DEF TypeOK
  <2>4. Len(observed') <= MaxVersions
    BY <2>1, <2>3
  <2> QED BY <1>2, <1>3, <2>3, <2>4 DEF ServiceRecomputes, TypeOK, StoreTypeOK, Pasts
<1>4. CASE UNCHANGED observed /\ (HandlerAction \/ OtherAction)
  BY <1>2, <1>4, HandlerTypes, OtherTypes DEF TypeOK, StoreTypeOK, ShopOK, Pasts
<1> QED BY <1>3, <1>4, NextSplit

-----------------------------------------------------------------------------
(* What a step does to the order and to the record.                        *)

\* Only a request records a version or sets a hold marker, no address is taken
\* back, and an order that another method has taken over does not return.
LEMMA OtherEffects ==
    ASSUME TypeOK, OtherAction
    PROVE  /\ record'.version = record.version
           /\ record.issued => record'.issued
           /\ record'.autoHold => record.autoHold
           /\ order'.ours => order.ours
<1>1. ShopOK
  BY DEF TypeOK, StoreTypeOK, ShopOK
<1>2. CASE RequestSession \/ SaveSession \/ CheckRefused
  BY <1>1, <1>2 DEF RequestSession, SaveSession, CheckRefused, ShopOK, Records
<1>3. CASE FailOrder
  BY <1>1, <1>3, StateMoved DEF FailOrder, States
<1>4. CASE \E s \in States : MerchantChangesState(s)
  BY <1>1, <1>4, StateMoved DEF MerchantChangesState
<1>5. CASE \/ \E p \in Prices : MerchantReprices(p)
           \/ MerchantSwitchesMethod \/ MerchantAddsSlip \/ MerchantClearsReview
  BY <1>1, <1>5 DEF MerchantReprices, MerchantSwitchesMethod, MerchantAddsSlip,
                    MerchantClearsReview, ShopOK, Orders, Records
<1> QED BY <1>2, <1>3, <1>4, <1>5 DEF OtherAction

\* While a request is under way nobody else changes the state of an order that
\* is ours, and a state that is changed is not left behind in the record.
LEMMA OtherStates ==
    ASSUME TypeOK, OtherAction, order'.state # order.state, order.ours
    PROVE  /\ handler.pc = "none"
           /\ \E new \in States : StateChanged(new) \/ StateChangedUnhooked(new)
<1>1. ShopOK
  BY DEF TypeOK, StoreTypeOK, ShopOK
<1>2. CASE RequestSession \/ SaveSession \/ CheckRefused
  BY <1>2 DEF RequestSession, SaveSession, CheckRefused
<1>3. CASE FailOrder
  BY <1>3 DEF FailOrder, LockFree, States
<1>4. CASE \E s \in States : MerchantChangesState(s)
  BY <1>4 DEF MerchantChangesState, LockFree
<1>5. CASE \/ \E p \in Prices : MerchantReprices(p)
           \/ MerchantSwitchesMethod \/ MerchantAddsSlip \/ MerchantClearsReview
  BY <1>1, <1>5 DEF MerchantReprices, MerchantSwitchesMethod, MerchantAddsSlip,
                    MerchantClearsReview, ShopOK, Orders
<1> QED BY <1>2, <1>3, <1>4, <1>5 DEF OtherAction

\* The steps of a request that leave the order and the record alone, or set the
\* review flag at most.
LEMMA HandlerEffects ==
    ASSUME TypeOK, HandlerInv, HandlerAction
    PROVE  /\ record'.issued = record.issued
           /\ record'.version = IF RecordVersion THEN handler.event.version ELSE record.version
           /\ record'.autoHold => record.autoHold \/ MarkHold
           /\ record.needsReview => record'.needsReview
           /\ order'.ours = order.ours /\ order'.refunded = order.refunded
           /\ order'.state # order.state => HoldOrder \/ CompleteOrder
<1>1. ShopOK
  BY DEF TypeOK, StoreTypeOK, ShopOK
<1>2. CASE \E v \in DOMAIN observed : Deliver(v)
  <2>1. UNCHANGED order /\ record' \in {record, [record EXCEPT !.needsReview = TRUE]}
    BY <1>2 DEF Deliver, BeginDelivery, Flagged
  <2>2. ~RecordVersion
    BY <1>2 DEF Deliver, BeginDelivery, LockFree, RecordVersion
  <2> QED BY <1>1, <2>1, <2>2 DEF ShopOK, Records
<1>3. CASE MarkHold
  BY <1>1, <1>3 DEF MarkHold, RecordVersion, ShopOK, Records
<1>4. CASE HoldOrder
  <2>1. ~RecordVersion
    BY <1>4 DEF HoldOrder, RecordVersion
  <2> QED BY <1>1, <1>4, <2>1, StateMoved DEF HoldOrder, States
<1>5. CASE HoldFails
  BY <1>1, <1>5 DEF HoldFails, RecordVersion, ShopOK, Records
<1>6. CASE CompleteOrder
  <2>1. ~RecordVersion
    BY <1>6 DEF CompleteOrder, RecordVersion
  <2>2. PICK new \in States : new = handler.target
    BY <1>6 DEF CompleteOrder, HandlerInv, States
  <2> QED BY <1>1, <1>6, <2>1, <2>2, StateMoved DEF CompleteOrder
<1>7. CASE RecordVersion
  BY <1>1, <1>7 DEF RecordVersion, ShopOK, Records
<1>8. CASE ~RecordVersion /\ (\/ ServiceUnavailable \/ ServiceAnswers(Live) \/ DatabaseError
                              \/ Reply \/ HandlerDies)
  BY <1>8 DEF ServiceUnavailable, ServiceAnswers, DatabaseError, Reply, HandlerDies
<1> QED BY <1>2, <1>3, <1>4, <1>5, <1>6, <1>7, <1>8 DEF HandlerAction

-----------------------------------------------------------------------------
(* The parts of the invariant.                                             *)

\* The states of the address that were observed stay observed.
LEMMA ObservedGrows ==
    ASSUME TypeOK, ServiceRecomputes
    PROVE  /\ Len(observed) \in Nat /\ Len(observed') = Len(observed) + 1
           /\ \A v \in DOMAIN observed : v \in DOMAIN observed' /\ observed'[v] = observed[v]
<1>1. PICK t \in Amounts : observed' = Append(observed, t)
  BY DEF ServiceRecomputes
<1>2. observed \in Seq(Amounts)
  BY DEF TypeOK
<1> QED BY <1>1, <1>2

\* A request that is not ignored carries a newer state.
LEMMA GenuineStep ==
    ASSUME TypeOK, EventsGenuine, HandlerInv, Next
    PROVE  EventsGenuine'
<1>1. /\ ShopOK /\ record.version \in Nat /\ handler.event.version \in Nat
      /\ Len(observed) \in Nat /\ DOMAIN observed = 1 .. Len(observed)
  BY DEF TypeOK, StoreTypeOK, ShopOK, Records, Handlers, Events
<1>2. CASE ServiceRecomputes
  <2>1. /\ UNCHANGED << order, record, handler >> /\ record.issued
    BY <1>2 DEF ServiceRecomputes
  <2>2. record'.version <= Len(observed')
    BY <1>1, <1>2, <2>1, ObservedGrows DEF EventsGenuine
  <2>3. handler'.pc # "none" =>
            /\ handler'.event.version \in DOMAIN observed'
            /\ handler'.event.total = observed'[handler'.event.version]
    BY <1>2, <2>1, ObservedGrows DEF EventsGenuine
  <2> QED BY <2>1, <2>2, <2>3 DEF EventsGenuine
<1>3. CASE UNCHANGED observed /\ OtherAction
  BY <1>3, OtherTypes, OtherEffects DEF EventsGenuine
<1>4. ASSUME UNCHANGED observed, HandlerAction, ~RecordVersion,
             handler.pc # "none", handler'.event = handler.event,
             handler'.pc \notin {"none", "reply"} => handler.pc \notin {"none", "reply"}
      PROVE  EventsGenuine'
  <2>1. record'.issued = record.issued /\ record'.version = record.version
    BY <1>4, HandlerEffects
  <2>2. record'.autoHold => record'.issued
    BY <1>4, <2>1, HandlerEffects DEF EventsGenuine, MarkHold
  <2> QED BY <1>4, <2>1, <2>2 DEF EventsGenuine
<1>5. ASSUME UNCHANGED observed, HandlerAction
      PROVE  EventsGenuine'
  <2>1. CASE \E v \in DOMAIN observed : Deliver(v)
    <3>1. PICK v \in DOMAIN observed : Deliver(v)
      BY <2>1
    <3>2. PICK e : e = [version |-> v, total |-> observed[v]]
      OBVIOUS
    <3>3. BeginDelivery(e)
      BY <3>1, <3>2 DEF Deliver
    <3>4. handler'.event = e
      BY <3>3 DEF BeginDelivery, At
    <3>5. handler'.pc # "reply" => record.issued /\ record.version < v
      BY <1>1, <3>2, <3>3 DEF BeginDelivery, Ignored, At
    <3>6. ~RecordVersion
      BY <3>3 DEF BeginDelivery, LockFree, RecordVersion
    <3>7. record'.issued = record.issued /\ record'.version = record.version
          /\ (record'.autoHold => record.autoHold)
      BY <1>5, <3>3, <3>6, HandlerEffects DEF BeginDelivery, LockFree, MarkHold
    <3> QED BY <1>5, <3>2, <3>4, <3>5, <3>7 DEF EventsGenuine
  <2>2. CASE MarkHold \/ HoldOrder \/ HoldFails \/ ServiceUnavailable
             \/ ServiceAnswers(Live) \/ CompleteOrder \/ DatabaseError
    <3>1. /\ handler.pc \notin {"none", "reply"}
          /\ handler'.event = handler.event
          /\ ~RecordVersion
      BY <1>1, <2>2 DEF MarkHold, HoldOrder, HoldFails, ServiceUnavailable, ServiceAnswers,
            CompleteOrder, DatabaseError, Answer, RecordVersion, ShopOK, Handlers, Records
    <3> QED BY <1>4, <1>5, <3>1
  <2>3. CASE RecordVersion
    <3>1. /\ handler.pc = "record" /\ handler'.pc = "reply"
          /\ handler'.event = handler.event
      BY <1>1, <2>3 DEF RecordVersion, Answer, ShopOK, Handlers
    <3>2. record'.issued = record.issued /\ record'.version = handler.event.version
          /\ (record'.autoHold => record.autoHold)
      BY <1>5, <2>3, HandlerEffects DEF RecordVersion, MarkHold
    <3>3. handler.event.version <= Len(observed)
      BY <1>1, <3>1 DEF EventsGenuine
    <3> QED BY <1>5, <3>1, <3>2, <3>3 DEF EventsGenuine
  <2>4. CASE Reply \/ HandlerDies
    <3>1. UNCHANGED record /\ handler' = NoHandler
      BY <2>4 DEF Reply, HandlerDies
    <3> QED BY <1>5, <3>1 DEF EventsGenuine, NoHandler
  <2> QED BY <1>5, <2>1, <2>2, <2>3, <2>4 DEF HandlerAction
<1> QED BY <1>2, <1>3, <1>5, NextSplit

\* What a request set out to do stays right: the order cannot move under it.
LEMMA HandlerStep ==
    ASSUME TypeOK, HandlerInv, Next
    PROVE  HandlerInv'
<1>1. ShopOK
  BY DEF TypeOK, StoreTypeOK, ShopOK
<1>2. CASE ServiceRecomputes
  BY <1>2 DEF ServiceRecomputes, HandlerInv, Short
<1>3. CASE OtherAction
  <2>1. handler' = handler /\ (order'.ours => order.ours)
    BY <1>3, OtherTypes, OtherEffects
  <2>2. (order.ours /\ handler.pc # "none") => order'.state = order.state
    BY <1>3, OtherStates
  <2> QED BY <2>1, <2>2 DEF HandlerInv, Short
<1>4. ASSUME HandlerAction
      PROVE  HandlerInv'
  <2>1. order'.ours = order.ours
    BY <1>4, HandlerEffects
  <2>2. ASSUME handler'.pc \in {"none", "reply"}
        PROVE  HandlerInv'
    BY <2>2 DEF HandlerInv
  <2>3. \A ok : Answer(ok) => handler'.pc = "reply"
    BY <1>1 DEF Answer, ShopOK, Handlers
  <2>4. CASE \E v \in DOMAIN observed : Deliver(v)
    <3>1. PICK e : BeginDelivery(e)
      BY <2>4 DEF Deliver
    <3>2. UNCHANGED order
      BY <3>1 DEF BeginDelivery
    <3>3. CASE handler'.pc = "hold"
      <4>1. handler'.target = order.state /\ order.state \in Paid
        BY <3>1, <3>3 DEF BeginDelivery, At
      <4> QED BY <3>2, <3>3, <4>1 DEF HandlerInv
    <3>4. CASE handler'.pc = "record"
      <4>1. handler'.event = e
        BY <3>1 DEF BeginDelivery, At
      <4>2. (Short(e) /\ order.ours) => order.state \notin Paid
        BY <3>1, <3>4 DEF BeginDelivery, At, Paid
      <4> QED BY <3>2, <3>4, <4>1, <4>2 DEF HandlerInv, Short
    <3>5. CASE handler'.pc = "confirm"
      <4>1. handler'.event = e /\ ~Short(e)
        BY <3>1, <3>5 DEF BeginDelivery, At
      <4> QED BY <3>5, <4>1 DEF HandlerInv, Short
    <3>6. handler'.pc \in {"reply", "hold", "record", "confirm"}
      BY <3>1 DEF BeginDelivery, At
    <3> QED BY <2>2, <3>3, <3>4, <3>5, <3>6
  <2>5. CASE MarkHold
    <3>1. /\ handler.pc = "hold" /\ handler'.pc = "holding"
          /\ handler'.target = handler.target /\ UNCHANGED order
      BY <1>1, <2>5 DEF MarkHold, ShopOK, Handlers
    <3> QED BY <3>1 DEF HandlerInv
  <2>6. CASE HoldOrder
    <3>1. handler'.pc = "record" /\ order'.state = "hold"
      BY <1>1, <2>6, StateMoved DEF HoldOrder, ShopOK, Handlers, States
    <3> QED BY <3>1 DEF HandlerInv, Paid
  <2>7. CASE HoldFails \/ ServiceUnavailable \/ DatabaseError \/ RecordVersion
    BY <2>2, <2>3, <2>7 DEF HoldFails, ServiceUnavailable, DatabaseError, RecordVersion
  <2>8. CASE ServiceAnswers(Live)
    <3>1. CASE handler' = [handler EXCEPT !.pc = "complete",
                              !.target = IF OwnHold /\ record.preHold # NoState
                                         THEN record.preHold ELSE "accepted"]
      <4>1. PICK target : target = IF OwnHold /\ record.preHold # NoState
                                   THEN record.preHold ELSE "accepted"
        OBVIOUS
      <4>2. target \in Paid
        BY <1>1, <4>1 DEF ShopOK, Records, Paid
      <4>3. handler' = [handler EXCEPT !.pc = "complete", !.target = target]
        BY <3>1, <4>1
      <4>4. handler'.pc = "complete" /\ handler'.target = target
            /\ handler'.event = handler.event
        BY <1>1, <4>3 DEF ShopOK, Handlers
      <4>5. handler.pc = "confirm"
        BY <2>8 DEF ServiceAnswers
      <4> QED BY <4>2, <4>4, <4>5 DEF HandlerInv, Short
    <3> QED BY <2>2, <2>3, <2>8, <3>1 DEF ServiceAnswers
  <2>9. CASE CompleteOrder
    <3>1. handler.pc = "complete"
      BY <2>9 DEF CompleteOrder
    <3>2. CASE handler' = [handler EXCEPT !.pc = "record"]
      <4>1. handler'.pc = "record" /\ handler'.event = handler.event
        BY <1>1, <3>2 DEF ShopOK, Handlers
      <4> QED BY <3>1, <4>1 DEF HandlerInv, Short
    <3> QED BY <2>2, <2>3, <2>9, <3>2 DEF CompleteOrder
  <2>10. CASE Reply \/ HandlerDies
    BY <2>2, <2>10 DEF Reply, HandlerDies, NoHandler
  <2> QED BY <1>4, <2>4, <2>5, <2>6, <2>7, <2>8, <2>9, <2>10 DEF HandlerAction
<1> QED BY <1>2, <1>3, <1>4, NextSplit

\* A newer state than the recorded one is under way, or nothing has happened to
\* the order since the newest was recorded.
LEMMA NewestStep ==
    ASSUME TypeOK, EventsGenuine, HandlerInv, NewestHeld, Next
    PROVE  NewestHeld'
<1>1. /\ ShopOK /\ past \in Pasts
      /\ record.version \in Nat /\ handler.event.version \in Nat
      /\ Len(observed) \in Nat /\ DOMAIN observed = 1 .. Len(observed)
  BY DEF TypeOK, StoreTypeOK, ShopOK, Pasts, Records, Handlers, Events
<1>2. CASE ServiceRecomputes
  <2>1. UNCHANGED record
    BY <1>2 DEF ServiceRecomputes
  <2>2. record.version # Len(observed')
    BY <1>1, <1>2, ObservedGrows DEF EventsGenuine
  <2> QED BY <2>1, <2>2 DEF NewestHeld
<1>3. ASSUME UNCHANGED observed, record'.issued, order'.ours, ~past'.touched,
             observed # << >>, record'.version = Len(observed), Live < Due,
             HandlerAction \/ OtherAction
      PROVE  order'.state \notin Paid
  <2>1. record.issued
    BY <1>3 DEF EventsGenuine
  <2>2. CASE OtherAction
    <3>1. /\ record'.version = record.version /\ order.ours /\ handler' = handler
      BY <1>3, <2>2, OtherEffects, OtherTypes
    <3>2. ~past.touched /\ order'.state = order.state
      BY <1>1, <1>3, <3>1, Remembered, NextSplit
    <3> QED BY <1>3, <2>1, <3>1, <3>2 DEF NewestHeld
  <2>3. CASE RecordVersion
    <3>1. handler.pc = "record" /\ UNCHANGED order
      BY <2>3 DEF RecordVersion
    <3>2. record'.version = handler.event.version
      BY <1>1, <2>3 DEF RecordVersion, ShopOK, Records
    <3>3. handler.event.total = Live
      BY <1>3, <3>1, <3>2 DEF EventsGenuine, Live
    <3> QED BY <1>3, <3>1, <3>3 DEF HandlerInv, Short
  <2>4. CASE HandlerAction /\ ~RecordVersion
    <3>1. record'.version = record.version /\ order.ours
      BY <1>3, <2>4, HandlerEffects
    <3>2. handler.pc \in {"none", "reply"}
      <4>1. handler.pc # "none" => handler.event.version <= Len(observed)
        BY <1>1 DEF EventsGenuine
      <4> QED BY <1>1, <1>3, <3>1, <4>1 DEF EventsGenuine
    <3>3. order'.state = order.state
      BY <2>4, <3>2, HandlerEffects DEF HoldOrder, CompleteOrder
    <3>4. ~past.touched
      BY <1>1, <1>3, <3>1, Remembered, NextSplit
    <3> QED BY <1>3, <2>1, <3>1, <3>3, <3>4 DEF NewestHeld
  <2> QED BY <1>3, <2>2, <2>3, <2>4
<1>4. CASE UNCHANGED observed /\ (HandlerAction \/ OtherAction)
  <2>1. Live' = Live
    BY <1>4 DEF Live
  <2> QED BY <1>3, <1>4, <2>1 DEF NewestHeld
<1> QED BY <1>2, <1>4, NextSplit

\* Only a credit slip makes an order refunded.
LEMMA RefundedBySlip ==
    ASSUME TypeOK, HandlerInv, ServiceRecomputes \/ HandlerAction \/ OtherAction,
           order'.refunded # order.refunded
    PROVE  MerchantAddsSlip
<1>1. ShopOK
  BY DEF TypeOK, StoreTypeOK, ShopOK
<1>2. OtherAction
  BY HandlerEffects DEF ServiceRecomputes
<1>3. ~(RequestSession \/ SaveSession \/ CheckRefused)
  BY DEF RequestSession, SaveSession, CheckRefused
<1>4. ~FailOrder
  BY <1>1, StateMoved DEF FailOrder, States
<1>5. ~ \E s \in States : MerchantChangesState(s)
  BY <1>1, StateMoved DEF MerchantChangesState
<1>6. ~ (\/ \E p \in Prices : MerchantReprices(p)
         \/ MerchantSwitchesMethod \/ MerchantClearsReview)
  BY <1>1 DEF MerchantReprices, MerchantSwitchesMethod, MerchantClearsReview, ShopOK, Orders
<1> QED BY <1>2, <1>3, <1>4, <1>5, <1>6 DEF OtherAction

\* The markers say whose hold it is, as long as no step left them behind.
LEMMA MarkedStep ==
    ASSUME TypeOK, TypeOK', EventsGenuine, HandlerInv, HoldsMarked, Next
    PROVE  HoldsMarked'
<1> SUFFICES ASSUME order'.ours, record'.autoHold, ~past'.disturbed
             PROVE  \/ order'.state = "hold" /\ past'.held = "module"
                    \/ order'.state # "hold" /\ handler'.pc = "holding"
  BY DEF HoldsMarked
<1>1. ShopOK /\ past \in Pasts /\ order'.state \in States /\ order.state \in States
  BY DEF TypeOK, StoreTypeOK, ShopOK, Pasts, Orders
<1>2. /\ ~past.disturbed
      /\ ~(handler.pc = "holding" /\ handler'.pc = "none")
      /\ (order'.state # order.state /\ order.ours) =>
              record' = AfterStatusChange(record, order'.state)
      /\ order'.state = "hold" =>
              IF order.state = "hold" THEN past'.held = past.held
              ELSE handler' # handler => past'.held = "module"
  BY <1>1, Remembered, NextSplit
<1>3. ASSUME order.ours, record.autoHold, order'.state # order.state
      PROVE  order'.state = "hold"
  BY <1>1, <1>2, <1>3, Hooked DEF EventsGenuine
<1>4. ASSUME order.ours, record.autoHold, order'.state = order.state,
             handler.pc = "holding" => handler'.pc = "holding"
      PROVE  \/ order'.state = "hold" /\ past'.held = "module"
             \/ order'.state # "hold" /\ handler'.pc = "holding"
  BY <1>2, <1>4 DEF HoldsMarked
<1>5. CASE ServiceRecomputes
  BY <1>4, <1>5 DEF ServiceRecomputes
<1>6. CASE OtherAction
  <2>1. order.ours /\ record.autoHold /\ handler' = handler
    BY <1>6, OtherEffects, OtherTypes
  <2>2. CASE order'.state = order.state
    BY <1>4, <2>1, <2>2
  <2>3. CASE order'.state # order.state
    <3>1. handler.pc = "none"
      BY <1>6, <2>1, <2>3, OtherStates
    <3>2. order.state = "hold"
      BY <1>2, <2>1, <3>1 DEF HoldsMarked
    <3> QED BY <1>3, <2>1, <2>3, <3>2
  <2> QED BY <2>2, <2>3
<1>7. CASE MarkHold
  <2>1. /\ handler.pc = "hold" /\ UNCHANGED order
        /\ handler'.pc = "holding"
    BY <1>1, <1>7 DEF MarkHold, ShopOK, Handlers
  <2>2. order.state \in Paid
    BY <2>1 DEF HandlerInv
  <2> QED BY <2>1, <2>2 DEF Paid
<1>8. CASE HoldOrder
  <2>1. /\ handler.pc = "holding" /\ order'.state = "hold" /\ order'.ours = order.ours
        /\ handler'.pc = "record"
    BY <1>1, <1>8, StateMoved DEF HoldOrder, States, ShopOK, Handlers
  <2>2. order.state \in Paid
    BY <2>1 DEF HandlerInv
  <2> QED BY <1>2, <2>1, <2>2 DEF Paid
<1>9. CASE HandlerAction /\ ~MarkHold /\ ~HoldOrder
  <2>1. order.ours /\ record.autoHold
    BY <1>9, HandlerEffects
  <2>2. CASE CompleteOrder
    <3>1. handler.pc = "complete"
      BY <2>2 DEF CompleteOrder
    <3>2. order.state = "hold"
      BY <1>2, <2>1, <3>1 DEF HoldsMarked
    <3>3. order'.state = order.state
      BY <1>3, <2>1, <3>2
    <3> QED BY <1>4, <2>1, <3>1, <3>3
  <2>3. CASE ~CompleteOrder
    <3>1. order'.state = order.state
      BY <1>9, <2>3, HandlerEffects
    <3>2. ~HoldFails
      BY <1>1 DEF HoldFails, ShopOK, Records
    <3>3. handler.pc = "holding" => handler'.pc = "holding"
      <4> SUFFICES ASSUME handler.pc = "holding" PROVE FALSE
        OBVIOUS
      <4>1. HandlerDies
        BY <1>9, <2>3, <3>2 DEF HandlerAction, Deliver, BeginDelivery, LockFree,
              ServiceUnavailable, ServiceAnswers, RecordVersion, DatabaseError, Reply
      <4> QED BY <1>2, <4>1 DEF HandlerDies, NoHandler
    <3> QED BY <1>4, <2>1, <3>1, <3>3
  <2> QED BY <2>2, <2>3
<1> QED BY <1>5, <1>6, <1>7, <1>8, <1>9, NextSplit

\* A handler's step is the one it was last given.
LEMMA StepGiven ==
    ASSUME handler \in Handlers, NEW pc, NEW ok
    PROVE  /\ [handler EXCEPT !.pc = pc].pc = pc
           /\ [handler EXCEPT !.pc = pc, !.ok = ok].pc = pc
BY DEF Handlers

\* A flag is set with what it is about, and a request that completes an order
\* has seen none.
LEMMA FlagsStep ==
    ASSUME TypeOK, TypeOK', EventsGenuine, HandlerInv, HoldsMarked, FlagsKept, Next
    PROVE  FlagsKept'
<1> SUFFICES ASSUME ~past'.disturbed
             PROVE  /\ past'.flagged => record'.needsReview
                    /\ (handler'.pc = "complete" /\ order'.ours) =>
                        /\ ~past'.flagged
                        /\ order'.state = "hold" => past'.held = "module"
  BY DEF FlagsKept
<1>1. ShopOK /\ past \in Pasts /\ order'.state \in States
  BY DEF TypeOK, StoreTypeOK, ShopOK, Pasts, Orders
<1>2. /\ ~past.disturbed
      /\ order'.refunded # order.refunded => LockFree
      /\ (order'.state # order.state /\ order.ours) =>
              record' = AfterStatusChange(record, order'.state)
      /\ (order'.state = "hold" /\ order.state = "hold") => past'.held = past.held
      /\ past'.flagged =>
           /\ record.needsReview => record'.needsReview
           /\ \/ past.flagged
              \/ /\ record.issued /\ order.ours
                 /\ \/ order.state # "closed" /\ order'.state = "closed"
                    \/ order'.refunded # order.refunded
  BY <1>1, Remembered, NextSplit
<1>3. ServiceRecomputes \/ HandlerAction \/ OtherAction
  BY NextSplit
<1>4. past'.flagged => record'.needsReview
  <2>1. ASSUME record.issued, order.ours, order.state # "closed", order'.state = "closed"
        PROVE  record'.needsReview
    BY <1>1, <1>2, <2>1, Hooked
  <2>2. ASSUME record.issued, order.ours, order'.refunded # order.refunded
        PROVE  record'.needsReview
    <3>1. MerchantAddsSlip
      BY <1>3, <2>2, RefundedBySlip
    <3> QED BY <1>1, <2>2, <3>1 DEF MerchantAddsSlip, ShopOK, Records
  <2> QED BY <1>2, <2>1, <2>2 DEF FlagsKept
<1>5. ASSUME order'.ours, order.ours, order'.state = order.state,
             order'.refunded = order.refunded, ~past.flagged,
             order.state = "hold" => past.held = "module"
      PROVE  /\ ~past'.flagged
             /\ order'.state = "hold" => past'.held = "module"
  BY <1>2, <1>5
<1>6. \A pc, ok : /\ [handler EXCEPT !.pc = pc].pc = pc
                 /\ [handler EXCEPT !.pc = pc, !.ok = ok].pc = pc
  BY <1>1, StepGiven DEF ShopOK
<1>7. ASSUME handler'.pc = "complete", order'.ours
      PROVE  /\ ~past'.flagged
             /\ order'.state = "hold" => past'.held = "module"
  <2>1. CASE ServiceRecomputes
    BY <1>2, <1>5, <1>7, <2>1 DEF ServiceRecomputes, FlagsKept
  <2>2. CASE OtherAction
    <3>1. handler' = handler /\ order.ours
      BY <1>7, <2>2, OtherTypes, OtherEffects
    <3>2. order'.state = order.state /\ order'.refunded = order.refunded
      BY <1>2, <1>7, <2>2, <3>1, OtherStates DEF LockFree
    <3> QED BY <1>2, <1>5, <1>7, <3>1, <3>2 DEF FlagsKept
  <2>3. CASE ServiceAnswers(Live)
    <3>1. /\ UNCHANGED << order, record >>
          /\ ~SetAside
          /\ order.state = "awaiting" \/ OwnHold
      <4>1. ~Answer(TRUE) /\ ~Answer(FALSE)
        BY <1>7, <1>6 DEF Answer
      <4> QED BY <2>3, <4>1 DEF ServiceAnswers
    <3>2. ~past.flagged
      BY <1>2, <3>1 DEF SetAside, FlagsKept
    <3>3. order.state = "hold" => past.held = "module"
      BY <1>2, <1>7, <3>1 DEF OwnHold, HoldsMarked
    <3> QED BY <1>5, <1>7, <3>1, <3>2, <3>3
  <2>4. CASE HandlerAction /\ ~ServiceAnswers(Live)
    <3>1. ~Answer(TRUE) /\ ~Answer(FALSE)
      BY <1>7, <1>6 DEF Answer
    <3>2. \A pc \in {"record", "holding", "none"} :
            /\ handler' # [handler EXCEPT !.pc = pc]
            /\ handler'.pc # pc
      BY <1>7, <1>6
    <3>3. ~(MarkHold \/ HoldOrder \/ Reply \/ HandlerDies)
      <4>1. ~MarkHold
        BY <3>2 DEF MarkHold
      <4>2. ~HoldOrder
        BY <3>2 DEF HoldOrder
      <4>3. ~(Reply \/ HandlerDies)
        BY <3>2 DEF Reply, HandlerDies, NoHandler
      <4> QED BY <4>1, <4>2, <4>3
    <3>4. ~(HoldFails \/ ServiceUnavailable \/ CompleteOrder \/ RecordVersion \/ DatabaseError)
      BY <3>1, <3>2 DEF HoldFails, ServiceUnavailable, CompleteOrder,
            RecordVersion, DatabaseError
    <3>5. \A e : BeginDelivery(e) => handler'.pc # "complete"
      BY DEF BeginDelivery, At
    <3> QED BY <1>7, <2>4, <3>3, <3>4, <3>5 DEF HandlerAction, Deliver
  <2> QED BY <1>3, <2>1, <2>2, <2>3, <2>4
<1> QED BY <1>4, <1>7

-----------------------------------------------------------------------------
(* The theorems.                                                           *)

\* The invariant holds when the order has just been created.
LEMMA InitHeld == Init => DeliveryInv
<1> SUFFICES ASSUME Init PROVE DeliveryInv
  OBVIOUS
<1>1. PICK p \in Prices :
        /\ order = [state |-> "awaiting", price |-> p, ours |-> TRUE, refunded |-> FALSE]
        /\ record = [issued |-> FALSE, priced |-> p, version |-> 0,
                     needsReview |-> FALSE, autoHold |-> FALSE, preHold |-> NoState]
        /\ handler = NoHandler
        /\ checkout = [pc |-> "placed", price |-> p]
        /\ moves = 0
        /\ past = [held |-> "nobody", flagged |-> FALSE, touched |-> FALSE,
                   disturbed |-> FALSE]
  BY DEF Init, StoreInit
<1>2. observed = << >> /\ Len(observed) = 0
  BY DEF Init
<1>3. NoHandler \in Handlers
  BY DEF NoHandler, NoEvent, Handlers, Events
<1>4. order \in Orders /\ record \in Records
  BY <1>1 DEF Orders, Records, States
<1>5. moves \in 0 .. MaxMoves
  BY <1>1, StoreAssumption
<1>6. StoreTypeOK
  BY <1>1, <1>3, <1>4, <1>5 DEF StoreTypeOK, CheckoutSteps
<1>7. TypeOK
  BY <1>2, <1>6, DeliveryAssumption DEF TypeOK
<1>8. EventsGenuine /\ HandlerInv
  BY <1>1, <1>2 DEF EventsGenuine, HandlerInv, NoHandler
<1>9. NewestHeld /\ HoldsMarked /\ FlagsKept
  BY <1>1 DEF NewestHeld, HoldsMarked, FlagsKept
<1> QED BY <1>7, <1>8, <1>9 DEF DeliveryInv

\* The invariant is kept by every step.
LEMMA DeliveryStep == DeliveryInv /\ [Next]_vars => DeliveryInv'
<1> SUFFICES ASSUME DeliveryInv, [Next]_vars PROVE DeliveryInv'
  OBVIOUS
<1>1. CASE Next
  <2>1. TypeOK'
    BY <1>1, TypeStep DEF DeliveryInv
  <2> QED
    BY <1>1, <2>1, GenuineStep, HandlerStep, NewestStep, MarkedStep, FlagsStep DEF DeliveryInv
<1>2. CASE UNCHANGED vars
  BY <1>2 DEF vars, storeVars, DeliveryInv, TypeOK, StoreTypeOK, EventsGenuine, HandlerInv,
              NewestHeld, Live, HoldsMarked, FlagsKept, Short
<1> QED BY <1>1, <1>2

\* DeliveryInvariance: what a webhook request may rely on at each of its steps,
\* and what the record says of the order, whatever is delivered and whenever.
THEOREM DeliveryInvariance == Spec => []DeliveryInv
<1> QED BY InitHeld, DeliveryStep, PTL DEF Spec

\* ShortTheorem: an order whose newest recorded state does not cover it is not
\* in a paid state, unless the merchant put it there (ZcashPaymentWebhook::apply
\* records the version last).
THEOREM ShortTheorem == Spec => []ShortIsHeld
<1>1. DeliveryInv => ShortIsHeld
  BY DEF DeliveryInv, NewestHeld, ShortIsHeld
<1> QED BY <1>1, DeliveryInvariance, PTL

\* A request changes the state of an order that is ours only by holding it or by
\* completing it.
LEMMA HandlerMoves ==
    ASSUME DeliveryInv, Next, HandlerMovesOrder
    PROVE  \/ /\ handler.pc = "holding" /\ order.state \in Paid /\ order'.state = "hold"
           \/ handler.pc = "complete"
<1>1. TypeOK /\ HandlerInv /\ ShopOK
  BY DEF DeliveryInv, TypeOK, StoreTypeOK, ShopOK
<1>2. HandlerAction
  BY <1>1, NextSplit, OtherTypes DEF HandlerMovesOrder, ServiceRecomputes
<1>3. HoldOrder \/ CompleteOrder
  BY <1>1, <1>2, HandlerEffects DEF HandlerMovesOrder
<1>4. CASE HoldOrder
  <2>1. handler.pc = "holding" /\ order'.state = "hold"
    BY <1>1, <1>4, StateMoved DEF HoldOrder, States
  <2> QED BY <1>1, <2>1 DEF HandlerInv, HandlerMovesOrder
<1>5. CASE CompleteOrder
  BY <1>5 DEF CompleteOrder
<1> QED BY <1>3, <1>4, <1>5

\* OwnHoldTheorem: the handler releases only the module's own hold
\* (auto_hold, after_status_change).
THEOREM OwnHoldTheorem == Spec => OwnHoldOnly
<1>1. DeliveryInv /\ [Next]_vars =>
        [HandlerMovesOrder /\ order.state = "hold" => past.held = "module" \/ past.disturbed]_vars
  <2> SUFFICES ASSUME DeliveryInv, Next, HandlerMovesOrder, order.state = "hold"
               PROVE  past.held = "module" \/ past.disturbed
    OBVIOUS
  <2>1. handler.pc = "complete" /\ order.ours
    BY HandlerMoves DEF Paid, HandlerMovesOrder
  <2> QED BY <2>1 DEF DeliveryInv, FlagsKept
<1> QED BY <1>1, DeliveryInvariance, PTL DEF Spec, OwnHoldOnly

\* FlaggedTheorem: no event completes or releases an order that was closed or
\* refunded until the merchant has cleared the review (apply, after_status_change).
THEOREM FlaggedTheorem == Spec => FlaggedNeverCompleted
<1>1. DeliveryInv /\ [Next]_vars =>
        [HandlerMovesOrder /\ order'.state \in Paid => ~past.flagged \/ past.disturbed]_vars
  <2> SUFFICES ASSUME DeliveryInv, Next, HandlerMovesOrder, order'.state \in Paid
               PROVE  ~past.flagged \/ past.disturbed
    OBVIOUS
  <2>1. handler.pc = "complete" /\ order.ours
    BY HandlerMoves DEF Paid, HandlerMovesOrder
  <2> QED BY <2>1 DEF DeliveryInv, FlagsKept
<1> QED BY <1>1, DeliveryInvariance, PTL DEF Spec, FlaggedNeverCompleted
=============================================================================
