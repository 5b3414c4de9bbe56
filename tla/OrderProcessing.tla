--------------------------- MODULE OrderProcessing ---------------------------
(***************************************************************************)
(* One order after its creation: its row in the orders table, its items,   *)
(* and the handlers of OrdersService and ItemsService that change them.    *)
(*                                                                         *)
(* The service runs on one Node thread, so a handler is atomic between two *)
(* awaits and every other handler may run at each await.  A handler reads  *)
(* the row (findOne), works on that entity in memory, and repository.save  *)
(* writes the entity back: nothing locks the row, no version is compared,  *)
(* so the write puts back every column the handler read.  One action below *)
(* is one stretch of code between two awaits.                              *)
(*                                                                         *)
(* A request that is rejected, or answered as a replay, changes nothing: a *)
(* stuttering step.  TypeORM's re-read and UPDATE inside save is one step. *)
(***************************************************************************)
EXTENDS OrderLifecycle, Naturals

CONSTANTS
    Handlers,           \* order requests being served (HTTP calls in flight)
    ItemHandlers,       \* item requests being served
    Items,              \* the items the order was created with
    ExtraItems,         \* items POST /items/order/:orderId may add to it
    AddedStatus,        \* fulfilment statuses such a request may carry
    References,         \* payment ids Payments may send
    NoReference,        \* orders.paymentReferenceId is null
    Overlap,            \* may requests on this order overlap in time?
    StatusRequests,     \* the statuses PUT /orders/:id/status may carry
    PaymentRequests,    \* the statuses Payments may report
    FulfillmentReports, \* the statuses Warehouse may report
    Approvals,          \* the approvals a status request may carry
    InitialPayments,    \* paymentStatus a channel may create the order with
    MaxRequests,        \* bound: accepted order requests in a behaviour
    MaxItemRequests,    \* bound: accepted item requests in a behaviour
    MaxFaults           \* bound: crashes and failed saves in a behaviour

ASSUME ProcessingAssumption ==
    /\ NoReference \notin References
    /\ Overlap \in BOOLEAN
    /\ StatusRequests \subseteq RequestableStatus
    /\ FulfillmentReports \subseteq FulfillmentStatus
    /\ AddedStatus \subseteq ItemStatus
    /\ Approvals \subseteq Approval
    /\ InitialPayments \subseteq PaymentStatus
    /\ {MaxRequests, MaxItemRequests, MaxFaults} \subseteq Nat

VARIABLES
    row,        \* the committed row of the orders table
    items,      \* the committed order_items.fulfillmentStatus
    attempted,  \* reservation actions Orders has asked the warehouse for
    applied,    \* <<action, item>>: what the warehouse has carried out
    dispatched, \* fulfilment orders the warehouse has received
    published,  \* events handed to the event service, by kind
    announced,  \* the stage of the last lifecycle_changed event
    job,        \* the handlers in flight
    itemWrites, \* the item handlers that have read and not yet saved
    rewritten,  \* history: items written by addItem, or by a save whose
                \* handler had read an older status
    received, itemsReceived, faults

database == <<row, items>>
warehouse == <<attempted, applied, dispatched>>
events == <<published, announced>>
counters == <<received, itemsReceived, faults>>
itemWork == <<itemWrites, rewritten>>
vars == <<database, warehouse, events, job, itemWork, counters>>

AllItems == Items \cup ExtraItems

ItemRows == UNION {[ids -> ItemStatus] : ids \in SUBSET AllItems}

-----------------------------------------------------------------------------

\* Mutant: the status is stored as Payments words it.
PaymentStatusRaw == [s \in {"pending", "processing", "completed", "failed", "cancelled"} |-> s]

\* PAYMENT_STATUS_MAP; refund-like words have no entry and are rejected.
PaymentStatusOf ==
    [s \in {"pending", "processing", "completed", "failed", "cancelled"} |->
        IF s = "completed" THEN "paid" ELSE s]

Row ==
    [status : OrderStatus, payment : PaymentStatus, ref : References \cup {NoReference},
     handoff : HandoffStatus, fulfillment : FulfillmentStatus \cup {"none"},
     audit : IdempotencyKeys \cup {NoKey}]

EventKind == {"lifecycle_changed", "updated", "cancelled", "paid"}

ReservationAction == {"fulfill", "release", "cancel"}

\* Where a handler in flight awaits.
Await == {"save", "warehouse", "dispatch", "saveHandoff", "lifecycle", "events"}

(***************************************************************************)
(* What a handler in flight carries: where it stands, its entity, the      *)
(* items read with it, the stage derived before the change, the warehouse  *)
(* call still to make and the coarse events still to publish.              *)
(***************************************************************************)
Running ==
    [at : Await, order : Row, seen : ItemRows, from : Stage,
     call : ReservationAction \cup {"none"}, todo : SUBSET EventKind]

NoJob == [at |-> "idle"]

Busy(h) == job[h] # NoJob

\* The action's outcome as warehouseHandoff.status.
HandoffOf ==
    [a \in ReservationAction |->
        CASE a = "fulfill" -> "fulfilled" [] a = "release" -> "released"
          [] a = "cancel" -> "cancelled"]

-----------------------------------------------------------------------------

\* The order as create committed it: reserved at the warehouse, announced.
Init ==
    /\ row \in [status : {"pending", "confirmed"}, payment : InitialPayments,
                ref : {NoReference}, handoff : {"reserved"}, fulfillment : {"none"},
                audit : {NoKey}]
    /\ items = [i \in Items |-> "pending"]
    /\ attempted = {}
    /\ applied = {}
    /\ dispatched = 0
    /\ published = [k \in EventKind |-> 0]
    /\ announced = DeriveStage(row, items)
    /\ job = [h \in Handlers |-> NoJob]
    /\ itemWrites = {}
    /\ rewritten = {}
    /\ received = 0
    /\ itemsReceived = 0
    /\ faults = 0

\* A request is read: alone on the order unless requests may overlap.
Admitted ==
    Overlap \/ (itemWrites = {} /\ \A g \in Handlers : ~Busy(g))

\* findOne has answered and the handler has decided what to write and to do.
Begin(h, entity, reservation, coarse) ==
    /\ ~Busy(h)
    /\ Admitted
    /\ received < MaxRequests
    /\ received' = received + 1
    /\ job' = [job EXCEPT ![h] =
                  [at |-> "save", order |-> entity, seen |-> items,
                   from |-> DeriveStage(row, items), call |-> reservation,
                   todo |-> coarse]]
    /\ UNCHANGED <<database, warehouse, events, itemWork, itemsReceived, faults>>

\* hasMatchingStatusIdempotencyKey: this cancellation was recorded already.
CancellationReplayed(key) == key \in IdempotencyKeys /\ row.audit = key

UpdateStatus(h) ==
    \E to \in StatusRequests \ {row.status}, a \in Approvals :
        /\ OrderTransitionAccepted(row.status, to, items, a)
        /\ to = "cancelled" => ~CancellationReplayed(a.key)
        /\ IF to = "cancelled"
             THEN Begin(h, [row EXCEPT !.status = to, !.audit = a.key], "cancel",
                        {"updated", "cancelled"})
             ELSE Begin(h, [row EXCEPT !.status = to], "none", {"updated"})

\* Mutant: a report that downgrades a paid order is let through.
PaymentAcceptedAfterPaid(payment, ref) ==
    /\ row.status = "cancelled" => payment # "paid"
    /\ row.payment = "paid" /\ payment = "paid" => row.ref \in {NoReference, ref}

\* Mutant: the reference of a paid order is not compared.
PaymentAcceptedAnyReference(payment, ref) ==
    /\ row.status = "cancelled" => payment # "paid"
    /\ row.payment = "paid" => payment = "paid"

\* Mutant: a late payment for a cancelled order is let through.
PaymentAcceptedLate(payment, ref) ==
    row.payment = "paid" => payment = "paid" /\ row.ref \in {NoReference, ref}

\* The guards of applyPaymentStatus: late payment, downgrade, other reference.
PaymentAccepted(payment, ref) ==
    /\ row.status = "cancelled" => payment # "paid"
    /\ row.payment = "paid" =>
          /\ payment = "paid"
          /\ row.ref \in {NoReference, ref}

\* Mutant: a repeated report asks the warehouse again.
ReservationCallAlways(payment) ==
    IF payment = "paid" THEN "fulfill"
    ELSE IF payment \in {"failed", "cancelled"} THEN "release"
    ELSE "none"

\* The warehouse call a change of the payment status asks for.
ReservationCall(payment) ==
    IF payment = row.payment THEN "none"
    ELSE IF payment = "paid" THEN "fulfill"
    ELSE IF payment \in {"failed", "cancelled"} THEN "release"
    ELSE "none"

\* Which coarse events a payment report announces.
PaymentEvents(payment) ==
    {k \in {"updated", "paid"} :
        /\ payment = "paid"
        /\ IF k = "updated" THEN row.status = "pending" ELSE row.payment # "paid"}

ApplyPaymentStatus(h) ==
    \E s \in PaymentRequests \cap DOMAIN PaymentStatusOf, ref \in References :
        LET payment == PaymentStatusOf[s]
            confirm == payment = "paid" /\ row.status = "pending"
        IN  /\ PaymentAccepted(payment, ref)
            /\ Begin(h,
                     [row EXCEPT !.payment = payment, !.ref = ref,
                                 !.status = IF confirm THEN "confirmed" ELSE @],
                     ReservationCall(payment), PaymentEvents(payment))

\* The report is merged into the handoff and its projection becomes the status.
ApplyWarehouseFulfillmentStatus(h) ==
    \E report \in FulfillmentReports :
        LET reported == [row EXCEPT !.fulfillment = report]
        IN  Begin(h,
                  [reported EXCEPT !.status = Projection[DeriveStage(reported, items)]],
                  "none", {})

-----------------------------------------------------------------------------

At(h, place) == Busy(h) /\ job[h].at = place

MoveTo(h, place) == job' = [job EXCEPT ![h].at = place]

Finish(h) == job' = [job EXCEPT ![h] = NoJob]

\* Mutant: the warehouse is asked after the events, if at all.
SaveThenAnnounce(h) ==
    /\ At(h, "save")
    /\ row' = job[h].order
    /\ MoveTo(h, "lifecycle")
    /\ UNCHANGED <<items, warehouse, events, itemWork, counters>>

\* orderRepository.save(order)
Save(h) ==
    /\ At(h, "save")
    /\ row' = job[h].order
    /\ MoveTo(h, IF job[h].call = "none" THEN "lifecycle" ELSE "warehouse")
    /\ UNCHANGED <<items, warehouse, events, itemWork, counters>>

\* Mutant: an answer for some of the items is taken for all of them.
CallWarehouseLenient(h) ==
    /\ At(h, "warehouse")
    /\ \E outcome \in {HandoffOf[job[h].call], "failed", "skipped"},
          acted \in SUBSET DOMAIN job[h].seen :
          /\ outcome = "skipped" => acted = {}
          /\ applied' = applied \cup ({job[h].call} \X acted)
          /\ job' = [job EXCEPT
                        ![h].order = [@ EXCEPT !.handoff = outcome, !.fulfillment = "none"],
                        ![h].at = IF job[h].call = "fulfill" THEN "dispatch"
                                  ELSE "saveHandoff"]
    /\ attempted' = attempted \cup {job[h].call}
    /\ UNCHANGED <<database, dispatched, events, itemWork, counters>>

(***************************************************************************)
(* applyReservationAction over the order's items, one POST after another.  *)
(* Nothing is sent when reservations are disabled or an item has no        *)
(* warehouse.  The loop stops at the first failure, which may be a lost    *)
(* answer: any part of the items may have been acted on by then.  The      *)
(* summary replaces the handoff, the warehouse's report in it included.    *)
(***************************************************************************)
CallWarehouse(h) ==
    /\ At(h, "warehouse")
    /\ \E outcome \in {HandoffOf[job[h].call], "failed", "skipped"},
          acted \in SUBSET DOMAIN job[h].seen :
          /\ outcome = HandoffOf[job[h].call] => acted = DOMAIN job[h].seen
          /\ outcome = "skipped" => acted = {}
          /\ applied' = applied \cup ({job[h].call} \X acted)
          /\ job' = [job EXCEPT
                        ![h].order = [@ EXCEPT !.handoff = outcome, !.fulfillment = "none"],
                        ![h].at = IF job[h].call = "fulfill" THEN "dispatch"
                                  ELSE "saveHandoff"]
    /\ attempted' = attempted \cup {job[h].call}
    /\ UNCHANGED <<database, dispatched, events, itemWork, counters>>

\* Mutant: the outcome of the reservation call is not looked at.
DispatchUnchecked(h) ==
    /\ At(h, "dispatch")
    /\ dispatched' = dispatched + 1
    /\ MoveTo(h, "saveHandoff")
    /\ UNCHANGED <<database, attempted, applied, events, itemWork, counters>>

\* createAfterPaymentFulfillment: only stock recorded as fulfilled is dispatched.
Dispatch(h) ==
    /\ At(h, "dispatch")
    /\ \/ /\ job[h].order.handoff = "fulfilled"
          /\ dispatched' = dispatched + 1
       \/ UNCHANGED dispatched
    /\ MoveTo(h, "saveHandoff")
    /\ UNCHANGED <<database, attempted, applied, events, itemWork, counters>>

\* Mutant: the handoff stays on the entity and is not saved.
SaveHandoffForgotten(h) ==
    /\ At(h, "saveHandoff")
    /\ MoveTo(h, "lifecycle")
    /\ UNCHANGED <<database, warehouse, events, itemWork, counters>>

\* The second orderRepository.save, with the handoff the warehouse call left.
SaveHandoff(h) ==
    /\ At(h, "saveHandoff")
    /\ row' = job[h].order
    /\ MoveTo(h, "lifecycle")
    /\ UNCHANGED <<items, warehouse, events, itemWork, counters>>

StageOf(h) == DeriveStage(job[h].order, job[h].seen)

\* publishLifecycleChangedIfNeeded, when it does not throw.
AnnounceStage(h) ==
    /\ At(h, "lifecycle")
    /\ StageTransitionAllowed(job[h].from, StageOf(h))
    /\ IF StageOf(h) = job[h].from
         THEN UNCHANGED events
         ELSE /\ published' = [published EXCEPT !["lifecycle_changed"] = @ + 1]
              /\ announced' = StageOf(h)
    /\ IF job[h].todo = {} THEN Finish(h) ELSE MoveTo(h, "events")
    /\ UNCHANGED <<database, warehouse, itemWork, counters>>

\* Mutant: the error is lost in a promise nobody awaits.
RefuseStageUnsettled(h) ==
    /\ At(h, "lifecycle")
    /\ ~StageTransitionAllowed(job[h].from, StageOf(h))
    /\ UNCHANGED vars

\* publishLifecycleChangedIfNeeded throws: the request fails after its saves.
RefuseStage(h) ==
    /\ At(h, "lifecycle")
    /\ ~StageTransitionAllowed(job[h].from, StageOf(h))
    /\ Finish(h)
    /\ UNCHANGED <<database, warehouse, events, itemWork, counters>>

\* publishOrderUpdated, its cancelled event, publishOrderPaid: updated is first.
PublishCoarse(h) ==
    /\ At(h, "events")
    /\ \E k \in job[h].todo :
          /\ "updated" \in job[h].todo => k = "updated"
          /\ published' = [published EXCEPT ![k] = @ + 1]
          /\ IF job[h].todo = {k} THEN Finish(h)
             ELSE job' = [job EXCEPT ![h].todo = @ \ {k}]
    /\ UNCHANGED <<database, warehouse, announced, itemWork, counters>>

-----------------------------------------------------------------------------

\* ItemsService.addItem: whatever the order has reached, and also over an item
\* that exists when the body names its id.
AddItem(status) ==
    /\ Admitted
    /\ itemsReceived < MaxItemRequests
    /\ \E i \in AllItems :
          /\ items' = [j \in DOMAIN items \cup {i} |-> IF j = i THEN status ELSE items[j]]
          /\ rewritten' = rewritten \cup {i}
    /\ itemsReceived' = itemsReceived + 1
    /\ UNCHANGED <<row, warehouse, events, job, itemWrites, received, faults>>

\* ItemsService.updateFulfillmentStatus up to its save.
ReadItem(w) ==
    /\ \A x \in itemWrites : x.by # w
    /\ Admitted
    /\ itemsReceived < MaxItemRequests
    /\ \E i \in DOMAIN items, to \in RequestableItemStatus :
          /\ ItemTransitionAccepted(items[i], to)
          /\ itemWrites' = itemWrites \cup {[by |-> w, item |-> i, from |-> items[i], to |-> to]}
    /\ itemsReceived' = itemsReceived + 1
    /\ UNCHANGED <<database, warehouse, events, job, rewritten, received, faults>>

SaveItem(w) ==
    /\ \E x \in itemWrites :
          /\ x.by = w
          /\ items' = [items EXCEPT ![x.item] = x.to]
          /\ rewritten' = IF items[x.item] = x.from THEN rewritten
                          ELSE rewritten \cup {x.item}
          /\ itemWrites' = itemWrites \ {x}
    /\ UNCHANGED <<row, warehouse, events, job, counters>>

-----------------------------------------------------------------------------

\* A save rejects (database error): the handler's catch rethrows.
SaveFails(h) ==
    /\ At(h, "save") \/ At(h, "saveHandoff")
    /\ faults < MaxFaults
    /\ faults' = faults + 1
    /\ Finish(h)
    /\ UNCHANGED <<database, warehouse, events, itemWork, received, itemsReceived>>

\* The pod stops: every handler in flight is lost, what was committed stays.
Crash ==
    /\ faults < MaxFaults
    /\ faults' = faults + 1
    /\ job' = [h \in Handlers |-> NoJob]
    /\ itemWrites' = {}
    /\ UNCHANGED <<database, warehouse, events, rewritten, received, itemsReceived>>

Continue(h) ==
    \/ Save(h)
    \/ CallWarehouse(h)
    \/ Dispatch(h)
    \/ SaveHandoff(h)
    \/ AnnounceStage(h)
    \/ RefuseStage(h)
    \/ PublishCoarse(h)

Next ==
    \/ \E h \in Handlers :
          \/ UpdateStatus(h)
          \/ ApplyPaymentStatus(h)
          \/ ApplyWarehouseFulfillmentStatus(h)
          \/ Continue(h)
          \/ SaveFails(h)
    \/ \E status \in AddedStatus : AddItem(status)
    \/ \E w \in ItemHandlers : ReadItem(w) \/ SaveItem(w)
    \/ Crash

Spec == Init /\ [][Next]_vars

(***************************************************************************)
(* The steps Orders takes on its own end: the database answers or rejects, *)
(* RabbitMQ publishing never throws.  Nothing is assumed of the warehouse: *)
(* its HTTP client has no timeout.                                         *)
(***************************************************************************)
OwnStep(h) ==
    Save(h) \/ SaveHandoff(h) \/ AnnounceStage(h) \/ RefuseStage(h) \/ PublishCoarse(h)

FairSpec == Spec /\ \A h \in Handlers : WF_vars(OwnStep(h))

-----------------------------------------------------------------------------

\* The types of the variables; who awaits the warehouse has a call to make.
TypeOK ==
    /\ row \in Row
    /\ items \in ItemRows
    /\ Items \subseteq DOMAIN items
    /\ attempted \subseteq ReservationAction
    /\ applied \subseteq ReservationAction \X AllItems
    /\ dispatched \in Nat
    /\ published \in [EventKind -> Nat]
    /\ announced \in Stage
    /\ job \in [Handlers -> Running \cup {NoJob}]
    /\ \A h \in Handlers :
          /\ Busy(h) => Items \subseteq DOMAIN job[h].seen
          /\ At(h, "warehouse") => job[h].call \in ReservationAction
    /\ \A x \in itemWrites : x.item \in DOMAIN items
    /\ itemWrites \subseteq
          [by : ItemHandlers, item : AllItems, from : ItemStatus, to : ItemStatus]
    /\ rewritten \subseteq AllItems
    /\ {received, itemsReceived, faults} \subseteq Nat

Consumed == {i \in Items : <<"fulfill", i>> \in applied}

AtRest == itemWrites = {} /\ \A h \in Handlers : ~Busy(h)

(***************************************************************************)
(* Stock leaves the warehouse for paid orders only: once an item is        *)
(* fulfilled, no later report, cancellation, failed save or crash leaves   *)
(* the order unpaid (applyPaymentStatus saves paid before it asks, and     *)
(* refuses every downgrade).                                               *)
(***************************************************************************)
StockConsumedOnlyIfPaid == Consumed # {} => row.payment = "paid"

(***************************************************************************)
(* Paid is final as long as requests on an order do not overlap: no later  *)
(* report, request, failed save or crash takes paid or the payment it was  *)
(* paid by away.  Two that overlap check the same old row, and the second  *)
(* save may well do so.                                                    *)
(***************************************************************************)
PaidIsFinal ==
    [][row.payment = "paid" =>
          /\ row'.payment = "paid"
          /\ row.ref # NoReference => row'.ref = row.ref]_vars

(***************************************************************************)
(* A cancelled order does not become paid, by whatever sequence of         *)
(* payment, status and warehouse reports it was cancelled.                 *)
(***************************************************************************)
CancelledNeverPaid ==
    [][row.status = "cancelled" /\ row.payment # "paid" => row'.payment # "paid"]_vars

\* A row's status comes from the table, or from the report the row carries.
StatusMove(from, to) ==
    \/ StatusStep(from.status, to.status)
    \/ /\ to.fulfillment # "none"
       /\ to.status = Projection[FulfillmentStage[to.fulfillment]]

(***************************************************************************)
(* The stored status moves along the transition table of updateStatus and  *)
(* confirmation by payment; only a warehouse report takes it elsewhere,    *)
(* and then to the projection of the reported stage.                       *)
(***************************************************************************)
StatusFollowsTable == [][StatusMove(row, row')]_vars

\* Cancelled by a person, with stock still recorded as held.
HoldsStock(order) ==
    /\ order.status = "cancelled"
    /\ order.fulfillment = "none"
    /\ order.handoff \in {"reserved", "fulfilled"}

(***************************************************************************)
(* Short of a fault, an order cancelled by a person does not rest with     *)
(* stock recorded as held for it: updateStatus asked the warehouse and     *)
(* recorded the answer, whatever came before and after.                    *)
(***************************************************************************)
CancelledHoldsNoStock ==
    AtRest /\ faults = 0 => ~HoldsStock(row)

(***************************************************************************)
(* Under any interleaving, the paid and cancelled events follow the        *)
(* warehouse call for the same change: a consumer that reacts to them      *)
(* finds the warehouse asked already.                                      *)
(***************************************************************************)
AnnouncedAfterWarehouse ==
    /\ published["paid"] > 0 => "fulfill" \in attempted
    /\ published["cancelled"] > 0 => "cancel" \in attempted

(***************************************************************************)
(* Under any interleaving and any partial failure, a fulfilment order      *)
(* reaches the warehouse only for stock it has consumed, item by item.     *)
(***************************************************************************)
DispatchedOnlyIfConsumed == dispatched > 0 => Consumed = Items

Truthful(order) ==
    \A a \in ReservationAction :
        order.handoff = HandoffOf[a] => {a} \X Items \subseteq applied

(***************************************************************************)
(* The outcome the row records for a warehouse action is one the warehouse *)
(* carried out for every item, even when a stale entity is written back.   *)
(***************************************************************************)
HandoffTruthful == Truthful(row)

(***************************************************************************)
(* A shipped order has no item that is not shipped, a delivered one none   *)
(* that is not delivered, although items are written by another service    *)
(* and status requests check a copy of them.  Excepted are the items the   *)
(* code lets slip: written by addItem, or by two overlapping requests.     *)
(* Warehouse reports set the status without asking the items.              *)
(***************************************************************************)
ShippedMeansItemsShipped ==
    LET kept == [i \in DOMAIN items \ rewritten |-> items[i]]
    IN  /\ row.status = "shipped" => AllShipped(kept)
        /\ row.status = "delivered" => AllDelivered(kept)

(***************************************************************************)
(* ORDER_STATUS_TRANSITIONS.md: an item moves one step forward at a time   *)
(* and never backwards.  The request checks the step from the status it    *)
(* read; only a save over a newer status, and addItem, break the rule.     *)
(***************************************************************************)
ItemsMoveForward ==
    [][\A i \in DOMAIN items \ rewritten' :
          \/ items'[i] = items[i]
          \/ <<items[i], items'[i]>> \in
                {<<"pending", "reserved">>, <<"reserved", "shipped">>,
                 <<"shipped", "delivered">>}]_vars

(***************************************************************************)
(* Why those three hold, whatever overlaps: an event that needs the        *)
(* warehouse is published by the handler that asked it, and an entity      *)
(* carries an outcome only once the warehouse has acted on every item.     *)
(***************************************************************************)
CallBacked(h) ==
    /\ "paid" \in job[h].todo => job[h].call = "fulfill"
    /\ "cancelled" \in job[h].todo => job[h].call = "cancel"
    /\ job[h].at \in {"save", "warehouse"} \/ job[h].call \in attempted \cup {"none"}

OverlapInvariant ==
    /\ \A h \in Handlers : Busy(h) => CallBacked(h) /\ Truthful(job[h].order)
    /\ Truthful(row)
    /\ AnnouncedAfterWarehouse
    /\ DispatchedOnlyIfConsumed

(***************************************************************************)
(* Why the serial properties hold: the one handler in flight either holds  *)
(* an entity made from the row as it is, or has saved it already, and it   *)
(* goes on to consume stock and announce a payment only if it is the one   *)
(* that recorded the order as paid.                                        *)
(***************************************************************************)
Saved(h) == job[h].at # "save"

EntityFollowsRow(h) ==
    LET order == job[h].order
    IN  IF Saved(h)
          THEN order.payment = row.payment /\ order.ref = row.ref
          ELSE /\ row.payment = "paid" =>
                     order.payment = "paid" /\ row.ref \in {NoReference, order.ref}
               /\ \/ order.ref \in References
                  \/ order.ref = row.ref /\ order.payment = row.payment
               /\ row.status = "cancelled" /\ row.payment # "paid" =>
                     order.payment # "paid"

FirstPaid(h) ==
    /\ "paid" \in job[h].todo => job[h].order.payment = "paid" /\ published["paid"] = 0
    /\ job[h].call = "fulfill" /\ job[h].at \in {"save", "warehouse"} =>
          job[h].order.payment = "paid" /\ published["paid"] = 0 /\ Consumed = {}

SerialInvariant ==
    /\ \A g, h \in Handlers : Busy(g) /\ Busy(h) => g = h
    /\ \A h \in Handlers : Busy(h) => EntityFollowsRow(h) /\ FirstPaid(h)
    /\ row.payment # "paid" => published["paid"] = 0 /\ Consumed = {}
    /\ published["paid"] <= 1

(***************************************************************************)
(* Why the status keeps to the table and a cancelled order lets its stock  *)
(* go: what is about to be saved is a lawful step from the row, what was   *)
(* saved has its status, and short of a fault an entity that still holds   *)
(* stock of a cancelled order is on its way to the call that gives it back *)
(***************************************************************************)
EntityIsLawful(h) ==
    LET order == job[h].order
    IN  IF Saved(h) THEN order.status = row.status ELSE StatusMove(row, order)

LetsStockGo(h) ==
    IF job[h].at \in {"save", "warehouse"}
      THEN /\ HoldsStock(job[h].order) => job[h].call \in {"cancel", "release"}
           /\ job[h].call = "fulfill" => job[h].order.status # "cancelled"
      ELSE /\ ~HoldsStock(job[h].order)
           /\ job[h].at \in {"lifecycle", "events"} => row = job[h].order

StatusInvariant ==
    /\ \A h \in Handlers : Busy(h) => EntityIsLawful(h)
    /\ faults = 0 =>
          /\ \A h \in Handlers : Busy(h) => LetsStockGo(h)
          /\ (\A h \in Handlers : ~Busy(h)) => ~HoldsStock(row)

(***************************************************************************)
(* Every accepted request is answered, or waits for the warehouse.         *)
(***************************************************************************)
HandlersSettle ==
    \A h \in Handlers : Busy(h) ~> (~Busy(h) \/ At(h, "warehouse") \/ At(h, "dispatch"))

\* The promise to Payments and Warehouse, kept when requests do not overlap.
Boundary == INSTANCE PaymentBoundary
              WITH paid <- row.payment = "paid", reference <- row.ref,
                   consumed <- Consumed, told <- published["paid"] > 0

BoundaryKept == Boundary!Spec

-----------------------------------------------------------------------------

(***************************************************************************)
(* What the documents say of the program and the code does not keep.       *)
(***************************************************************************)

\* Every change of the lifecycle stage is announced once its request is over.
StageChangesAnnounced == AtRest /\ faults = 0 => announced = DeriveStage(row, items)

\* A payment is announced as paid once.
PaidAnnouncedOnce == published["paid"] <= 1

\* Whatever reports it, a status moves along the transition table.
EveryReportFollowsTable == [][StatusStep(row.status, row'.status)]_vars

=============================================================================
