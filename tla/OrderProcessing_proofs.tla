------------------------ MODULE OrderProcessing_proofs ------------------------
(***************************************************************************)
(* Theorems about OrderProcessing and the items of its orders, for any     *)
(* number of handlers, items, payment references and requests, however     *)
(* they overlap, with TLAPS.                                               *)
(***************************************************************************)
EXTENDS OrderProcessing, TLAPS

-----------------------------------------------------------------------------

(***************************************************************************)
(* Types of the pure lifecycle functions.                                  *)
(***************************************************************************)

\* Every derived stage is one of the stages (deriveOrderLifecycleState).
LEMMA DeriveStageType ==
    ASSUME NEW order \in Row, NEW its \in ItemRows
    PROVE  DeriveStage(order, its) \in Stage
<1>1. order.fulfillment \in FulfillmentStatus =>
          FulfillmentStage[order.fulfillment] \in Stage
  BY DEF FulfillmentStage, FulfillmentStatus, Stage
<1>2. order.fulfillment \in FulfillmentStatus \cup {"none"}
  BY DEF Row
<1> QED
  BY <1>1, <1>2 DEF DeriveStage, Stage

\* Every stage projects to an order status (projectLifecycleStageToStatus).
LEMMA ProjectionType == \A s \in Stage : Projection[s] \in OrderStatus
BY DEF Projection, Stage, OrderStatus

-----------------------------------------------------------------------------

(***************************************************************************)
(* Type correctness.                                                       *)
(***************************************************************************)

\* A save of an item, and an item added or written over, leave item rows.
LEMMA ItemRowsWrite ==
    ASSUME NEW its \in ItemRows, NEW i, NEW status \in ItemStatus
    PROVE  /\ [its EXCEPT ![i] = status] \in ItemRows
           /\ DOMAIN [its EXCEPT ![i] = status] = DOMAIN its
<1>1. PICK ids \in SUBSET AllItems : its \in [ids -> ItemStatus]
  BY DEF ItemRows
<1>2. [its EXCEPT ![i] = status] \in [ids -> ItemStatus]
  BY <1>1
<1> QED
  BY <1>1, <1>2 DEF ItemRows

LEMMA ItemRowsAdd ==
    ASSUME NEW its \in ItemRows, NEW i \in AllItems, NEW status \in ItemStatus
    PROVE  [j \in DOMAIN its \cup {i} |-> IF j = i THEN status ELSE its[j]] \in ItemRows
<1>1. PICK ids \in SUBSET AllItems : its \in [ids -> ItemStatus]
  BY DEF ItemRows
<1>2. [j \in DOMAIN its \cup {i} |-> IF j = i THEN status ELSE its[j]]
          \in [ids \cup {i} -> ItemStatus]
  BY <1>1
<1> QED
  BY <1>1, <1>2 DEF ItemRows

JobsOK ==
    /\ job \in [Handlers -> Running \cup {NoJob}]
    /\ \A h \in Handlers :
          /\ Busy(h) => Items \subseteq DOMAIN job[h].seen
          /\ At(h, "warehouse") => job[h].call \in ReservationAction

\* A busy handler's record is Running; an idle one has no await.
LEMMA BusyIsRunning ==
    ASSUME TypeOK, NEW h \in Handlers, Busy(h)
    PROVE  job[h] \in Running
BY DEF TypeOK, Busy

\* Replacing the record of one handler keeps the others as they are.
LEMMA ReplaceJob ==
    ASSUME TypeOK, NEW h \in Handlers, NEW new \in Running,
           new.at = "warehouse" => new.call \in ReservationAction,
           Items \subseteq DOMAIN new.seen,
           job' = [job EXCEPT ![h] = new]
    PROVE  JobsOK'
<1>1. job' \in [Handlers -> Running \cup {NoJob}]
  BY DEF TypeOK
<1>2. ASSUME NEW g \in Handlers, At(g, "warehouse")'
      PROVE  job'[g].call \in ReservationAction
  BY <1>2 DEF TypeOK, At, Busy
<1>3. ASSUME NEW g \in Handlers, Busy(g)'
      PROVE  Items \subseteq DOMAIN job'[g].seen
  BY <1>3 DEF TypeOK, Busy
<1> QED
  BY <1>1, <1>2, <1>3 DEF JobsOK

\* An accepted request leaves the types as they are.
LEMMA BeginType ==
    ASSUME TypeOK, NEW h \in Handlers, NEW entity \in Row,
           NEW call \in ReservationAction \cup {"none"}, NEW coarse \in SUBSET EventKind,
           Begin(h, entity, call, coarse)
    PROVE  TypeOK'
<1> DEFINE new == [at |-> "save", order |-> entity, seen |-> items,
                   from |-> DeriveStage(row, items), call |-> call, todo |-> coarse]
<1>1. DeriveStage(row, items) \in Stage
  BY DeriveStageType DEF TypeOK
<1>2. new \in Running /\ new.at = "save" /\ Items \subseteq DOMAIN new.seen
  BY <1>1 DEF TypeOK, Running, Await
<1>3. job' = [job EXCEPT ![h] = new]
  BY DEF Begin
<1> HIDE DEF new
<1>4. JobsOK'
  BY <1>2, <1>3, ReplaceJob
<1>5. received' \in Nat
  BY DEF TypeOK, Begin
<1> QED
  BY <1>4, <1>5 DEF TypeOK, JobsOK, Begin, database, warehouse, events, itemWork

\* A handler may move to the warehouse only with a call to make.
LEMMA MoveToType ==
    ASSUME TypeOK, NEW h \in Handlers, Busy(h), NEW place \in Await, MoveTo(h, place),
           place = "warehouse" => job[h].call \in ReservationAction
    PROVE  JobsOK'
<1> DEFINE new == [job[h] EXCEPT !.at = place]
<1>1. job[h] \in Running
  BY BusyIsRunning
<1>2. new \in Running /\ new.at = place /\ new.call = job[h].call /\ new.seen = job[h].seen
  BY <1>1 DEF Running
<1>3. job' = [job EXCEPT ![h] = new]
  BY DEF MoveTo
<1>4. Items \subseteq DOMAIN job[h].seen
  BY DEF TypeOK
<1> HIDE DEF new
<1> QED
  BY <1>2, <1>3, <1>4, ReplaceJob

LEMMA FinishType ==
    ASSUME TypeOK, NEW h \in Handlers, Finish(h)
    PROVE  JobsOK'
<1>1. job' \in [Handlers -> Running \cup {NoJob}]
  BY DEF TypeOK, Finish
<1>2. ASSUME NEW g \in Handlers, At(g, "warehouse")'
      PROVE  job'[g].call \in ReservationAction
  BY <1>2 DEF TypeOK, At, Busy, Finish
<1>3. ASSUME NEW g \in Handlers, Busy(g)'
      PROVE  Items \subseteq DOMAIN job'[g].seen
  BY <1>3 DEF TypeOK, Busy, Finish
<1> QED
  BY <1>1, <1>2, <1>3 DEF JobsOK

(***************************************************************************)
(* What the three kinds of request put in flight: a legal entity with the  *)
(* row's handoff, that keeps a payment recorded as paid, pays no cancelled *)
(* order, and consumes or announces only what it pays first.               *)
(***************************************************************************)
Admissible(entity, call, coarse) ==
    /\ entity \in Row
    /\ call \in ReservationAction \cup {"none"}
    /\ coarse \in SUBSET EventKind
    /\ entity.handoff = row.handoff
    /\ "paid" \in coarse => call = "fulfill"
    /\ "cancelled" \in coarse => call = "cancel"
    /\ call = "fulfill" => row.payment # "paid" /\ entity.payment = "paid"
    /\ row.payment = "paid" => entity.payment = "paid" /\ row.ref \in {NoReference, entity.ref}
    /\ \/ entity.ref \in References
       \/ entity.ref = row.ref /\ entity.payment = row.payment
    /\ row.status = "cancelled" /\ row.payment # "paid" => entity.payment # "paid"

Request(h) == UpdateStatus(h) \/ ApplyPaymentStatus(h) \/ ApplyWarehouseFulfillmentStatus(h)

LEMMA RequestBegins ==
    ASSUME TypeOK, NEW h \in Handlers, Request(h)
    PROVE  \E entity, call, coarse : Admissible(entity, call, coarse) /\ Begin(h, entity, call, coarse)
<1>1. CASE UpdateStatus(h)
  <2>1. PICK to \in StatusRequests \ {row.status}, a \in Approvals :
            /\ OrderTransitionAccepted(row.status, to, items, a)
            /\ IF to = "cancelled"
                 THEN Begin(h, [row EXCEPT !.status = to, !.audit = a.key], "cancel",
                            {"updated", "cancelled"})
                 ELSE Begin(h, [row EXCEPT !.status = to], "none", {"updated"})
    BY <1>1 DEF UpdateStatus
  <2>2. to \in OrderStatus /\ row \in Row
    BY <2>1 DEF OrderTransitionAccepted, TypeOK
  <2>3. CASE to = "cancelled"
    <3> DEFINE entity == [row EXCEPT !.status = to, !.audit = a.key]
    <3>1. a.key \in IdempotencyKeys \cup {NoKey}
      BY <2>1, <2>3 DEF OrderTransitionAccepted, OrderTransitions, CancellationApproved
    <3>2. Admissible(entity, "cancel", {"updated", "cancelled"})
      BY <3>1, <2>2 DEF Admissible, Row, ReservationAction, EventKind
    <3> QED
      BY <3>2, <2>1, <2>3
  <2>4. CASE to # "cancelled"
    <3> DEFINE entity == [row EXCEPT !.status = to]
    <3>1. Admissible(entity, "none", {"updated"})
      BY <2>2 DEF Admissible, Row, EventKind
    <3> QED
      BY <3>1, <2>1, <2>4
  <2> QED
    BY <2>3, <2>4
<1>2. CASE ApplyPaymentStatus(h)
  <2> DEFINE entity(s, ref) ==
        [row EXCEPT !.payment = PaymentStatusOf[s], !.ref = ref,
                    !.status = IF PaymentStatusOf[s] = "paid" /\ row.status = "pending"
                                 THEN "confirmed" ELSE @]
  <2>1. PICK s \in PaymentRequests \cap DOMAIN PaymentStatusOf, ref \in References :
            /\ PaymentAccepted(PaymentStatusOf[s], ref)
            /\ Begin(h, entity(s, ref), ReservationCall(PaymentStatusOf[s]),
                     PaymentEvents(PaymentStatusOf[s]))
    BY <1>2 DEF ApplyPaymentStatus
  <2>2. PaymentStatusOf[s] \in PaymentStatus
    BY DEF PaymentStatusOf, PaymentStatus
  <2>3. /\ entity(s, ref) \in Row
        /\ entity(s, ref).handoff = row.handoff
        /\ entity(s, ref).payment = PaymentStatusOf[s]
        /\ entity(s, ref).ref = ref
    BY <2>2 DEF TypeOK, Row, OrderStatus
  <2>4. /\ ReservationCall(PaymentStatusOf[s]) \in ReservationAction \cup {"none"}
        /\ ReservationCall(PaymentStatusOf[s]) = "fulfill" =>
              row.payment # "paid" /\ PaymentStatusOf[s] = "paid"
    BY DEF ReservationCall, ReservationAction
  <2>5. /\ PaymentEvents(PaymentStatusOf[s]) \in SUBSET EventKind
        /\ "paid" \in PaymentEvents(PaymentStatusOf[s]) =>
              ReservationCall(PaymentStatusOf[s]) = "fulfill"
        /\ "cancelled" \notin PaymentEvents(PaymentStatusOf[s])
    BY DEF PaymentEvents, ReservationCall, EventKind
  <2> HIDE DEF entity
  <2>6. Admissible(entity(s, ref), ReservationCall(PaymentStatusOf[s]),
                   PaymentEvents(PaymentStatusOf[s]))
    BY <2>1, <2>3, <2>4, <2>5 DEF Admissible, PaymentAccepted
  <2> QED
    BY <2>1, <2>6
<1>3. CASE ApplyWarehouseFulfillmentStatus(h)
  <2> DEFINE reported(r) == [row EXCEPT !.fulfillment = r]
             entity(r) == [reported(r) EXCEPT
                              !.status = Projection[DeriveStage(reported(r), items)]]
  <2>1. PICK r \in FulfillmentReports : Begin(h, entity(r), "none", {})
    BY <1>3 DEF ApplyWarehouseFulfillmentStatus
  <2>2. /\ reported(r) \in Row
        /\ reported(r).handoff = row.handoff
        /\ reported(r).payment = row.payment
        /\ reported(r).ref = row.ref
    BY ProcessingAssumption DEF TypeOK, Row
  <2>3. Projection[DeriveStage(reported(r), items)] \in OrderStatus
    BY <2>2, DeriveStageType, ProjectionType DEF TypeOK
  <2> HIDE DEF reported
  <2>4. Admissible(entity(r), "none", {})
    BY <2>2, <2>3 DEF Admissible, Row
  <2> QED
    BY <2>1, <2>4
<1> QED
  BY <1>1, <1>2, <1>3 DEF Request

\* An accepted request leaves the types as they are.
LEMMA RequestType ==
    ASSUME TypeOK, NEW h \in Handlers, Request(h)
    PROVE  TypeOK'
BY RequestBegins, BeginType DEF Admissible

\* Every step of a handler in flight keeps the types.
LEMMA ContinueType ==
    ASSUME TypeOK, NEW h \in Handlers, Continue(h)
    PROVE  TypeOK'
<1> USE DEF database, warehouse, events, itemWork, counters
<1>1. CASE Save(h)
  <2>1. job[h] \in Running
    BY <1>1, BusyIsRunning DEF Save, At
  <2>2. row' \in Row
    BY <1>1, <2>1 DEF Save, Running
  <2>3. JobsOK'
    BY <1>1, <2>1, MoveToType DEF Save, At, Await, Running
  <2> QED
    BY <1>1, <2>2, <2>3 DEF Save, TypeOK, JobsOK
<1>2. CASE CallWarehouse(h)
  <2>1. PICK outcome \in {HandoffOf[job[h].call], "failed", "skipped"},
             acted \in SUBSET DOMAIN job[h].seen :
            /\ applied' = applied \cup ({job[h].call} \X acted)
            /\ job' = [job EXCEPT
                          ![h].order = [@ EXCEPT !.handoff = outcome, !.fulfillment = "none"],
                          ![h].at = IF job[h].call = "fulfill" THEN "dispatch"
                                    ELSE "saveHandoff"]
    BY <1>2 DEF CallWarehouse
  <2>2. job[h] \in Running /\ job[h].call \in ReservationAction
    BY <1>2, BusyIsRunning DEF CallWarehouse, At, TypeOK
  <2>3. outcome \in HandoffStatus
    BY <2>2 DEF HandoffOf, HandoffStatus, ReservationAction
  <2> DEFINE answered == [job[h].order EXCEPT !.handoff = outcome, !.fulfillment = "none"]
             new == [job[h] EXCEPT !.order = answered,
                                   !.at = IF job[h].call = "fulfill" THEN "dispatch"
                                          ELSE "saveHandoff"]
  <2>4. answered \in Row
    BY <2>2, <2>3 DEF Running, Row
  <2>5. job' = [job EXCEPT ![h] = new]
    BY <2>1 DEF TypeOK
  <2> HIDE DEF answered
  <2>6. new \in Running /\ new.at # "warehouse" /\ new.seen = job[h].seen
    BY <2>2, <2>4 DEF Running, Await
  <2> HIDE DEF new
  <2>7. JobsOK'
    BY <1>2, <2>5, <2>6, ReplaceJob DEF CallWarehouse, At, TypeOK
  <2>9. acted \subseteq AllItems
    BY <2>1, <2>2 DEF Running, ItemRows
  <2>8. applied' \subseteq ReservationAction \X AllItems /\ attempted' \subseteq ReservationAction
    BY <1>2, <2>1, <2>2, <2>9 DEF CallWarehouse, TypeOK
  <2> QED
    BY <1>2, <2>7, <2>8 DEF CallWarehouse, TypeOK, JobsOK
<1>3. CASE Dispatch(h)
  <2>1. JobsOK'
    BY <1>3, MoveToType DEF Dispatch, At, Await
  <2> QED
    BY <1>3, <2>1 DEF Dispatch, TypeOK, JobsOK
<1>4. CASE SaveHandoff(h)
  <2>1. row' \in Row
    BY <1>4, BusyIsRunning DEF SaveHandoff, At, Running
  <2>2. JobsOK'
    BY <1>4, MoveToType DEF SaveHandoff, At, Await
  <2> QED
    BY <1>4, <2>1, <2>2 DEF SaveHandoff, TypeOK, JobsOK
<1>5. CASE AnnounceStage(h)
  <2>1. StageOf(h) \in Stage
    BY <1>5, BusyIsRunning, DeriveStageType DEF AnnounceStage, At, Running, StageOf
  <2>2. JobsOK'
    BY <1>5, MoveToType, FinishType DEF AnnounceStage, At, Await
  <2>3. published' \in [EventKind -> Nat] /\ announced' \in Stage
    BY <1>5, <2>1 DEF AnnounceStage, TypeOK, EventKind
  <2> QED
    BY <1>5, <2>2, <2>3 DEF AnnounceStage, TypeOK, JobsOK
<1>6. CASE RefuseStage(h)
  BY <1>6, FinishType DEF RefuseStage, TypeOK, JobsOK
<1>7. CASE PublishCoarse(h)
  <2>1. job[h] \in Running
    BY <1>7, BusyIsRunning DEF PublishCoarse, At
  <2>2. PICK k \in job[h].todo :
            /\ published' = [published EXCEPT ![k] = @ + 1]
            /\ IF job[h].todo = {k} THEN Finish(h)
               ELSE job' = [job EXCEPT ![h].todo = @ \ {k}]
    BY <1>7 DEF PublishCoarse
  <2> DEFINE new == [job[h] EXCEPT !.todo = @ \ {k}]
  <2>3. new \in Running /\ new.at = "events" /\ Items \subseteq DOMAIN new.seen
    BY <1>7, <2>1 DEF Running, PublishCoarse, At, TypeOK
  <2>4. job[h].todo # {k} => job' = [job EXCEPT ![h] = new]
    BY <2>2 DEF TypeOK
  <2> HIDE DEF new
  <2>5. JobsOK'
    BY <2>2, <2>3, <2>4, FinishType, ReplaceJob
  <2>6. published' \in [EventKind -> Nat]
    BY <2>1, <2>2 DEF TypeOK, Running
  <2> QED
    BY <1>7, <2>5, <2>6 DEF PublishCoarse, TypeOK, JobsOK
<1> QED
  BY <1>1, <1>2, <1>3, <1>4, <1>5, <1>6, <1>7 DEF Continue

\* Every step keeps the types.
LEMMA NextType == TypeOK /\ [Next]_vars => TypeOK'
<1> SUFFICES ASSUME TypeOK, [Next]_vars
             PROVE  TypeOK'
  OBVIOUS
<1> USE DEF database, warehouse, events, itemWork, counters
<1>1. ASSUME NEW h \in Handlers, Request(h)
      PROVE  TypeOK'
  BY <1>1, RequestType
<1>2. ASSUME NEW h \in Handlers, Continue(h)
      PROVE  TypeOK'
  BY <1>2, ContinueType
<1>3. ASSUME NEW h \in Handlers, SaveFails(h)
      PROVE  TypeOK'
  BY <1>3, FinishType DEF SaveFails, TypeOK, JobsOK
<1>4. ASSUME NEW w \in ItemHandlers, ReadItem(w)
      PROVE  TypeOK'
  <2>1. PICK i \in DOMAIN items, to \in RequestableItemStatus :
            /\ ItemTransitionAccepted(items[i], to)
            /\ itemWrites' = itemWrites \cup
                               {[by |-> w, item |-> i, from |-> items[i], to |-> to]}
    BY <1>4 DEF ReadItem
  <2>2. i \in AllItems /\ items[i] \in ItemStatus
    BY DEF TypeOK, ItemRows
  <2>3. itemWrites' \subseteq
            [by : ItemHandlers, item : AllItems, from : ItemStatus, to : ItemStatus]
    BY <2>1, <2>2 DEF TypeOK, ItemTransitionAccepted
  <2>4. \A x \in itemWrites' : x.item \in DOMAIN items
    BY <2>1 DEF TypeOK
  <2>5. itemsReceived' \in Nat
    BY <1>4 DEF ReadItem, TypeOK
  <2> QED
    BY <1>4, <2>3, <2>4, <2>5 DEF ReadItem, TypeOK, At, Busy
<1>5. ASSUME NEW w \in ItemHandlers, SaveItem(w)
      PROVE  TypeOK'
  <2>1. PICK x \in itemWrites :
            /\ items' = [items EXCEPT ![x.item] = x.to]
            /\ rewritten' = IF items[x.item] = x.from THEN rewritten
                            ELSE rewritten \cup {x.item}
            /\ itemWrites' = itemWrites \ {x}
    BY <1>5 DEF SaveItem
  <2>2. x.to \in ItemStatus /\ x.item \in AllItems
    BY DEF TypeOK
  <2>3. items' \in ItemRows /\ DOMAIN items' = DOMAIN items
    BY <2>1, <2>2, ItemRowsWrite DEF TypeOK
  <2> QED
    BY <1>5, <2>1, <2>2, <2>3 DEF SaveItem, TypeOK, At, Busy
<1>8. CASE \E status \in AddedStatus : AddItem(status)
  <2>1. PICK i \in AllItems, status \in AddedStatus :
            /\ items' = [j \in DOMAIN items \cup {i} |-> IF j = i THEN status ELSE items[j]]
            /\ rewritten' = rewritten \cup {i}
    BY <1>8 DEF AddItem
  <2>2. items' \in ItemRows /\ DOMAIN items \subseteq DOMAIN items'
    BY <2>1, ItemRowsAdd, ProcessingAssumption DEF TypeOK
  <2>3. itemsReceived' \in Nat
    BY <1>8 DEF AddItem, TypeOK
  <2> QED
    BY <1>8, <2>1, <2>2, <2>3 DEF AddItem, TypeOK, At, Busy
<1>6. CASE Crash
  <2>1. job' \in [Handlers -> Running \cup {NoJob}]
    BY <1>6 DEF Crash
  <2>2. \A h \in Handlers : ~Busy(h)'
    BY <1>6 DEF Crash, Busy
  <2>3. faults' \in Nat
    BY <1>6 DEF Crash, TypeOK
  <2> QED
    BY <1>6, <2>1, <2>2, <2>3 DEF Crash, TypeOK, At
<1>7. CASE UNCHANGED vars
  BY <1>7 DEF vars, TypeOK, At, Busy
<1> QED
  BY <1>1, <1>2, <1>3, <1>4, <1>5, <1>6, <1>7, <1>8 DEF Next, Request

LEMMA InitType == Init => TypeOK
<1> SUFFICES ASSUME Init
             PROVE  TypeOK
  OBVIOUS
<1>1. row \in Row /\ items \in ItemRows /\ DOMAIN items = Items
  BY ProcessingAssumption
    DEF Init, Row, OrderStatus, HandoffStatus, ItemStatus, ItemRows, AllItems
<1>2. announced \in Stage
  BY <1>1, DeriveStageType DEF Init
<1> QED
  BY <1>1, <1>2 DEF Init, TypeOK, At, Busy

(***************************************************************************)
(* The row, the entities in flight and the warehouse calls are well typed  *)
(* for every number of requests, however they interleave and fail.         *)
(***************************************************************************)
THEOREM TypeCorrect == Spec => []TypeOK
BY InitType, NextType, PTL DEF Spec

-----------------------------------------------------------------------------

(***************************************************************************)
(* What holds however the requests on an order overlap.                    *)
(***************************************************************************)

Backed(h) == CallBacked(h) /\ Truthful(job[h].order)

\* A handler whose record and warehouse are left alone stays as it was.
LEMMA BackedStays ==
    ASSUME NEW h \in Handlers, job'[h] = job[h],
           attempted \subseteq attempted', applied \subseteq applied',
           Busy(h) => Backed(h)
    PROVE  (Busy(h) => Backed(h))'
BY DEF Busy, Backed, CallBacked, Truthful

\* A new request starts with an entity that keeps the row's handoff.
LEMMA BeginBacked ==
    ASSUME TypeOK, OverlapInvariant, NEW h \in Handlers, NEW entity, NEW call, NEW coarse,
           Admissible(entity, call, coarse), Begin(h, entity, call, coarse)
    PROVE  OverlapInvariant'
<1>1. job'[h] = [at |-> "save", order |-> entity, seen |-> items,
                 from |-> DeriveStage(row, items), call |-> call, todo |-> coarse]
  BY DEF Begin, TypeOK
<1>2. \A g \in Handlers \ {h} : job'[g] = job[g]
  BY DEF Begin, TypeOK
<1>3. UNCHANGED <<row, attempted, applied, dispatched, published>>
  BY DEF Begin, database, warehouse, events
<1>4. Backed(h)'
  BY <1>1, <1>3 DEF Admissible, Backed, CallBacked, Truthful, OverlapInvariant
<1>5. \A g \in Handlers : (Busy(g) => Backed(g))'
  BY <1>2, <1>3, <1>4, BackedStays DEF OverlapInvariant, Backed
<1> QED
  BY <1>3, <1>5 DEF OverlapInvariant, Backed, Truthful, AnnouncedAfterWarehouse,
                    DispatchedOnlyIfConsumed, Consumed

\* Ending requests, and steps that only touch items or counters.
LEMMA EndBacked ==
    ASSUME OverlapInvariant,
           \A g \in Handlers : job'[g] \in {job[g], NoJob},
           UNCHANGED <<row, attempted, applied, dispatched, published>>
    PROVE  OverlapInvariant'
<1>1. \A g \in Handlers : (Busy(g) => Backed(g))'
  BY DEF OverlapInvariant, Busy, Backed, CallBacked, Truthful
<1> QED
  BY <1>1 DEF OverlapInvariant, Backed, Truthful, AnnouncedAfterWarehouse,
              DispatchedOnlyIfConsumed, Consumed

LEMMA OverlapNext == TypeOK /\ OverlapInvariant /\ [Next]_vars => OverlapInvariant'
<1> SUFFICES ASSUME TypeOK, OverlapInvariant, [Next]_vars
             PROVE  OverlapInvariant'
  OBVIOUS
<1> USE DEF database, warehouse, events, itemWork, counters
<1>1. ASSUME NEW h \in Handlers, Request(h)
      PROVE  OverlapInvariant'
  BY <1>1, RequestBegins, BeginBacked
<1>2. ASSUME NEW h \in Handlers, Save(h)
      PROVE  OverlapInvariant'
  <2>1. job[h] \in Running /\ Backed(h)
    BY <1>2, BusyIsRunning DEF Save, At, OverlapInvariant, Backed
  <2>2. Truthful(row)'
    BY <1>2, <2>1 DEF Save, Backed, Truthful
  <2>3. Backed(h)'
    BY <1>2, <2>1 DEF Save, MoveTo, TypeOK, At, Running, Backed, CallBacked, Truthful
  <2>4. \A g \in Handlers : (Busy(g) => Backed(g))'
    BY <1>2, <2>3, BackedStays DEF Save, MoveTo, TypeOK, OverlapInvariant, Backed
  <2> QED
    BY <1>2, <2>2, <2>4 DEF Save, OverlapInvariant, Backed, AnnouncedAfterWarehouse,
                            DispatchedOnlyIfConsumed, Consumed
<1>3. ASSUME NEW h \in Handlers, CallWarehouse(h)
      PROVE  OverlapInvariant'
  <2>1. PICK outcome \in {HandoffOf[job[h].call], "failed", "skipped"},
             acted \in SUBSET DOMAIN job[h].seen :
            /\ outcome = HandoffOf[job[h].call] => acted = DOMAIN job[h].seen
            /\ applied' = applied \cup ({job[h].call} \X acted)
            /\ job' = [job EXCEPT
                          ![h].order = [@ EXCEPT !.handoff = outcome, !.fulfillment = "none"],
                          ![h].at = IF job[h].call = "fulfill" THEN "dispatch"
                                    ELSE "saveHandoff"]
    BY <1>3 DEF CallWarehouse
  <2>2. job[h] \in Running /\ job[h].call \in ReservationAction /\ Backed(h)
    BY <1>3, BusyIsRunning DEF CallWarehouse, At, TypeOK, OverlapInvariant, Backed
  <2>3. /\ attempted' = attempted \cup {job[h].call}
        /\ UNCHANGED <<row, dispatched, published>>
    BY <1>3 DEF CallWarehouse
  <2>4. /\ job'[h].order.handoff = outcome
        /\ job'[h].call = job[h].call
        /\ job'[h].todo = job[h].todo
    BY <2>1, <2>2 DEF TypeOK, Running, Row
  <2>5. \A a \in ReservationAction : outcome = HandoffOf[a] => a = job[h].call
    BY <2>1, <2>2 DEF HandoffOf, ReservationAction
  <2>10. Items \subseteq DOMAIN job[h].seen
    BY <1>3 DEF CallWarehouse, At, TypeOK
  <2>6. Truthful(job[h].order)'
    BY <2>1, <2>4, <2>5, <2>10 DEF Truthful
  <2>7. Backed(h)'
    BY <2>2, <2>3, <2>4, <2>6 DEF Backed, CallBacked
  <2>8. \A g \in Handlers : (Busy(g) => Backed(g))'
    BY <2>1, <2>3, <2>7, BackedStays DEF TypeOK, OverlapInvariant, Backed
  <2>9. Consumed \subseteq Consumed' /\ Consumed' \subseteq Items
    BY <2>1 DEF Consumed
  <2> QED
    BY <2>1, <2>3, <2>8, <2>9 DEF OverlapInvariant, Backed, Truthful,
          AnnouncedAfterWarehouse, DispatchedOnlyIfConsumed, Consumed
<1>4. ASSUME NEW h \in Handlers, Dispatch(h)
      PROVE  OverlapInvariant'
  <2>1. job[h] \in Running /\ Backed(h)
    BY <1>4, BusyIsRunning DEF Dispatch, At, OverlapInvariant, Backed
  <2>2. Backed(h)'
    BY <1>4, <2>1 DEF Dispatch, MoveTo, TypeOK, At, Running, Backed, CallBacked, Truthful
  <2>3. \A g \in Handlers : (Busy(g) => Backed(g))'
    BY <1>4, <2>2, BackedStays DEF Dispatch, MoveTo, TypeOK, OverlapInvariant, Backed
  <2>4. DispatchedOnlyIfConsumed'
    <3>1. CASE job[h].order.handoff = "fulfilled"
      <4>1. {"fulfill"} \X Items \subseteq applied
        BY <2>1, <3>1 DEF Backed, Truthful, HandoffOf, ReservationAction
      <4>2. Consumed' = Items
        BY <1>4, <4>1 DEF Dispatch, Consumed
      <4> QED
        BY <4>2 DEF DispatchedOnlyIfConsumed
    <3>2. CASE job[h].order.handoff # "fulfilled"
      BY <1>4, <3>2 DEF Dispatch, OverlapInvariant, DispatchedOnlyIfConsumed, Consumed
    <3> QED
      BY <3>1, <3>2
  <2> QED
    BY <1>4, <2>3, <2>4 DEF Dispatch, OverlapInvariant, Backed, Truthful,
                            AnnouncedAfterWarehouse
<1>5. ASSUME NEW h \in Handlers, SaveHandoff(h)
      PROVE  OverlapInvariant'
  <2>1. job[h] \in Running /\ Backed(h)
    BY <1>5, BusyIsRunning DEF SaveHandoff, At, OverlapInvariant, Backed
  <2>2. Truthful(row)'
    BY <1>5, <2>1 DEF SaveHandoff, Backed, Truthful
  <2>3. Backed(h)'
    BY <1>5, <2>1 DEF SaveHandoff, MoveTo, TypeOK, At, Running, Backed, CallBacked, Truthful
  <2>4. \A g \in Handlers : (Busy(g) => Backed(g))'
    BY <1>5, <2>3, BackedStays DEF SaveHandoff, MoveTo, TypeOK, OverlapInvariant, Backed
  <2> QED
    BY <1>5, <2>2, <2>4 DEF SaveHandoff, OverlapInvariant, Backed, AnnouncedAfterWarehouse,
                            DispatchedOnlyIfConsumed, Consumed
<1>6. ASSUME NEW h \in Handlers, AnnounceStage(h)
      PROVE  OverlapInvariant'
  <2>1. job[h] \in Running /\ Backed(h)
    BY <1>6, BusyIsRunning DEF AnnounceStage, At, OverlapInvariant, Backed
  <2>2. (Busy(h) => Backed(h))'
    BY <1>6, <2>1 DEF AnnounceStage, MoveTo, Finish, TypeOK, At, Busy, Running, Backed,
                      CallBacked, Truthful
  <2>3. \A g \in Handlers : (Busy(g) => Backed(g))'
    BY <1>6, <2>2, BackedStays DEF AnnounceStage, MoveTo, Finish, TypeOK, OverlapInvariant,
                                   Backed
  <2>4. published'["paid"] = published["paid"] /\ published'["cancelled"] = published["cancelled"]
    BY <1>6 DEF AnnounceStage, TypeOK, EventKind
  <2> QED
    BY <1>6, <2>3, <2>4 DEF AnnounceStage, OverlapInvariant, Backed, Truthful,
          AnnouncedAfterWarehouse, DispatchedOnlyIfConsumed, Consumed
<1>7. ASSUME NEW h \in Handlers, RefuseStage(h)
      PROVE  OverlapInvariant'
  BY <1>7, EndBacked DEF RefuseStage, Finish, TypeOK
<1>8. ASSUME NEW h \in Handlers, PublishCoarse(h)
       PROVE  OverlapInvariant'
  <2>1. job[h] \in Running /\ Backed(h) /\ job[h].at = "events"
    BY <1>8, BusyIsRunning DEF PublishCoarse, At, OverlapInvariant, Backed
  <2>2. PICK k \in job[h].todo :
            /\ published' = [published EXCEPT ![k] = @ + 1]
            /\ IF job[h].todo = {k} THEN Finish(h)
               ELSE job' = [job EXCEPT ![h].todo = @ \ {k}]
    BY <1>8 DEF PublishCoarse
  <2>3. UNCHANGED <<row, attempted, applied, dispatched>>
    BY <1>8 DEF PublishCoarse
  <2>4. (Busy(h) => Backed(h))'
    BY <2>1, <2>2, <2>3 DEF Finish, TypeOK, Busy, Running, Backed, CallBacked, Truthful
  <2>5. \A g \in Handlers : (Busy(g) => Backed(g))'
    BY <2>2, <2>3, <2>4, BackedStays DEF Finish, TypeOK, OverlapInvariant, Backed
  <2>6. AnnouncedAfterWarehouse'
    BY <2>1, <2>2, <2>3 DEF AnnouncedAfterWarehouse, OverlapInvariant, Backed, CallBacked,
                            TypeOK, Running
  <2> QED
    BY <2>3, <2>5, <2>6 DEF OverlapInvariant, Backed, Truthful, DispatchedOnlyIfConsumed,
                            Consumed
<1>9. ASSUME NEW h \in Handlers, SaveFails(h)
       PROVE  OverlapInvariant'
  BY <1>9, EndBacked DEF SaveFails, Finish, TypeOK
<1>10. ASSUME NEW w \in ItemHandlers, ReadItem(w) \/ SaveItem(w)
       PROVE  OverlapInvariant'
  BY <1>10, EndBacked DEF ReadItem, SaveItem
<1>11. CASE Crash
  BY <1>11, EndBacked DEF Crash
<1>12. CASE UNCHANGED vars
  BY <1>12, EndBacked DEF vars
<1>13. CASE \E status \in AddedStatus : AddItem(status)
  BY <1>13, EndBacked DEF AddItem
<1> QED
  BY <1>1, <1>2, <1>3, <1>4, <1>5, <1>6, <1>7, <1>8, <1>9, <1>10, <1>11, <1>12, <1>13
     DEF Next, Continue, Request

LEMMA OverlapInit == Init => OverlapInvariant
BY DEF Init, OverlapInvariant, Busy, Truthful, HandoffOf, ReservationAction,
       AnnouncedAfterWarehouse, DispatchedOnlyIfConsumed, EventKind

LEMMA OverlapHolds == Spec => []OverlapInvariant
<1>1. TypeOK /\ OverlapInvariant /\ [Next]_vars => OverlapInvariant'
  BY OverlapNext
<1> QED
  BY <1>1, OverlapInit, TypeCorrect, PTL DEF Spec

(***************************************************************************)
(* However the requests overlap, a paid or cancelled event is published    *)
(* only after the warehouse was asked to act on that change.               *)
(***************************************************************************)
THEOREM EventsFollowWarehouse == Spec => []AnnouncedAfterWarehouse
<1>1. OverlapInvariant => AnnouncedAfterWarehouse
  BY DEF OverlapInvariant
<1> QED
  BY <1>1, OverlapHolds, PTL

(***************************************************************************)
(* However the requests overlap and the warehouse fails, a fulfilment      *)
(* order is dispatched only when every item's stock was consumed.          *)
(***************************************************************************)
THEOREM DispatchSafe == Spec => []DispatchedOnlyIfConsumed
<1>1. OverlapInvariant => DispatchedOnlyIfConsumed
  BY DEF OverlapInvariant
<1> QED
  BY <1>1, OverlapHolds, PTL

(***************************************************************************)
(* However stale the entity a handler writes back, the recorded outcome of *)
(* a warehouse action is one the warehouse carried out for every item.     *)
(***************************************************************************)
THEOREM HandoffSafe == Spec => []HandoffTruthful
<1>1. OverlapInvariant => HandoffTruthful
  BY DEF OverlapInvariant, HandoffTruthful
<1> QED
  BY <1>1, OverlapHolds, PTL


-----------------------------------------------------------------------------

(***************************************************************************)
(* Items move forward: the step a request saves was allowed from the       *)
(* status it read, and the item is written off when that was not the       *)
(* status any more.                                                        *)
(***************************************************************************)
WritesAccepted == \A x \in itemWrites : ItemTransitionAccepted(x.from, x.to)

LEMMA WritesNext == TypeOK /\ WritesAccepted /\ [Next]_vars => WritesAccepted'
<1> SUFFICES ASSUME TypeOK, WritesAccepted, [Next]_vars
             PROVE  WritesAccepted'
  OBVIOUS
<1> USE DEF database, warehouse, events, itemWork, counters, WritesAccepted
<1>1. ASSUME NEW h \in Handlers, Request(h)
      PROVE  UNCHANGED itemWrites
  BY <1>1, RequestBegins DEF Begin
<1>2. ASSUME NEW h \in Handlers, Continue(h) \/ SaveFails(h)
      PROVE  UNCHANGED itemWrites
  BY <1>2 DEF Continue, Save, CallWarehouse, Dispatch, SaveHandoff, AnnounceStage,
              RefuseStage, PublishCoarse, SaveFails
<1>3. ASSUME NEW w \in ItemHandlers, ReadItem(w)
      PROVE  WritesAccepted'
  BY <1>3 DEF ReadItem
<1>4. ASSUME NEW w \in ItemHandlers, SaveItem(w)
      PROVE  WritesAccepted'
  BY <1>4 DEF SaveItem
<1>5. CASE (\E status \in AddedStatus : AddItem(status)) \/ Crash \/ UNCHANGED vars
  BY <1>5 DEF AddItem, Crash, vars
<1> QED
  BY <1>1, <1>2, <1>3, <1>4, <1>5 DEF Next, Request

LEMMA WritesHold == Spec => []WritesAccepted
<1>1. Init => WritesAccepted
  BY DEF Init, WritesAccepted
<1> QED
  BY <1>1, WritesNext, TypeCorrect, PTL DEF Spec

ForwardOnly ==
    \A i \in DOMAIN items \ rewritten' :
        \/ items'[i] = items[i]
        \/ <<items[i], items'[i]>> \in
              {<<"pending", "reserved">>, <<"reserved", "shipped">>, <<"shipped", "delivered">>}

\* What a step does to the items: one saved step, one item written over, or nothing.
LEMMA ItemStep ==
    ASSUME TypeOK, WritesAccepted, [Next]_vars
    PROVE  /\ ForwardOnly
           /\ rewritten \subseteq rewritten'
           /\ DOMAIN items \subseteq DOMAIN items'
           /\ DOMAIN items' \ rewritten' \subseteq DOMAIN items
<1> USE DEF database, warehouse, events, itemWork, counters, ForwardOnly
<1>1. ASSUME NEW h \in Handlers, Request(h)
      PROVE  UNCHANGED <<items, rewritten>>
  BY <1>1, RequestBegins DEF Begin
<1>2. ASSUME NEW h \in Handlers, Continue(h) \/ SaveFails(h)
      PROVE  UNCHANGED <<items, rewritten>>
  BY <1>2 DEF Continue, Save, CallWarehouse, Dispatch, SaveHandoff, AnnounceStage,
              RefuseStage, PublishCoarse, SaveFails
<1>3. ASSUME NEW w \in ItemHandlers, SaveItem(w)
      PROVE  /\ ForwardOnly
             /\ rewritten \subseteq rewritten'
             /\ DOMAIN items' = DOMAIN items
  <2>1. PICK x \in itemWrites :
            /\ items' = [items EXCEPT ![x.item] = x.to]
            /\ rewritten' = IF items[x.item] = x.from THEN rewritten
                            ELSE rewritten \cup {x.item}
    BY <1>3 DEF SaveItem
  <2>2. ItemTransitionAccepted(x.from, x.to)
    BY DEF WritesAccepted
  <2> QED
    BY <2>1, <2>2 DEF ItemTransitionAccepted, ItemTransitions
<1>4. CASE \E status \in AddedStatus : AddItem(status)
  BY <1>4 DEF AddItem
<1>5. ASSUME NEW w \in ItemHandlers, ReadItem(w)
      PROVE  UNCHANGED <<items, rewritten>>
  BY <1>5 DEF ReadItem
<1>6. CASE Crash \/ UNCHANGED vars
  BY <1>6 DEF Crash, vars
<1> QED
  BY <1>1, <1>2, <1>3, <1>4, <1>5, <1>6 DEF Next, Request

(***************************************************************************)
(* However item requests overlap, an item moves one step forward at a time *)
(* unless addItem or a save over a newer status wrote it.                  *)
(***************************************************************************)
THEOREM ItemsGoForward == Spec => ItemsMoveForward
<1>1. TypeOK /\ WritesAccepted /\ [Next]_vars => [ForwardOnly]_vars
  BY ItemStep
<1>2. ASSUME [ForwardOnly]_vars
      PROVE  [\A i \in DOMAIN items \ rewritten' :
          \/ items'[i] = items[i]
          \/ <<items[i], items'[i]>> \in
                {<<"pending", "reserved">>, <<"reserved", "shipped">>,
                 <<"shipped", "delivered">>}]_vars
  BY <1>2 DEF ForwardOnly
<1> QED
  BY <1>1, <1>2, TypeCorrect, WritesHold, PTL DEF Spec, ItemsMoveForward

-----------------------------------------------------------------------------

(***************************************************************************)
(* A shipped order keeps its items shipped: every status a handler is      *)
(* about to write was checked against items that have only moved forward.  *)
(***************************************************************************)
Fits(status) ==
    /\ status = "shipped" =>
          \A i \in DOMAIN items \ rewritten : items[i] \in {"shipped", "delivered"}
    /\ status = "delivered" =>
          \A i \in DOMAIN items \ rewritten : items[i] = "delivered"

StatusesFit ==
    /\ Fits(row.status)
    /\ \A h \in Handlers : Busy(h) => Fits(job[h].order.status)

\* A status that fits goes on to fit.
LEMMA FitsStays ==
    ASSUME TypeOK, WritesAccepted, [Next]_vars, NEW status, Fits(status)
    PROVE  Fits(status)'
BY ItemStep DEF Fits, ForwardOnly

\* A request decides on a status that fits the items it has read.
LEMMA RequestFits ==
    ASSUME FulfillmentReports = {}, TypeOK, StatusesFit, NEW h \in Handlers, Request(h)
    PROVE  \E entity, call, coarse : Begin(h, entity, call, coarse) /\ Fits(entity.status)
<1>1. CASE UpdateStatus(h)
  <2>1. PICK to \in StatusRequests \ {row.status}, a \in Approvals :
            /\ OrderTransitionAccepted(row.status, to, items, a)
            /\ IF to = "cancelled"
                 THEN Begin(h, [row EXCEPT !.status = to, !.audit = a.key], "cancel",
                            {"updated", "cancelled"})
                 ELSE Begin(h, [row EXCEPT !.status = to], "none", {"updated"})
    BY <1>1 DEF UpdateStatus
  <2>2. Fits(to)
    BY <2>1 DEF OrderTransitionAccepted, AllShipped, AllDelivered, Fits
  <2>3. /\ [row EXCEPT !.status = to].status = to
        /\ [row EXCEPT !.status = to, !.audit = a.key].status = to
    BY DEF TypeOK, Row
  <2> QED
    BY <2>1, <2>2, <2>3
<1>2. CASE ApplyPaymentStatus(h)
  <2>1. PICK payment, ref, confirm, call, coarse :
            Begin(h, [row EXCEPT !.payment = payment, !.ref = ref,
                                 !.status = IF confirm THEN "confirmed" ELSE @], call, coarse)
    BY <1>2 DEF ApplyPaymentStatus
  <2> DEFINE entity == [row EXCEPT !.payment = payment, !.ref = ref,
                                   !.status = IF confirm THEN "confirmed" ELSE @]
  <2>2. entity.status \in {"confirmed", row.status}
    BY DEF TypeOK, Row
  <2>3. Fits(entity.status)
    BY <2>2 DEF Fits, StatusesFit
  <2> QED
    BY <2>1, <2>3
<1>3. CASE ApplyWarehouseFulfillmentStatus(h)
  BY <1>3 DEF ApplyWarehouseFulfillmentStatus
<1> QED
  BY <1>1, <1>2, <1>3 DEF Request

\* Every other step keeps the statuses handlers carry, and saves one of them at most.
StatusesKept ==
    /\ \/ row'.status = row.status
       \/ \E h \in Handlers : Busy(h) /\ row'.status = job[h].order.status
    /\ \A h \in Handlers :
          job'[h] # NoJob => Busy(h) /\ job'[h].order.status = job[h].order.status

LEMMA OtherStepsKeepStatuses ==
    ASSUME TypeOK, [Next]_vars, \A h \in Handlers : ~Request(h)
    PROVE  StatusesKept
<1> USE DEF database, warehouse, events, itemWork, counters, StatusesKept, Busy
<1>0. job \in [Handlers -> Running \cup {NoJob}]
  BY DEF TypeOK
<1>1. ASSUME NEW h \in Handlers, Save(h) \/ SaveHandoff(h)
      PROVE  StatusesKept
  BY <1>1, <1>0 DEF Save, SaveHandoff, MoveTo, At, Running, NoJob
<1>2. ASSUME NEW h \in Handlers, CallWarehouse(h)
      PROVE  StatusesKept
  <2>1. PICK outcome \in {HandoffOf[job[h].call], "failed", "skipped"} :
            job' = [job EXCEPT
                        ![h].order = [@ EXCEPT !.handoff = outcome, !.fulfillment = "none"],
                        ![h].at = IF job[h].call = "fulfill" THEN "dispatch"
                                  ELSE "saveHandoff"]
    BY <1>2 DEF CallWarehouse
  <2>2. Busy(h) /\ row' = row
    BY <1>2 DEF CallWarehouse, At
  <2>3. job[h] \in Running /\ job[h].order \in Row
    BY <2>2, <1>0 DEF Running
  <2>4. [job[h].order EXCEPT !.handoff = outcome, !.fulfillment = "none"].status
            = job[h].order.status
    BY <2>3 DEF Row
  <2>5. job'[h].order = [job[h].order EXCEPT !.handoff = outcome, !.fulfillment = "none"]
    BY <2>1, <2>3, <1>0 DEF Running
  <2>6. \A g \in Handlers \ {h} : job'[g] = job[g]
    BY <2>1, <1>0
  <2> QED
    BY <2>2, <2>4, <2>5, <2>6
<1>3. ASSUME NEW h \in Handlers, Dispatch(h)
      PROVE  StatusesKept
  BY <1>3, <1>0 DEF Dispatch, MoveTo, At, Running, NoJob
<1>4. ASSUME NEW h \in Handlers, AnnounceStage(h) \/ RefuseStage(h) \/ SaveFails(h)
      PROVE  StatusesKept
  BY <1>4, <1>0 DEF AnnounceStage, RefuseStage, SaveFails, MoveTo, Finish, At, Running, NoJob
<1>5. ASSUME NEW h \in Handlers, PublishCoarse(h)
      PROVE  StatusesKept
  BY <1>5, <1>0 DEF PublishCoarse, Finish, At, Running, NoJob
<1>6. CASE (\E status \in AddedStatus : AddItem(status)) \/ Crash \/ UNCHANGED vars
  BY <1>6 DEF AddItem, Crash, vars
<1>7. ASSUME NEW w \in ItemHandlers, ReadItem(w) \/ SaveItem(w)
      PROVE  StatusesKept
  BY <1>7 DEF ReadItem, SaveItem
<1> QED
  BY <1>1, <1>2, <1>3, <1>4, <1>5, <1>6, <1>7 DEF Next, Continue, Request

LEMMA StatusesNext ==
    ASSUME FulfillmentReports = {}, TypeOK, WritesAccepted, StatusesFit, [Next]_vars
    PROVE  StatusesFit'
<1> DEFINE FitsAfter(status) ==
              /\ status = "shipped" =>
                    \A i \in DOMAIN items' \ rewritten' : items'[i] \in {"shipped", "delivered"}
              /\ status = "delivered" =>
                    \A i \in DOMAIN items' \ rewritten' : items'[i] = "delivered"
<1>1. ASSUME NEW status, Fits(status)
      PROVE  FitsAfter(status)
  <2>1. Fits(status)'
    BY <1>1, FitsStays
  <2> QED
    BY <2>1 DEF Fits
<1>2. SUFFICES /\ FitsAfter(row'.status)
               /\ \A h \in Handlers : job'[h] # NoJob => FitsAfter(job'[h].order.status)
  BY DEF StatusesFit, Fits, Busy
<1> HIDE DEF FitsAfter
<1>3. ASSUME NEW h \in Handlers, Request(h)
      PROVE  /\ FitsAfter(row'.status)
             /\ \A g \in Handlers : job'[g] # NoJob => FitsAfter(job'[g].order.status)
  <2>1. PICK entity, call, coarse : Begin(h, entity, call, coarse) /\ Fits(entity.status)
    BY <1>3, RequestFits
  <2>2. /\ row' = row
        /\ job'[h].order = entity
        /\ \A g \in Handlers \ {h} : job'[g] = job[g]
    BY <2>1 DEF Begin, database, TypeOK
  <2> QED
    BY <1>1, <2>1, <2>2 DEF StatusesFit, Busy
<1>4. CASE \A h \in Handlers : ~Request(h)
  <2>1. StatusesKept
    BY <1>4, OtherStepsKeepStatuses
  <2> QED
    BY <1>1, <2>1 DEF StatusesKept, StatusesFit, Busy
<1> QED
  BY <1>3, <1>4

(***************************************************************************)
(* Without warehouse reports, which set the status unasked, a shipped or   *)
(* delivered order has only items that are, however many status and item   *)
(* requests overlap with its handlers.                                     *)
(***************************************************************************)
THEOREM ShippedItemsStayShipped ==
    FulfillmentReports = {} => (Spec => []ShippedMeansItemsShipped)
<1> SUFFICES ASSUME FulfillmentReports = {}
             PROVE  Spec => []ShippedMeansItemsShipped
  OBVIOUS
<1>1. Init => StatusesFit
  BY DEF Init, StatusesFit, Fits, Busy, NoJob
<1>2. TypeOK /\ WritesAccepted /\ StatusesFit /\ [Next]_vars => StatusesFit'
  BY StatusesNext
<1>3. StatusesFit => ShippedMeansItemsShipped
  BY DEF StatusesFit, Fits, ShippedMeansItemsShipped, AllShipped, AllDelivered
<1> QED
  BY <1>1, <1>2, <1>3, TypeCorrect, WritesHold, PTL DEF Spec

=============================================================================
