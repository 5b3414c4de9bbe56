------------------------ MODULE PaymentBoundary_proofs ------------------------
(***************************************************************************)
(* What OrderProcessing keeps when the requests on an order do not overlap *)
(* (Overlap = FALSE): the promises of the payment boundary, for any number *)
(* of items, references, requests, failed saves and crashes.               *)
(***************************************************************************)
EXTENDS OrderProcessing_proofs

-----------------------------------------------------------------------------

Alone(h) == \A g \in Handlers : Busy(g) => g = h

Follows(h) == EntityFollowsRow(h) /\ FirstPaid(h)

\* The row keeps what was paid, and pays no cancelled order.
PaymentKept ==
    /\ row.payment = "paid" =>
          /\ row'.payment = "paid"
          /\ row.ref # NoReference => row'.ref = row.ref
    /\ row.status = "cancelled" /\ row.payment # "paid" => row'.payment # "paid"

Unpaid == row.payment # "paid" => published["paid"] = 0 /\ Consumed = {}

\* One handler moved, the others are idle: its part of the invariant is all of it.
LEMMA OnlyOneMoves ==
    ASSUME SerialInvariant, NEW h \in Handlers, Alone(h),
           \A g \in Handlers \ {h} : job'[g] = job[g],
           (Busy(h) => Follows(h))', Unpaid', published'["paid"] <= 1
    PROVE  SerialInvariant'
BY DEF SerialInvariant, Alone, Busy, Follows, Unpaid

\* Ending requests changes nothing the invariant speaks of.
LEMMA EndSerial ==
    ASSUME SerialInvariant, \A g \in Handlers : job'[g] \in {job[g], NoJob},
           UNCHANGED <<row, applied, published>>
    PROVE  SerialInvariant' /\ PaymentKept
BY DEF SerialInvariant, PaymentKept, Busy, EntityFollowsRow, FirstPaid, Saved, Consumed

\* A request that is alone starts from the row as it is.
LEMMA BeginSerial ==
    ASSUME ~Overlap, TypeOK, SerialInvariant, NEW h \in Handlers,
           NEW entity, NEW call, NEW coarse,
           Admissible(entity, call, coarse), Begin(h, entity, call, coarse)
    PROVE  SerialInvariant' /\ PaymentKept
<1>1. job'[h] = [at |-> "save", order |-> entity, seen |-> items,
                 from |-> DeriveStage(row, items), call |-> call, todo |-> coarse]
  BY DEF Begin, TypeOK
<1>2. /\ \A g \in Handlers \ {h} : job'[g] = job[g]
      /\ UNCHANGED <<row, applied, published>>
  BY DEF Begin, TypeOK, database, warehouse, events
<1>3. \A g \in Handlers : ~Busy(g)
  BY DEF Begin, Admitted
<1>4. Follows(h)'
  BY <1>1, <1>2 DEF Admissible, Follows, EntityFollowsRow, FirstPaid, Saved, SerialInvariant,
                    Consumed
<1>5. Unpaid' /\ published'["paid"] <= 1
  BY <1>2 DEF SerialInvariant, Unpaid, Consumed
<1> QED
  BY <1>2, <1>3, <1>4, <1>5, OnlyOneMoves DEF Alone, PaymentKept

\* A handler in flight is the only one.
LEMMA BusyAlone ==
    ASSUME SerialInvariant, NEW h \in Handlers, Busy(h)
    PROVE  Alone(h) /\ Follows(h)
BY DEF SerialInvariant, Alone, Follows

\* The first save records the entity; only then may stock be consumed.
LEMMA SaveSerial ==
    ASSUME TypeOK, SerialInvariant, NEW h \in Handlers, Save(h)
    PROVE  SerialInvariant' /\ PaymentKept
<1>1. job[h] \in Running /\ Alone(h) /\ Follows(h) /\ job[h].at = "save"
  BY BusyIsRunning, BusyAlone DEF Save, At
<1>2. /\ row' = job[h].order
      /\ UNCHANGED <<applied, published>>
  BY DEF Save, warehouse, events
<1>3. PaymentKept
  BY <1>1, <1>2 DEF PaymentKept, Follows, EntityFollowsRow, Saved
<1>4. /\ \A g \in Handlers \ {h} : job'[g] = job[g]
      /\ job'[h] = [job[h] EXCEPT !.at = IF job[h].call = "none" THEN "lifecycle" ELSE "warehouse"]
  BY DEF Save, MoveTo, TypeOK
<1>5. Follows(h)'
  BY <1>1, <1>2, <1>4 DEF Follows, EntityFollowsRow, FirstPaid, Saved, Running, Consumed
<1>6. Unpaid' /\ published'["paid"] <= 1
  BY <1>2, <1>3 DEF SerialInvariant, Unpaid, PaymentKept, Consumed
<1> QED
  BY <1>1, <1>3, <1>4, <1>5, <1>6, OnlyOneMoves

\* The second save writes the payment the first one wrote.
LEMMA SaveHandoffSerial ==
    ASSUME TypeOK, SerialInvariant, NEW h \in Handlers, SaveHandoff(h)
    PROVE  SerialInvariant' /\ PaymentKept /\ row'.payment = row.payment /\ row'.ref = row.ref
<1>1. job[h] \in Running /\ Alone(h) /\ Follows(h) /\ job[h].at = "saveHandoff"
  BY BusyIsRunning, BusyAlone DEF SaveHandoff, At
<1>2. /\ row' = job[h].order
      /\ UNCHANGED <<applied, published>>
  BY DEF SaveHandoff, warehouse, events
<1>3. row'.payment = row.payment /\ row'.ref = row.ref
  BY <1>1, <1>2 DEF Follows, EntityFollowsRow, Saved
<1>4. /\ \A g \in Handlers \ {h} : job'[g] = job[g]
      /\ job'[h] = [job[h] EXCEPT !.at = "lifecycle"]
  BY DEF SaveHandoff, MoveTo, TypeOK
<1>5. Follows(h)'
  BY <1>1, <1>2, <1>4 DEF Follows, EntityFollowsRow, FirstPaid, Saved, Running, Consumed
<1>6. Unpaid' /\ published'["paid"] <= 1
  BY <1>2, <1>3 DEF SerialInvariant, Unpaid, Consumed
<1> QED
  BY <1>1, <1>3, <1>4, <1>5, <1>6, OnlyOneMoves DEF PaymentKept

\* The one warehouse call that consumes stock is the payer's.
LEMMA CallWarehouseSerial ==
    ASSUME TypeOK, SerialInvariant, NEW h \in Handlers, CallWarehouse(h)
    PROVE  /\ SerialInvariant'
           /\ PaymentKept
           /\ UNCHANGED <<row, published>>
           /\ \/ Consumed' = Consumed
              \/ /\ row.payment = "paid"
                 /\ published["paid"] = 0
                 /\ Consumed = {}
                 /\ Consumed' \in SUBSET Items
<1>1. /\ job[h] \in Running /\ Alone(h) /\ Follows(h) /\ job[h].at = "warehouse"
      /\ job[h].call \in ReservationAction
  BY BusyIsRunning, BusyAlone DEF CallWarehouse, At, TypeOK
<1>2. PICK outcome \in {HandoffOf[job[h].call], "failed", "skipped"},
           acted \in SUBSET DOMAIN job[h].seen :
          /\ applied' = applied \cup ({job[h].call} \X acted)
          /\ job' = [job EXCEPT
                        ![h].order = [@ EXCEPT !.handoff = outcome, !.fulfillment = "none"],
                        ![h].at = IF job[h].call = "fulfill" THEN "dispatch"
                                  ELSE "saveHandoff"]
  BY DEF CallWarehouse
<1>3. UNCHANGED <<row, published>>
  BY DEF CallWarehouse, database, events
<1>4. \/ Consumed' = Consumed
      \/ job[h].call = "fulfill" /\ Consumed' \in SUBSET Items
  BY <1>2 DEF Consumed
<1>5. /\ \A g \in Handlers \ {h} : job'[g] = job[g]
      /\ job'[h].at \in {"dispatch", "saveHandoff"}
      /\ job'[h].todo = job[h].todo
      /\ job'[h].order.payment = job[h].order.payment
      /\ job'[h].order.ref = job[h].order.ref
  BY <1>1, <1>2 DEF TypeOK, Running, Row
<1>6. Follows(h)'
  BY <1>1, <1>3, <1>5 DEF Follows, EntityFollowsRow, FirstPaid, Saved
<1>7. job[h].call = "fulfill" =>
          row.payment = "paid" /\ published["paid"] = 0 /\ Consumed = {}
  BY <1>1 DEF Follows, EntityFollowsRow, FirstPaid, Saved
<1>8. Unpaid' /\ published'["paid"] <= 1
  BY <1>3, <1>4, <1>7 DEF SerialInvariant, Unpaid
<1> QED
  BY <1>1, <1>3, <1>4, <1>5, <1>6, <1>7, <1>8, OnlyOneMoves DEF PaymentKept

\* Dispatching and announcing a stage leave the payment alone.
LEMMA DispatchSerial ==
    ASSUME TypeOK, SerialInvariant, NEW h \in Handlers, Dispatch(h) \/ AnnounceStage(h)
    PROVE  /\ SerialInvariant'
           /\ PaymentKept
           /\ UNCHANGED <<row, applied>>
           /\ published'["paid"] = published["paid"]
<1>1. /\ job[h] \in Running /\ Alone(h) /\ Follows(h)
      /\ job[h].at \in {"dispatch", "lifecycle"}
  BY BusyIsRunning, BusyAlone DEF Dispatch, AnnounceStage, At
<1>2. UNCHANGED <<row, applied>> /\ published'["paid"] = published["paid"]
  BY DEF Dispatch, AnnounceStage, database, warehouse, events, TypeOK, EventKind
<1>3. /\ \A g \in Handlers \ {h} : job'[g] = job[g]
      /\ \/ job'[h] = NoJob
         \/ \E place \in {"saveHandoff", "events"} : job'[h] = [job[h] EXCEPT !.at = place]
  BY DEF Dispatch, AnnounceStage, MoveTo, Finish, TypeOK
<1>4. (Busy(h) => Follows(h))'
  BY <1>1, <1>2, <1>3 DEF Follows, EntityFollowsRow, FirstPaid, Saved, Running, Consumed, Busy
<1>5. Unpaid' /\ published'["paid"] <= 1
  BY <1>2 DEF SerialInvariant, Unpaid, Consumed
<1> QED
  BY <1>1, <1>2, <1>3, <1>4, <1>5, OnlyOneMoves DEF PaymentKept

\* The paid event is handed over once, by the handler that recorded the payment.
LEMMA PublishSerial ==
    ASSUME TypeOK, SerialInvariant, NEW h \in Handlers, PublishCoarse(h)
    PROVE  /\ SerialInvariant'
           /\ PaymentKept
           /\ UNCHANGED <<row, applied>>
           /\ \/ published'["paid"] = published["paid"]
              \/ row.payment = "paid" /\ published["paid"] = 0 /\ published'["paid"] = 1
<1>1. /\ job[h] \in Running /\ Alone(h) /\ Follows(h)
      /\ job[h].at = "events"
  BY BusyIsRunning, BusyAlone DEF PublishCoarse, At
<1>2. PICK k \in job[h].todo :
          /\ published' = [published EXCEPT ![k] = @ + 1]
          /\ IF job[h].todo = {k} THEN Finish(h)
             ELSE job' = [job EXCEPT ![h].todo = @ \ {k}]
  BY DEF PublishCoarse
<1>3. UNCHANGED <<row, applied>>
  BY DEF PublishCoarse, database, warehouse
<1>4. /\ k # "paid" => published'["paid"] = published["paid"]
      /\ k = "paid" => row.payment = "paid" /\ published["paid"] = 0 /\ published'["paid"] = 1
  BY <1>1, <1>2 DEF TypeOK, EventKind, Follows, FirstPaid, EntityFollowsRow, Saved
<1>5. /\ \A g \in Handlers \ {h} : job'[g] = job[g]
      /\ job'[h] = NoJob \/ job'[h] = [job[h] EXCEPT !.todo = @ \ {k}]
  BY <1>2 DEF Finish, TypeOK
<1>6. (Busy(h) => Follows(h))'
  BY <1>1, <1>3, <1>4, <1>5 DEF Follows, EntityFollowsRow, FirstPaid, Saved, Running, Busy
<1>7. Unpaid' /\ published'["paid"] <= 1
  BY <1>3, <1>4 DEF SerialInvariant, Unpaid, Consumed
<1> QED
  BY <1>1, <1>3, <1>4, <1>5, <1>6, <1>7, OnlyOneMoves DEF PaymentKept

\* Every step of requests that do not overlap keeps the invariant and the payment.
LEMMA SerialNext ==
    ASSUME ~Overlap, TypeOK, SerialInvariant, [Next]_vars
    PROVE  SerialInvariant' /\ PaymentKept
<1> USE DEF database, warehouse, events, itemWork, counters
<1>1. ASSUME NEW h \in Handlers, Request(h)
      PROVE  SerialInvariant' /\ PaymentKept
  BY <1>1, RequestBegins, BeginSerial
<1>2. ASSUME NEW h \in Handlers, Continue(h)
      PROVE  SerialInvariant' /\ PaymentKept
  <2>1. CASE RefuseStage(h)
    BY <2>1, EndSerial DEF RefuseStage, Finish, TypeOK
  <2> QED
    BY <1>2, <2>1, SaveSerial, CallWarehouseSerial, DispatchSerial, SaveHandoffSerial,
       PublishSerial DEF Continue
<1>3. ASSUME NEW h \in Handlers, SaveFails(h)
      PROVE  SerialInvariant' /\ PaymentKept
  BY <1>3, EndSerial DEF SaveFails, Finish, TypeOK
<1>4. ASSUME NEW w \in ItemHandlers, ReadItem(w) \/ SaveItem(w)
      PROVE  SerialInvariant' /\ PaymentKept
  BY <1>4, EndSerial DEF ReadItem, SaveItem
<1>5. CASE Crash
  BY <1>5, EndSerial DEF Crash
<1>6. CASE UNCHANGED vars
  BY <1>6, EndSerial DEF vars
<1>7. CASE \E status \in AddedStatus : AddItem(status)
  BY <1>7, EndSerial DEF AddItem
<1> QED
  BY <1>1, <1>2, <1>3, <1>4, <1>5, <1>6, <1>7 DEF Next, Request

LEMMA SerialInit == Init => SerialInvariant
BY DEF Init, SerialInvariant, Busy, Consumed, EventKind

LEMMA SerialHolds ==
    ASSUME ~Overlap
    PROVE  Spec => []SerialInvariant
<1>1. TypeOK /\ SerialInvariant /\ [Next]_vars => SerialInvariant'
  BY SerialNext
<1> QED
  BY <1>1, SerialInit, TypeCorrect, PTL DEF Spec

(***************************************************************************)
(* Stock leaves the warehouse for paid orders only, whatever fails or      *)
(* stops in between.                                                       *)
(***************************************************************************)
THEOREM StockSafe ==
    ASSUME ~Overlap
    PROVE  Spec => []StockConsumedOnlyIfPaid
<1>1. SerialInvariant => StockConsumedOnlyIfPaid
  BY DEF SerialInvariant, StockConsumedOnlyIfPaid
<1> QED
  BY <1>1, SerialHolds, PTL

(***************************************************************************)
(* Requests that do not overlap leave paid final, and the payment the      *)
(* order was paid by.                                                      *)
(***************************************************************************)
THEOREM PaidFinal ==
    ASSUME ~Overlap
    PROVE  Spec => PaidIsFinal
<1>1. TypeOK /\ SerialInvariant /\ [Next]_vars =>
          [row.payment = "paid" =>
              /\ row'.payment = "paid"
              /\ row.ref # NoReference => row'.ref = row.ref]_vars
  BY SerialNext DEF PaymentKept
<1> QED
  BY <1>1, SerialHolds, TypeCorrect, PTL DEF Spec, PaidIsFinal

(***************************************************************************)
(* A cancelled order never becomes paid.                                   *)
(***************************************************************************)
THEOREM CancelledStaysUnpaid ==
    ASSUME ~Overlap
    PROVE  Spec => CancelledNeverPaid
<1>1. TypeOK /\ SerialInvariant /\ [Next]_vars =>
          [row.status = "cancelled" /\ row.payment # "paid" => row'.payment # "paid"]_vars
  BY SerialNext DEF PaymentKept
<1> QED
  BY <1>1, SerialHolds, TypeCorrect, PTL DEF Spec, CancelledNeverPaid

-----------------------------------------------------------------------------

(***************************************************************************)
(* The status keeps to the table; a cancelled order lets its stock go.     *)
(***************************************************************************)

\* What a request puts in flight, seen from the row it has read.
Orderly(entity, call) ==
    /\ StatusMove(row, entity)
    /\ HoldsStock(entity) => call \in {"cancel", "release"} \/ HoldsStock(row)
    /\ call = "fulfill" => entity.status # "cancelled"

\* The status table, the payment guards and the projection make requests orderly.
LEMMA RequestOrderly ==
    ASSUME TypeOK, NEW h \in Handlers, Request(h)
    PROVE  \E entity, call, coarse : Orderly(entity, call) /\ Begin(h, entity, call, coarse)
<1>1. CASE UpdateStatus(h)
  <2>1. PICK to \in StatusRequests \ {row.status}, a \in Approvals :
            /\ OrderTransitionAccepted(row.status, to, items, a)
            /\ IF to = "cancelled"
                 THEN Begin(h, [row EXCEPT !.status = to, !.audit = a.key], "cancel",
                            {"updated", "cancelled"})
                 ELSE Begin(h, [row EXCEPT !.status = to], "none", {"updated"})
    BY <1>1 DEF UpdateStatus
  <2>2. StatusStep(row.status, to) /\ row \in Row
    BY <2>1 DEF OrderTransitionAccepted, StatusStep, TypeOK
  <2>3. CASE to = "cancelled"
    <3>1. Orderly([row EXCEPT !.status = to, !.audit = a.key], "cancel")
      BY <2>2 DEF Orderly, StatusMove, Row
    <3> QED
      BY <3>1, <2>1, <2>3
  <2>4. CASE to # "cancelled"
    <3>1. Orderly([row EXCEPT !.status = to], "none")
      BY <2>2, <2>4 DEF Orderly, StatusMove, HoldsStock, Row
    <3> QED
      BY <3>1, <2>1, <2>4
  <2> QED
    BY <2>3, <2>4
<1>2. CASE ApplyPaymentStatus(h)
  <2> DEFINE entity(s, ref) ==
        [row EXCEPT !.payment = PaymentStatusOf[s], !.ref = ref,
                    !.status = IF PaymentStatusOf[s] = "paid" /\ row.status = "pending"
                                 THEN "confirmed" ELSE @]
  <2>1. PICK s \in PaymentRequests \cap DOMAIN PaymentStatusOf, ref \in References :
            /\ PaymentAccepted(PaymentStatusOf[s], ref)
            /\ Begin(h, entity(s, ref), ReservationCall(PaymentStatusOf[s]),
                     PaymentEvents(PaymentStatusOf[s]))
    BY <1>2 DEF ApplyPaymentStatus
  <2>2. /\ entity(s, ref).status \in {row.status, "confirmed"}
        /\ entity(s, ref).status = "confirmed" => row.status \in {"pending", "confirmed"}
        /\ entity(s, ref).handoff = row.handoff
        /\ entity(s, ref).fulfillment = row.fulfillment
    BY DEF TypeOK, Row
  <2> HIDE DEF entity
  <2>3. ReservationCall(PaymentStatusOf[s]) = "fulfill" => row.status # "cancelled"
    BY <2>1 DEF ReservationCall, PaymentAccepted
  <2>4. Orderly(entity(s, ref), ReservationCall(PaymentStatusOf[s]))
    BY <2>2, <2>3 DEF Orderly, StatusMove, StatusStep, OrderTransitions, HoldsStock
  <2> QED
    BY <2>1, <2>4
<1>3. CASE ApplyWarehouseFulfillmentStatus(h)
  <2> DEFINE reported(r) == [row EXCEPT !.fulfillment = r]
             entity(r) == [reported(r) EXCEPT
                              !.status = Projection[DeriveStage(reported(r), items)]]
  <2>1. PICK r \in FulfillmentReports : Begin(h, entity(r), "none", {})
    BY <1>3 DEF ApplyWarehouseFulfillmentStatus
  <2>2. r # "none"
    BY ProcessingAssumption DEF FulfillmentStatus
  <2>3. reported(r) \in Row /\ reported(r).fulfillment = r
    BY ProcessingAssumption DEF TypeOK, Row
  <2>4. DeriveStage(reported(r), items) = FulfillmentStage[r]
    BY <2>2, <2>3 DEF DeriveStage
  <2> HIDE DEF reported
  <2>5. entity(r).fulfillment = r /\ entity(r).status = Projection[FulfillmentStage[r]]
    BY <2>3, <2>4 DEF Row
  <2> HIDE DEF entity
  <2>6. Orderly(entity(r), "none")
    BY <2>2, <2>5 DEF Orderly, StatusMove, HoldsStock
  <2> QED
    BY <2>1, <2>6
<1> QED
  BY <1>1, <1>2, <1>3 DEF Request

\* The part of the invariant that speaks of one handler.
Orders(h) == EntityIsLawful(h) /\ (faults = 0 => LetsStockGo(h))

\* One handler moved: its part of the invariant is all of it.
LEMMA OneMovesStatus ==
    ASSUME NEW h \in Handlers, Alone(h), \A g \in Handlers \ {h} : job'[g] = job[g],
           (Busy(h) => Orders(h))', ~Busy(h)' /\ faults' = 0 => ~HoldsStock(row')
    PROVE  StatusInvariant'
BY DEF StatusInvariant, Alone, Busy, Orders

\* Steps of others, and faults, leave the invariant as it is.
LEMMA EndStatus ==
    ASSUME TypeOK, StatusInvariant, row' = row,
           \/ job' = job /\ faults' = faults
           \/ /\ \A g \in Handlers : job'[g] \in {job[g], NoJob}
              /\ faults' = faults + 1
    PROVE  StatusInvariant' /\ StatusMove(row, row')
<1>1. StatusMove(row, row')
  BY DEF StatusMove, StatusStep
<1>2. CASE job' = job /\ faults' = faults
  BY <1>1, <1>2 DEF StatusInvariant, Busy, EntityIsLawful, LetsStockGo, Saved
<1>3. CASE /\ \A g \in Handlers : job'[g] \in {job[g], NoJob}
           /\ faults' = faults + 1
  <2>1. faults' # 0
    BY <1>3 DEF TypeOK
  <2> QED
    BY <1>1, <1>3, <2>1 DEF StatusInvariant, Busy, EntityIsLawful, Saved
<1> QED
  BY <1>1, <1>2, <1>3

\* A request that is alone starts from the row as it is.
LEMMA BeginStatus ==
    ASSUME ~Overlap, TypeOK, StatusInvariant, NEW h \in Handlers,
           NEW entity, NEW call, NEW coarse,
           Orderly(entity, call), Begin(h, entity, call, coarse)
    PROVE  StatusInvariant' /\ StatusMove(row, row')
<1>1. job'[h] = [at |-> "save", order |-> entity, seen |-> items,
                 from |-> DeriveStage(row, items), call |-> call, todo |-> coarse]
  BY DEF Begin, TypeOK
<1>2. /\ \A g \in Handlers \ {h} : job'[g] = job[g]
      /\ UNCHANGED <<row, faults>>
  BY DEF Begin, TypeOK, database
<1>3. \A g \in Handlers : ~Busy(g)
  BY DEF Begin, Admitted
<1>4. job'[h].at = "save" /\ job'[h].order = entity /\ job'[h].call = call /\ job'[h] # NoJob
  BY <1>1 DEF NoJob
<1>5. Orders(h)'
  BY <1>2, <1>3, <1>4 DEF Orders, Orderly, EntityIsLawful, LetsStockGo, Saved, StatusInvariant
<1>6. Busy(h)'
  BY <1>4 DEF Busy
<1>7. StatusMove(row, row')
  BY <1>2 DEF StatusMove, StatusStep
<1> QED
  BY <1>2, <1>3, <1>5, <1>6, <1>7, OneMovesStatus DEF Alone

\* A handler in flight is the only one, and keeps its part.
LEMMA BusyOrders ==
    ASSUME SerialInvariant, StatusInvariant, NEW h \in Handlers, Busy(h)
    PROVE  Alone(h) /\ Orders(h)
BY BusyAlone DEF StatusInvariant, Orders

\* Both saves write what the invariant says of the entity.
LEMMA SaveStatus ==
    ASSUME TypeOK, SerialInvariant, StatusInvariant, NEW h \in Handlers,
           Save(h) \/ SaveHandoff(h)
    PROVE  StatusInvariant' /\ StatusMove(row, row')
<1>1. /\ job[h] \in Running /\ Alone(h) /\ Orders(h)
      /\ job[h].at = (IF Save(h) THEN "save" ELSE "saveHandoff")
  BY BusyIsRunning, BusyOrders DEF Save, SaveHandoff, At
<1>2. row' = job[h].order /\ faults' = faults
  BY DEF Save, SaveHandoff, counters
<1>3. PICK place \in {"lifecycle", "warehouse"} :
          /\ MoveTo(h, place)
          /\ place = "warehouse" => job[h].at = "save" /\ job[h].call # "none"
          /\ place = "lifecycle" => job[h].at = "saveHandoff" \/ job[h].call = "none"
  BY <1>1 DEF Save, SaveHandoff, At
<1>4. /\ \A g \in Handlers \ {h} : job'[g] = job[g]
      /\ job'[h] # NoJob /\ job'[h].at = place
      /\ job'[h].order = job[h].order /\ job'[h].call = job[h].call
  BY <1>1, <1>3 DEF MoveTo, TypeOK, Running, NoJob
<1>5. StatusMove(row, row')
  BY <1>1, <1>2 DEF Orders, EntityIsLawful, Saved, StatusMove, StatusStep
<1>6. EntityIsLawful(h)'
  BY <1>2, <1>4 DEF EntityIsLawful, Saved
<1>7. ASSUME faults' = 0
      PROVE  LetsStockGo(h)'
  BY <1>1, <1>2, <1>3, <1>4, <1>7 DEF Orders, LetsStockGo
<1> QED
  BY <1>1, <1>4, <1>5, <1>6, <1>7, OneMovesStatus DEF Orders, Busy

\* The warehouse's answer takes the hold off a cancelled order's entity.
LEMMA CallWarehouseStatus ==
    ASSUME TypeOK, SerialInvariant, StatusInvariant, NEW h \in Handlers, CallWarehouse(h)
    PROVE  StatusInvariant' /\ StatusMove(row, row')
<1>1. /\ job[h] \in Running /\ Alone(h) /\ Orders(h) /\ job[h].at = "warehouse"
      /\ job[h].call \in ReservationAction
  BY BusyIsRunning, BusyOrders DEF CallWarehouse, At, TypeOK
<1>2. PICK outcome \in {HandoffOf[job[h].call], "failed", "skipped"},
           acted \in SUBSET DOMAIN job[h].seen :
          job' = [job EXCEPT
                        ![h].order = [@ EXCEPT !.handoff = outcome, !.fulfillment = "none"],
                        ![h].at = IF job[h].call = "fulfill" THEN "dispatch"
                                  ELSE "saveHandoff"]
  BY DEF CallWarehouse
<1>3. UNCHANGED <<row, faults>>
  BY DEF CallWarehouse, database, counters
<1>4. /\ \A g \in Handlers \ {h} : job'[g] = job[g]
      /\ job'[h].at \in {"dispatch", "saveHandoff"} /\ job'[h] # NoJob
      /\ job'[h].order.status = job[h].order.status
      /\ job'[h].order.handoff = outcome
  BY <1>1, <1>2 DEF TypeOK, Running, Row, NoJob
<1>5. job[h].call # "fulfill" => outcome \notin {"reserved", "fulfilled"}
  BY <1>1 DEF HandoffOf, ReservationAction
<1>6. EntityIsLawful(h)'
  BY <1>1, <1>3, <1>4 DEF Orders, EntityIsLawful, Saved
<1>7. ASSUME faults' = 0
      PROVE  LetsStockGo(h)'
  BY <1>1, <1>3, <1>4, <1>5, <1>7 DEF Orders, LetsStockGo, HoldsStock
<1>8. StatusMove(row, row')
  BY <1>3 DEF StatusMove, StatusStep
<1> QED
  BY <1>1, <1>4, <1>6, <1>7, <1>8, OneMovesStatus DEF Orders, Busy

\* The other steps move on with the entity, or end the request.
LEMMA AdvanceStatus ==
    ASSUME TypeOK, SerialInvariant, StatusInvariant, NEW h \in Handlers,
           Dispatch(h) \/ AnnounceStage(h) \/ RefuseStage(h) \/ PublishCoarse(h)
    PROVE  StatusInvariant' /\ StatusMove(row, row')
<1>1. /\ job[h] \in Running /\ Alone(h) /\ Orders(h)
      /\ job[h].at = (IF Dispatch(h) THEN "dispatch" ELSE job[h].at)
      /\ Dispatch(h) \/ job[h].at \in {"lifecycle", "events"}
  BY BusyIsRunning, BusyOrders DEF Dispatch, AnnounceStage, RefuseStage, PublishCoarse, At
<1>2. UNCHANGED <<row, faults>>
  BY DEF Dispatch, AnnounceStage, RefuseStage, PublishCoarse, database, counters
<1>3. StatusMove(row, row')
  BY <1>2 DEF StatusMove, StatusStep
<1>4. CASE Finish(h)
  <2>1. (\A g \in Handlers \ {h} : job'[g] = job[g]) /\ job'[h] = NoJob
    BY <1>4 DEF Finish, TypeOK
  <2>2. job[h].at \in {"lifecycle", "events"}
    BY <1>1, <1>4, <2>1 DEF Dispatch, MoveTo, NoJob, TypeOK, Running
  <2>3. faults' = 0 => ~HoldsStock(row')
    BY <1>1, <1>2, <2>2 DEF Orders, LetsStockGo
  <2> QED
    BY <1>1, <1>3, <2>1, <2>3, OneMovesStatus DEF Busy
<1>5. CASE ~Finish(h)
  <2>1. /\ \A g \in Handlers \ {h} : job'[g] = job[g]
        /\ job'[h].at = (IF Dispatch(h) THEN "saveHandoff" ELSE "events") /\ job'[h] # NoJob
        /\ job'[h].order = job[h].order
    BY <1>1, <1>5 DEF Dispatch, AnnounceStage, RefuseStage, PublishCoarse, At, MoveTo, TypeOK,
                      Running, NoJob
  <2>2. EntityIsLawful(h)'
    BY <1>1, <1>2, <2>1 DEF Orders, EntityIsLawful, Saved
  <2>3. ASSUME faults' = 0
        PROVE  LetsStockGo(h)'
    BY <1>1, <1>2, <2>1, <2>3 DEF Orders, LetsStockGo
  <2> QED
    BY <1>1, <1>3, <2>1, <2>2, <2>3, OneMovesStatus DEF Orders, Busy
<1> QED
  BY <1>4, <1>5

\* Every step of requests that do not overlap keeps the invariant.
LEMMA StatusNext ==
    ASSUME ~Overlap, TypeOK, SerialInvariant, StatusInvariant, [Next]_vars
    PROVE  StatusInvariant' /\ StatusMove(row, row')
<1> USE DEF database, counters
<1>1. ASSUME NEW h \in Handlers, Request(h)
      PROVE  StatusInvariant' /\ StatusMove(row, row')
  BY <1>1, RequestOrderly, BeginStatus
<1>2. ASSUME NEW h \in Handlers, Continue(h)
      PROVE  StatusInvariant' /\ StatusMove(row, row')
  BY <1>2, SaveStatus, CallWarehouseStatus, AdvanceStatus DEF Continue
<1>3. ASSUME NEW h \in Handlers, SaveFails(h)
      PROVE  StatusInvariant' /\ StatusMove(row, row')
  BY <1>3, EndStatus DEF SaveFails, Finish, TypeOK
<1>4. ASSUME NEW w \in ItemHandlers, ReadItem(w) \/ SaveItem(w)
      PROVE  StatusInvariant' /\ StatusMove(row, row')
  BY <1>4, EndStatus DEF ReadItem, SaveItem
<1>5. CASE Crash
  BY <1>5, EndStatus DEF Crash
<1>6. CASE UNCHANGED vars
  BY <1>6, EndStatus DEF vars
<1>7. CASE \E status \in AddedStatus : AddItem(status)
  BY <1>7, EndStatus DEF AddItem
<1> QED
  BY <1>1, <1>2, <1>3, <1>4, <1>5, <1>6, <1>7 DEF Next, Request

LEMMA StatusHolds ==
    ASSUME ~Overlap
    PROVE  Spec => []StatusInvariant
<1>1. Init => StatusInvariant
  BY DEF Init, StatusInvariant, Busy, HoldsStock
<1>2. TypeOK /\ SerialInvariant /\ StatusInvariant /\ [Next]_vars => StatusInvariant'
  BY StatusNext
<1> QED
  BY <1>1, <1>2, SerialHolds, TypeCorrect, PTL DEF Spec

(***************************************************************************)
(* The stored status moves along the table, or to the projection of the    *)
(* warehouse's report.                                                     *)
(***************************************************************************)
THEOREM StatusOnTable ==
    ASSUME ~Overlap
    PROVE  Spec => StatusFollowsTable
<1>1. TypeOK /\ SerialInvariant /\ StatusInvariant /\ [Next]_vars => [StatusMove(row, row')]_vars
  BY StatusNext
<1> QED
  BY <1>1, StatusHolds, SerialHolds, TypeCorrect, PTL DEF Spec, StatusFollowsTable

(***************************************************************************)
(* Short of a fault, a cancelled order does not rest with stock recorded   *)
(* as held for it.                                                         *)
(***************************************************************************)
THEOREM CancelledLetsGo ==
    ASSUME ~Overlap
    PROVE  Spec => []CancelledHoldsNoStock
<1>1. StatusInvariant => CancelledHoldsNoStock
  BY DEF StatusInvariant, CancelledHoldsNoStock, AtRest
<1> QED
  BY <1>1, StatusHolds, PTL

-----------------------------------------------------------------------------

(***************************************************************************)
(* Refinement of PaymentBoundary.                                          *)
(***************************************************************************)

\* A step that leaves the four abstract variables as they are.
Invisible ==
    /\ row'.payment = row.payment
    /\ row'.ref = row.ref
    /\ Consumed' = Consumed
    /\ published'["paid"] = published["paid"]

LEMMA InvisibleStutters == Invisible => UNCHANGED Boundary!boundary
<1> SUFFICES ASSUME Invisible
             PROVE  UNCHANGED Boundary!boundary
  OBVIOUS
<1>1. (row.payment = "paid")' = (row.payment = "paid")
  BY DEF Invisible
<1>2. (published["paid"] > 0)' = (published["paid"] > 0)
  BY DEF Invisible
<1> QED
  BY <1>1, <1>2 DEF Boundary!boundary, Invisible

\* The first save records a reference, and perhaps the payment.
LEMMA SaveRefines ==
    ASSUME TypeOK, SerialInvariant, NEW h \in Handlers, Save(h)
    PROVE  [Boundary!Next]_Boundary!boundary
<1>1. job[h] \in Running /\ Follows(h) /\ job[h].at = "save"
  BY BusyIsRunning, BusyAlone DEF Save, At
<1>2. /\ row' = job[h].order
      /\ UNCHANGED <<applied, published>>
  BY DEF Save, warehouse, events
<1>3. Consumed' = Consumed /\ published'["paid"] = published["paid"]
  BY <1>2 DEF Consumed
<1>4. CASE row'.ref = row.ref /\ row'.payment = row.payment
  BY <1>3, <1>4, InvisibleStutters DEF Invisible
<1>5. CASE ~(row'.ref = row.ref /\ row'.payment = row.payment)
  <2>1. row'.ref \in References
    BY <1>1, <1>2, <1>5 DEF Follows, EntityFollowsRow, Saved
  <2>2. row.payment = "paid" => row'.payment = "paid" /\ row.ref = NoReference
    BY <1>1, <1>2, <1>5 DEF Follows, EntityFollowsRow, Saved
  <2>3. (row.payment = "paid")' \in {row.payment = "paid", TRUE}
    BY <2>2
  <2>4. Boundary!RecordReference(row'.ref)
    BY <1>3, <2>2, <2>3 DEF Boundary!RecordReference
  <2> QED
    BY <2>1, <2>4 DEF Boundary!Next
<1> QED
  BY <1>4, <1>5

\* The payer's warehouse call is the one attempt at consuming stock.
LEMMA CallWarehouseRefines ==
    ASSUME TypeOK, SerialInvariant, NEW h \in Handlers, CallWarehouse(h)
    PROVE  [Boundary!Next]_Boundary!boundary
<1>1. UNCHANGED <<row, published>>
  BY CallWarehouseSerial
<1>2. CASE Consumed' = Consumed
  BY <1>1, <1>2, InvisibleStutters DEF Invisible
<1>3. CASE /\ row.payment = "paid"
           /\ published["paid"] = 0
           /\ Consumed = {}
           /\ Consumed' \in SUBSET Items
  <2>1. Boundary!Consume(Consumed')
    BY <1>1, <1>3 DEF Boundary!Consume
  <2> QED
    BY <1>3, <2>1 DEF Boundary!Next
<1> QED
  BY <1>2, <1>3, CallWarehouseSerial

\* The paid event is the announcement; other events are invisible.
LEMMA PublishRefines ==
    ASSUME TypeOK, SerialInvariant, NEW h \in Handlers, PublishCoarse(h)
    PROVE  [Boundary!Next]_Boundary!boundary
<1>1. UNCHANGED <<row, applied>> /\ Consumed' = Consumed
  BY PublishSerial DEF Consumed
<1>2. CASE published'["paid"] = published["paid"]
  BY <1>1, <1>2, InvisibleStutters DEF Invisible
<1>3. CASE row.payment = "paid" /\ published["paid"] = 0 /\ published'["paid"] = 1
  <2>1. Boundary!Announce
    BY <1>1, <1>3 DEF Boundary!Announce
  <2> QED
    BY <2>1 DEF Boundary!Next
<1> QED
  BY <1>2, <1>3, PublishSerial

\* Every step of OrderProcessing is a step of the boundary or a stutter.
LEMMA StepRefines ==
    ASSUME TypeOK, SerialInvariant, [Next]_vars
    PROVE  [Boundary!Next]_Boundary!boundary
<1> USE DEF database, warehouse, events, itemWork, counters
<1>1. ASSUME NEW h \in Handlers, Request(h)
      PROVE  Invisible
  BY <1>1, RequestBegins DEF Begin, Invisible, Consumed
<1>2. ASSUME NEW h \in Handlers, Dispatch(h) \/ AnnounceStage(h)
      PROVE  Invisible
  BY <1>2, DispatchSerial DEF Invisible, Consumed
<1>3. ASSUME NEW h \in Handlers, SaveHandoff(h)
      PROVE  Invisible
  <2>1. UNCHANGED <<applied, published>>
    BY <1>3 DEF SaveHandoff
  <2> QED
    BY <1>3, <2>1, SaveHandoffSerial DEF Invisible, Consumed
<1>4. ASSUME NEW h \in Handlers, RefuseStage(h) \/ SaveFails(h)
      PROVE  Invisible
  BY <1>4 DEF RefuseStage, SaveFails, Invisible, Consumed
<1>5. ASSUME NEW w \in ItemHandlers, ReadItem(w) \/ SaveItem(w)
      PROVE  Invisible
  BY <1>5 DEF ReadItem, SaveItem, Invisible, Consumed
<1>6. CASE Crash \/ UNCHANGED vars
  <2>1. Invisible
    BY <1>6 DEF Crash, vars, Invisible, Consumed
  <2> QED
    BY <2>1, InvisibleStutters
<1>7. CASE \E status \in AddedStatus : AddItem(status)
  <2>1. Invisible
    BY <1>7 DEF AddItem, Invisible, Consumed
  <2> QED
    BY <2>1, InvisibleStutters
<1> QED
  BY <1>1, <1>2, <1>3, <1>4, <1>5, <1>6, <1>7, InvisibleStutters, SaveRefines,
     CallWarehouseRefines, PublishRefines DEF Next, Continue, Request

LEMMA InitRefines == Init => Boundary!Init
<1> SUFFICES ASSUME Init
             PROVE  Boundary!Init
  OBVIOUS
<1>1. row.ref = NoReference /\ Consumed = {}
  BY DEF Init, Consumed
<1>2. (published["paid"] > 0) = FALSE
  BY DEF Init, EventKind
<1>3. (row.payment = "paid") \in BOOLEAN
  OBVIOUS
<1> QED
  BY <1>1, <1>2, <1>3 DEF Boundary!Init

(***************************************************************************)
(* When requests on the order do not overlap, the handlers implement the   *)
(* payment boundary: one payment, one attempt at its stock, one paid event *)
(* and in that order.                                                      *)
(***************************************************************************)
THEOREM ImplementsBoundary ==
    ASSUME ~Overlap
    PROVE  Spec => BoundaryKept
<1>1. TypeOK /\ SerialInvariant /\ [Next]_vars => [Boundary!Next]_Boundary!boundary
  BY StepRefines
<1> QED
  BY <1>1, InitRefines, SerialHolds, TypeCorrect, PTL DEF Spec, BoundaryKept, Boundary!Spec

=============================================================================
