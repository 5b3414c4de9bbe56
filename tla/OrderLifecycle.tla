--------------------------- MODULE OrderLifecycle ---------------------------
(***************************************************************************)
(* The pure lifecycle functions of src/orders/order-lifecycle.ts: the      *)
(* stage derived from a stored order and its items, the compatibility      *)
(* status a stage projects to, and the stage transitions an event may      *)
(* announce.  "none" stands for an absent column: no warehouseHandoff, no  *)
(* fulfillmentOrderHandoff.warehouseStatus, no paymentStatus.              *)
(***************************************************************************)
EXTENDS StatusTransitions

Stage ==
    {"ordered_unpaid", "payment_failed", "paid_not_delivered",
     "warehouse_fulfillment_requested", "warehouse_collecting", "warehouse_forming",
     "warehouse_formed", "handed_to_delivery", "in_delivery", "received",
     "not_received", "returned", "cancelled"}

FulfillmentStatus ==
    {"requested", "collecting", "forming", "formed", "handed_to_delivery",
     "in_delivery", "delivered", "not_delivered", "cancelled", "returned"}

PaymentStatus == {"none", "pending", "processing", "paid", "failed", "cancelled"}

\* warehouseHandoff.status; "skipped" also stands for "disabled".
HandoffStatus ==
    {"none", "skipped", "reserved", "released", "fulfilled", "cancelled", "failed"}

FulfillmentStage ==
    [f \in FulfillmentStatus |->
        CASE f = "requested"     -> "warehouse_fulfillment_requested"
          [] f = "collecting"    -> "warehouse_collecting"
          [] f = "forming"       -> "warehouse_forming"
          [] f = "formed"        -> "warehouse_formed"
          [] f = "delivered"     -> "received"
          [] f = "not_delivered" -> "not_received"
          [] OTHER               -> f]

StrictTransitions ==
    {<<"ordered_unpaid", "paid_not_delivered">>, <<"ordered_unpaid", "payment_failed">>,
     <<"ordered_unpaid", "cancelled">>,
     <<"paid_not_delivered", "warehouse_fulfillment_requested">>,
     <<"paid_not_delivered", "cancelled">>,
     <<"warehouse_fulfillment_requested", "warehouse_collecting">>,
     <<"warehouse_collecting", "warehouse_forming">>,
     <<"warehouse_forming", "warehouse_formed">>,
     <<"warehouse_formed", "handed_to_delivery">>,
     <<"handed_to_delivery", "in_delivery">>,
     <<"in_delivery", "received">>, <<"in_delivery", "not_received">>,
     <<"received", "returned">>, <<"not_received", "returned">>}

CoarseExtraTransitions ==
    {<<"ordered_unpaid", "warehouse_fulfillment_requested">>,
     <<"warehouse_fulfillment_requested", "handed_to_delivery">>,
     <<"warehouse_fulfillment_requested", "cancelled">>,
     <<"warehouse_collecting", "handed_to_delivery">>,
     <<"warehouse_collecting", "cancelled">>,
     <<"handed_to_delivery", "received">>}

\* validateOrderLifecycleTransition in coarse_projection mode does not throw.
StageTransitionAllowed(from, to) ==
    from = to \/ <<from, to>> \in StrictTransitions \cup CoarseExtraTransitions

HasItems(items) == DOMAIN items # {}

(***************************************************************************)
(* deriveOrderLifecycleState(order).lifecycleStage, in the code's order of *)
(* precedence: the warehouse's report, cancellation, the row's status or   *)
(* the items, payment failure, payment.                                    *)
(***************************************************************************)
DeriveStage(order, items) ==
    IF order.fulfillment # "none" THEN FulfillmentStage[order.fulfillment]
    ELSE IF "cancelled" \in {order.status, order.handoff} THEN "cancelled"
    ELSE IF order.status = "delivered" \/ (HasItems(items) /\ AllDelivered(items))
      THEN "received"
    ELSE IF order.status = "shipped" \/ (HasItems(items) /\ AllShipped(items))
      THEN "handed_to_delivery"
    ELSE IF order.payment \in {"failed", "cancelled"} THEN "payment_failed"
    ELSE IF order.payment # "paid" THEN "ordered_unpaid"
    ELSE IF order.status = "processing" THEN "warehouse_collecting"
    ELSE IF order.handoff = "fulfilled" THEN "warehouse_fulfillment_requested"
    ELSE "paid_not_delivered"

\* projectLifecycleStageToStatus
Projection ==
    [s \in Stage |->
        CASE s = "ordered_unpaid" -> "pending"
          [] s \in {"paid_not_delivered", "warehouse_fulfillment_requested"} -> "confirmed"
          [] s \in {"warehouse_collecting", "warehouse_forming", "warehouse_formed"}
                -> "processing"
          [] s \in {"handed_to_delivery", "in_delivery", "not_received"} -> "shipped"
          [] s = "received" -> "delivered"
          [] OTHER -> "cancelled"]

=============================================================================
