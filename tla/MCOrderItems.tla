---------------------------- MODULE MCOrderItems ----------------------------
(***************************************************************************)
(* An order with two item requests in flight and an item added later, and  *)
(* the shipments table.  The two share no state, so one is explored while  *)
(* the other has not begun.                                                *)
(***************************************************************************)
EXTENDS MCOrderProcessing, Shipments

MCCreateBodies ==
    {[trackingNumber |-> "n1"], [status |-> "delivered", deliveredAt |-> "set"]}

MCInit == Init /\ ShipmentInit

MCNext ==
    \/ Next /\ shipmentRequests = 0 /\ UNCHANGED shipmentVars
    \/ ShipmentNext /\ received = 0 /\ itemsReceived = 0 /\ faults = 0 /\ UNCHANGED vars

\* Sound here: no property names a handler, and none is about liveness.
MCSymmetry == HandlerSymmetry \cup Permutations(ItemHandlers)

MCSpec == MCInit /\ [][MCNext]_<<vars, shipmentVars>>

=============================================================================
