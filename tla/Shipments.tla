------------------------------ MODULE Shipments ------------------------------
(***************************************************************************)
(* ShipmentsService: the shipments table and the three handlers that write *)
(* it.  A handler that updates a row reads it, changes the entity and      *)
(* saves every column of it after an await; no request is checked against  *)
(* the status the shipment has, nor against its order.                     *)
(***************************************************************************)
EXTENDS Naturals

CONSTANTS
    ShipmentIds,
    ShipmentHandlers,   \* update requests being served
    CreateBodies,       \* bodies of POST /shipments: some of the columns
    TrackingNumbers,
    ShipmentWords,      \* what PUT /shipments/:id/status may carry
    MaxShipmentRequests \* bound: accepted requests

VARIABLES
    shipments,          \* the rows, by id
    shipmentWrites,     \* the handlers that have read and not yet saved
    shipmentRequests

shipmentVars == <<shipments, shipmentWrites, shipmentRequests>>

None == "none"

\* What a shipment must not forget; dates are set or not.
Evidence == {"trackingNumber", "trackingUrl", "shippedAt", "deliveredAt"}

Column == Evidence \cup {"status"}

\* A body that carries null for a column asks to erase it, and is left out.
ASSUME ShipmentAssumption ==
    /\ MaxShipmentRequests \in Nat
    /\ \A body \in CreateBodies : \A c \in Evidence \cap DOMAIN body : body[c] # None

NewShipment == [c \in Column |-> IF c = "status" THEN "created" ELSE None]

ShipmentInit ==
    /\ shipments = [id \in {} |-> NewShipment]
    /\ shipmentWrites = {}
    /\ shipmentRequests = 0

Stored == DOMAIN shipments

Accept ==
    /\ shipmentRequests < MaxShipmentRequests
    /\ shipmentRequests' = shipmentRequests + 1

Over(old, body) == [c \in Column |-> IF c \in DOMAIN body THEN body[c] ELSE old[c]]

\* create: the columns the body gives, also over a row whose id it names.
CreateShipment ==
    /\ Accept
    /\ \E id \in ShipmentIds, body \in CreateBodies :
          shipments' = [k \in Stored \cup {id} |->
                          IF k # id THEN shipments[k]
                          ELSE Over(IF id \in Stored THEN shipments[id] ELSE NewShipment, body)]
    /\ UNCHANGED shipmentWrites

Read(w, id, entity) ==
    /\ \A x \in shipmentWrites : x.by # w
    /\ Accept
    /\ shipmentWrites' =
          shipmentWrites \cup {[by |-> w, id |-> id, read |-> shipments[id], entity |-> entity]}
    /\ UNCHANGED shipments

\* updateTracking: a number or URL that is not given leaves the column alone.
UpdateTracking(w) ==
    \E id \in Stored, number \in TrackingNumbers \cup {None}, url \in {"url", None} :
        Read(w, id, [shipments[id] EXCEPT
                        !["trackingNumber"] = IF number = None THEN @ ELSE number,
                        !["trackingUrl"] = IF url = None THEN @ ELSE url,
                        !["status"] = "picked_up",
                        !["shippedAt"] = "set"])

\* Mutant: the delivery date is written with every status.
WithStatusDated(old, status) ==
    [old EXCEPT !["status"] = status,
                !["deliveredAt"] = IF status = "delivered" THEN "set" ELSE None]

WithStatus(old, status) ==
    [old EXCEPT !["status"] = status,
                !["deliveredAt"] = IF status = "delivered" THEN "set" ELSE @]

UpdateShipmentStatus(w) ==
    \E id \in Stored, status \in ShipmentWords :
        Read(w, id, WithStatus(shipments[id], status))

SaveShipment(w) ==
    /\ \E x \in shipmentWrites :
          /\ x.by = w
          /\ shipments' = [shipments EXCEPT ![x.id] = x.entity]
          /\ shipmentWrites' = shipmentWrites \ {x}
    /\ UNCHANGED shipmentRequests

\* The save rejects, or the pod stops with the request.
SaveShipmentFails(w) ==
    /\ \E x \in shipmentWrites : x.by = w /\ shipmentWrites' = shipmentWrites \ {x}
    /\ UNCHANGED <<shipments, shipmentRequests>>

ShipmentNext ==
    \/ CreateShipment
    \/ \E w \in ShipmentHandlers :
          UpdateTracking(w) \/ UpdateShipmentStatus(w) \/ SaveShipment(w) \/ SaveShipmentFails(w)

ShipmentSpec == ShipmentInit /\ [][ShipmentNext]_shipmentVars

-----------------------------------------------------------------------------

(***************************************************************************)
(* No request erases a tracking number, a tracking URL, or the date a      *)
(* shipment left or was delivered, whatever status follows: only a save of *)
(* an entity read before another request was stored does.                  *)
(***************************************************************************)
EvidenceKept ==
    [][\A id \in Stored, c \in Evidence :
          (shipments[id][c] # None /\ shipments'[id][c] = None) =>
              \E x \in shipmentWrites \ shipmentWrites' :
                  x.id = id /\ x.read # shipments[id]]_shipmentVars

=============================================================================
