------------------------- MODULE StatusTransitions -------------------------
(***************************************************************************)
(* The pure rules of src/orders/status-transitions.ts: which order status  *)
(* and which item fulfilment status may follow which, and what a human     *)
(* must supply before an order may be cancelled.  A request string the     *)
(* code trims and lowercases is represented by the class it falls into: a  *)
(* status, a refund-like word, or anything else.                           *)
(***************************************************************************)
EXTENDS FiniteSets

CONSTANTS
    IdempotencyKeys,    \* well-formed approval.idempotencyKey values
    NoKey               \* the caller supplied none

ASSUME KeyAssumption == NoKey \notin IdempotencyKeys

OrderStatus == {"pending", "confirmed", "processing", "shipped", "delivered", "cancelled"}

ItemStatus == {"pending", "reserved", "shipped", "delivered"}

RequestableStatus == OrderStatus \cup {"refund_like", "unrecognized"}

RequestableItemStatus == ItemStatus \cup {"refund_like", "unrecognized"}

CancellationSources == {"pending", "confirmed", "processing"}

SideEffects == {"payment", "warehouse", "notification", "crm", "channel"}

\* Forward edges of the order status machine, cancellation apart.
OrderTransitions ==
    {<<"pending", "confirmed">>, <<"confirmed", "processing">>,
     <<"processing", "shipped">>, <<"shipped", "delivered">>}

ItemTransitions ==
    {<<"pending", "reserved">>, <<"reserved", "shipped">>, <<"shipped", "delivered">>}

(***************************************************************************)
(* An approval as the endpoint receives it.  reason and key are FALSE and  *)
(* "malformed" when the code's patterns refuse them.                       *)
(***************************************************************************)
Approval ==
    [approved : BOOLEAN, human : BOOLEAN, approver : BOOLEAN, reason : BOOLEAN,
     handled : SUBSET SideEffects, key : IdempotencyKeys \cup {NoKey, "malformed"}]

NoApproval ==
    [approved |-> FALSE, human |-> FALSE, approver |-> FALSE, reason |-> FALSE,
     handled |-> {}, key |-> NoKey]

FullApproval(k) ==
    [approved |-> TRUE, human |-> TRUE, approver |-> TRUE, reason |-> TRUE,
     handled |-> SideEffects, key |-> k]

CancellationApproved(a) ==
    /\ a.approved
    /\ a.human
    /\ a.approver
    /\ a.reason
    /\ a.handled = SideEffects
    /\ a.key \in IdempotencyKeys \cup {NoKey}

AllShipped(items) == \A i \in DOMAIN items : items[i] \in {"shipped", "delivered"}

AllDelivered(items) == \A i \in DOMAIN items : items[i] = "delivered"

\* Mutant: an approved cancellation is accepted from any status.
OrderTransitionAcceptedFromAny(current, requested, items, approval) ==
    /\ requested \in OrderStatus
    /\ \/ requested = current
       \/ requested = "cancelled" /\ CancellationApproved(approval)
       \/ /\ <<current, requested>> \in OrderTransitions
          /\ requested = "shipped" => AllShipped(items)
          /\ requested = "delivered" => AllDelivered(items)

\* Mutant: the items are checked for delivery only.
OrderTransitionAcceptedUnshipped(current, requested, items, approval) ==
    /\ requested \in OrderStatus
    /\ \/ requested = current
       \/ /\ requested = "cancelled"
          /\ current \in CancellationSources
          /\ CancellationApproved(approval)
       \/ /\ <<current, requested>> \in OrderTransitions
          /\ requested = "delivered" => AllDelivered(items)

(***************************************************************************)
(* validateOrderStatusTransitionWithAudit returns (does not throw): the    *)
(* request is accepted, possibly as a no-op on the same status.            *)
(***************************************************************************)
OrderTransitionAccepted(current, requested, items, approval) ==
    /\ requested \in OrderStatus
    /\ \/ requested = current
       \/ /\ requested = "cancelled"
          /\ current \in CancellationSources
          /\ CancellationApproved(approval)
       \/ /\ <<current, requested>> \in OrderTransitions
          /\ requested = "shipped" => AllShipped(items)
          /\ requested = "delivered" => AllDelivered(items)

\* Mutant: an item may also be set back.
ItemTransitionAcceptedBack(current, requested) ==
    /\ requested \in ItemStatus
    /\ \/ requested = current
       \/ <<current, requested>> \in ItemTransitions
       \/ <<requested, current>> \in ItemTransitions

ItemTransitionAccepted(current, requested) ==
    /\ requested \in ItemStatus
    /\ \/ requested = current
       \/ <<current, requested>> \in ItemTransitions

\* What the transition table allows a stored status to become.
StatusStep(from, to) ==
    \/ from = to
    \/ <<from, to>> \in OrderTransitions
    \/ from \in CancellationSources /\ to = "cancelled"

=============================================================================
