----------------------------- MODULE AdminDetail -----------------------------
(***************************************************************************)
(* The administrators' detail page of one order, beside AdminService's     *)
(* reports: AdminService.getOrderDetail reads the order, then, in a second *)
(* query, its shipments, and tells what happened to both as a timeline and *)
(* a log.  Meanwhile other requests move the order and its shipments; each *)
(* of their writes is one step here (Shipments has them overlap).  Times   *)
(* are counted by a clock that ticks at every write; 0 is no time, and the *)
(* order was created at 2, so that a request may name a time before it.    *)
(***************************************************************************)
EXTENDS AdminService

CONSTANTS
    ParcelIds,
    ParcelBodies,   \* bodies of POST /shipments: some of the columns
    MaxClock        \* bound: writes

ParcelStatus == {"created", "picked_up", "in_transit", "delivered", "returned"}

ASSUME DetailAssumption ==
    /\ MaxClock \in Nat
    /\ \A body \in ParcelBodies :
          /\ "orderId" \in DOMAIN body => body["orderId"] \in {"this", "another"}
          /\ "status" \in DOMAIN body => body["status"] \in ParcelStatus
          /\ "created" \in DOMAIN body => body["created"] \in Nat \ {0}
          /\ \A c \in {"shipped", "delivered"} \cap DOMAIN body : body[c] \in Nat

VARIABLES
    card,           \* the order: when it was created and last changed
    parcelRows,     \* the shipments, its own and another order's
    detail,         \* the request being served
    clock

detailVars == <<card, parcelRows, detail, clock>>

-----------------------------------------------------------------------------

NoDetail == [at |-> "none", order |-> <<>>, rows |-> <<>>, timeline |-> <<>>, log |-> <<>>]

DetailInit ==
    /\ card = [created |-> 2, updated |-> 2]
    /\ parcelRows = [p \in {} |-> <<>>]
    /\ detail = NoDetail
    /\ clock = 2

\* What happened, when, and at which place of the list it was collected.
Fact(type, at, place) == [type |-> type, at |-> at, place |-> place]

ParcelFacts(row, place) ==
    {Fact("shipment.created", row.created, place), Fact("shipment.shipped", row.shipped, place + 1),
     Fact("shipment.delivered", row.delivered, place + 2)}

\* buildTimeline: the facts that have a time.
Facts(order, rows) ==
    {fact \in {Fact("order.created", order.created, 1), Fact("order.state", order.updated, 2)}
                \cup UNION {ParcelFacts(rows[i], 3 * i) : i \in DOMAIN rows} : fact.at # 0}

\* A sort by date that keeps the order of equals.
Precedes(a, b) ==
    \/ a.at > b.at
    \/ a.at = b.at /\ a.place < b.place

LatestFirst(S) ==
    [i \in 1 .. Cardinality(S) |->
        CHOOSE x \in S : Cardinality({y \in S : Precedes(y, x)}) = i - 1]

\* buildSafeLogs: the timeline, and whether a shipment is linked.
SafeLog(order, rows, timeline) ==
    LatestFirst({[level |-> "info", at |-> timeline[i].at, place |-> i] : i \in DOMAIN timeline}
                  \cup {[level |-> IF rows = <<>> THEN "warn" ELSE "info",
                         at |-> order.updated, place |-> Len(timeline) + 1]})

\* getOrderDetail's first query.
ReadCard ==
    /\ detail.at = "none"
    /\ detail' = [NoDetail EXCEPT !.at = "shipments", !.order = card]
    /\ UNCHANGED <<card, parcelRows, clock>>

\* The order's shipments, newest first; the database lists equals as it likes.
Listings ==
    LET its == {p \in DOMAIN parcelRows : parcelRows[p].orderId = "this"}
    IN  {ids \in [1 .. Cardinality(its) -> its] :
            /\ \A p \in its : \E i \in DOMAIN ids : ids[i] = p
            /\ \A i, j \in DOMAIN ids :
                  i < j => parcelRows[ids[i]].created >= parcelRows[ids[j]].created}

\* The second query, and the answer.
ReadParcels ==
    /\ detail.at = "shipments"
    /\ \E ids \in Listings :
          LET rows == [i \in DOMAIN ids |-> parcelRows[ids[i]]]
              timeline == LatestFirst(Facts(detail.order, rows))
          IN  detail' = [detail EXCEPT !.at = "shown", !.rows = rows, !.timeline = timeline,
                                       !.log = SafeLog(detail.order, rows, timeline)]
    /\ UNCHANGED <<card, parcelRows, clock>>

CloseDetail ==
    /\ detail.at = "shown"
    /\ detail' = NoDetail
    /\ UNCHANGED <<card, parcelRows, clock>>

-----------------------------------------------------------------------------

Tick ==
    /\ detail.at # "shown"      \* what follows the answer is left out
    /\ clock < MaxClock
    /\ clock' = clock + 1
    /\ UNCHANGED detail

\* updateStatus, a payment or a warehouse report saves the order.
TouchOrder ==
    /\ Tick
    /\ card' = [card EXCEPT !.updated = clock + 1]
    /\ UNCHANGED parcelRows

\* A row no request has named columns of; "given" remembers that one did.
NewParcel(now) ==
    [orderId |-> "this", status |-> "created", created |-> now, shipped |-> 0,
     delivered |-> 0, given |-> FALSE]

Sent(body, column, old) == IF column \in DOMAIN body THEN body[column] ELSE old

WithBody(row, body) ==
    [orderId |-> Sent(body, "orderId", row.orderId),
     status |-> Sent(body, "status", row.status),
     created |-> Sent(body, "created", row.created),
     shipped |-> Sent(body, "shipped", row.shipped),
     delivered |-> Sent(body, "delivered", row.delivered),
     given |-> row.given \/ {"status", "created", "shipped", "delivered"} \cap DOMAIN body # {}]

\* ShipmentsService.create saves the columns the body gives, also over a row
\* whose id it names; a new row cannot do without an order.
LinkParcel ==
    /\ Tick
    /\ \E p \in ParcelIds, body \in ParcelBodies :
          /\ p \in DOMAIN parcelRows \/ "orderId" \in DOMAIN body
          /\ parcelRows' = [q \in DOMAIN parcelRows \cup {p} |->
                               IF q # p THEN parcelRows[q]
                               ELSE WithBody(IF p \in DOMAIN parcelRows THEN parcelRows[p]
                                             ELSE NewParcel(clock + 1), body)]
    /\ UNCHANGED card

\* updateTracking
PickedUp(row, now) == [row EXCEPT !.status = "picked_up", !.shipped = now]

TrackParcel ==
    /\ Tick
    /\ \E p \in DOMAIN parcelRows :
          parcelRows' = [parcelRows EXCEPT ![p] = PickedUp(@, clock + 1)]
    /\ UNCHANGED card

\* updateStatus dates every delivery it is told of, a second one again.
WithStatus(row, status, now) ==
    [row EXCEPT !.status = status, !.delivered = IF status = "delivered" THEN now ELSE @]

MoveParcel ==
    /\ Tick
    /\ \E p \in DOMAIN parcelRows, status \in {"in_transit", "delivered"} :
          parcelRows' = [parcelRows EXCEPT ![p] = WithStatus(@, status, clock + 1)]
    /\ UNCHANGED card

DetailNext ==
    \/ ReadCard
    \/ ReadParcels
    \/ CloseDetail
    \/ TouchOrder
    \/ LinkParcel
    \/ TrackParcel
    \/ MoveParcel

DetailSpec == DetailInit /\ [][DetailNext]_detailVars

-----------------------------------------------------------------------------

(***************************************************************************)
(* Although the order and its shipments are read at two moments, the page  *)
(* tells one past, newest first: the order is created once, and nothing    *)
(* happens before it; each shipment is created before it is picked up or   *)
(* delivered, and the last word on one that is delivered is its delivery.  *)
(* Only a shipment whose status or dates came in the body of a create      *)
(* request may tell otherwise, and then of itself alone: the service saves *)
(* what it is sent.  The log warns of a missing shipment just when the     *)
(* timeline shows none.                                                    *)
(***************************************************************************)
DetailTruthful ==
    LET told == detail.timeline
        rows == detail.rows
    IN  detail.at = "shown" =>
          /\ \A i, j \in DOMAIN told : i < j => told[i].at >= told[j].at
          /\ Cardinality({i \in DOMAIN told : told[i].type = "order.created"}) = 1
          /\ \A i \in DOMAIN told :
                \/ told[i].at >= detail.order.created
                \/ \E k \in DOMAIN rows :
                      /\ rows[k].given
                      /\ told[i].at \in {rows[k].created, rows[k].shipped, rows[k].delivered}
          /\ \A k \in DOMAIN rows : ~rows[k].given =>
                /\ \A e \in {rows[k].shipped, rows[k].delivered} \ {0} : e > rows[k].created
                /\ rows[k].status = "delivered" => rows[k].delivered > rows[k].shipped
          /\ (\E i \in DOMAIN detail.log : detail.log[i].level = "warn")
                <=> ~\E i \in DOMAIN told : told[i].type = "shipment.created"

(***************************************************************************)
(* What administrators are shown of many orders adds up, and what they are *)
(* shown of one happened.                                                  *)
(***************************************************************************)
AdminToldTruth == ReportsAddUp /\ DetailTruthful

=============================================================================
