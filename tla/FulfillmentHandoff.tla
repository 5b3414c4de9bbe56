------------------------- MODULE FulfillmentHandoff -------------------------
(***************************************************************************)
(* What follows the payment of a reserved order, request by request: the   *)
(* reservation client asks Warehouse to fulfil each line, then             *)
(* OrderFulfillmentHandoffClient fetches the reservations of the order,    *)
(* pairs them with its lines and posts a fulfilment order.  Warehouse      *)
(* lets reservations expire (fifteen minutes after the order was placed)   *)
(* or cancels them meanwhile, and picks the reservation a fulfil request   *)
(* is about, which names product, warehouse and order but no quantity.     *)
(* Within OrderProcessing this is CallWarehouse and Dispatch.              *)
(***************************************************************************)
EXTENDS Naturals, Sequences, FiniteSets

CONSTANTS
    PaidOrders,     \* orders a payment is confirmed for
    StrayReservations,  \* reservations of other orders an answer may hold
    MaxLapses       \* bound: reservations that expire or are cancelled

VARIABLES
    paidOrder,
    reservations,   \* Warehouse's rows; the i-th was made for the i-th line
    handoff,        \* where the handler is, and what it knows
    fulfilmentOrders,   \* the payloads Warehouse has accepted
    lapses

handoffVars == <<paidOrder, reservations, handoff, fulfilmentOrders, lapses>>

-----------------------------------------------------------------------------

\* Nothing, something, or something with a line break in it.
GivenText == {"", "given", "broken"}

\* A two-letter code; a name of the table; a name with an accented letter,
\* which is taken for a blank and so found nowhere; nothing.
CountryText == {"code", "name", "accented", ""}

Address == [street : GivenText, city : GivenText, postalCode : GivenText, country : CountryText]

PaidLine == [product : STRING, warehouse : STRING, quantity : Nat \ {0}]

Reservation ==
    [order : {"own", "other"}, product : STRING, warehouse : STRING, quantity : Nat \ {0},
     status : {"reserved", "fulfilled", "expired", "cancelled"}]

ASSUME HandoffAssumption ==
    /\ \A o \in PaidOrders :
          /\ o.lines \in Seq(PaidLine)
          /\ o.shippingMethod \in GivenText
          /\ o.address \in Address
          /\ o.enabled \in BOOLEAN
    /\ StrayReservations \in Seq(Reservation)
    /\ \A i \in DOMAIN StrayReservations : StrayReservations[i].order = "other"
    /\ MaxLapses \in Nat

Usable(text) == text = "given"

NormalizeCountry(country) == country \in {"code", "name"}

NormalizeDeliveryAddress(a) ==
    Usable(a.street) /\ Usable(a.city) /\ Usable(a.postalCode) /\ NormalizeCountry(a.country)

HasWarehouseId(line) == line.warehouse # ""

\* buildReservePayload and, without a quantity, buildLifecyclePayload.
ReservePayload(line) ==
    [order |-> "own", product |-> line.product, warehouse |-> line.warehouse,
     quantity |-> line.quantity, status |-> "reserved"]

Lifecycle(row) == [order |-> row.order, product |-> row.product, warehouse |-> row.warehouse]

\* An order at payment: its lines are reserved, where they could be.
HandoffInit ==
    /\ paidOrder \in PaidOrders
    /\ reservations =
         IF paidOrder.enabled /\ \A i \in DOMAIN paidOrder.lines : HasWarehouseId(paidOrder.lines[i])
         THEN [i \in DOMAIN paidOrder.lines |-> ReservePayload(paidOrder.lines[i])]
                \o StrayReservations
         ELSE StrayReservations
    /\ handoff = [at |-> "fulfil", line |-> 1, found |-> <<>>, lines |-> <<>>]
    /\ fulfilmentOrders = <<>>
    /\ lapses = 0

-----------------------------------------------------------------------------

Leave(outcome) == handoff' = [handoff EXCEPT !.at = outcome]

\* applyReservationAction before its first request.
NothingToFulfil ==
    /\ handoff.at = "fulfil" /\ handoff.line = 1
    /\ \/ ~paidOrder.enabled /\ Leave("disabled")
       \/ /\ paidOrder.enabled
          /\ \/ paidOrder.lines = <<>>
             \/ \E i \in DOMAIN paidOrder.lines : ~HasWarehouseId(paidOrder.lines[i])
          /\ Leave("skipped")
    /\ UNCHANGED <<paidOrder, reservations, fulfilmentOrders, lapses>>

Fulfilling ==
    /\ handoff.at = "fulfil"
    /\ paidOrder.enabled
    /\ paidOrder.lines # <<>>
    /\ \A i \in DOMAIN paidOrder.lines : HasWarehouseId(paidOrder.lines[i])
    /\ UNCHANGED <<paidOrder, fulfilmentOrders, lapses>>

\* postReservationAction for the next line; the loop ends after the last.
FulfilLine ==
    /\ Fulfilling
    /\ \E r \in DOMAIN reservations :
          /\ Lifecycle(reservations[r]) = Lifecycle(ReservePayload(paidOrder.lines[handoff.line]))
          /\ reservations[r].status = "reserved"
          /\ reservations' = [reservations EXCEPT ![r].status = "fulfilled"]
          /\ handoff' = IF handoff.line = Len(paidOrder.lines)
                        THEN [handoff EXCEPT !.at = "check"]
                        ELSE [handoff EXCEPT !.line = @ + 1]

\* Warehouse refuses, or its answer is lost after it fulfilled the line.
FulfilFails ==
    /\ Fulfilling
    /\ \/ UNCHANGED reservations
       \/ \E r \in DOMAIN reservations :
             /\ Lifecycle(reservations[r]) = Lifecycle(ReservePayload(paidOrder.lines[handoff.line]))
             /\ reservations[r].status = "reserved"
             /\ reservations' = [reservations EXCEPT ![r].status = "fulfilled"]
    /\ Leave("failed")

\* createAfterPaymentFulfillment before its first request.  It is asked after a
\* failed or skipped fulfilment too, and then skips.
CheckHandoff ==
    /\ handoff.at = "check"
    /\ handoff' = [handoff EXCEPT !.at =
         IF ~Usable(paidOrder.shippingMethod) THEN "missing_shipping_method"
         ELSE IF ~NormalizeDeliveryAddress(paidOrder.address) THEN "missing_delivery_address"
         ELSE "fetch"]
    /\ UNCHANGED <<paidOrder, reservations, fulfilmentOrders, lapses>>

Pairs(reservation, line) ==
    /\ reservation.status = "fulfilled"
    /\ reservation.order = "own"
    /\ reservation.product = line.product
    /\ reservation.warehouse = line.warehouse
    /\ reservation.quantity = line.quantity

\* find returns the first.
First(places) == CHOOSE j \in places : \A k \in places : j <= k

\* Mutant: a reservation may be found again for another line.
TakeAgain(found, taken, i) ==
    LET free == {j \in DOMAIN found : Pairs(found[j].row, paidOrder.lines[i])}
    IN  IF free = {} THEN 0 ELSE found[First(free)].id

\* The i-th line takes the first reservation like it that those before it left.
Take(found, taken, i) ==
    LET used == {taken[k] : k \in 1 .. i - 1}
        free == {j \in DOMAIN found : /\ found[j].id \notin used
                                      /\ Pairs(found[j].row, paidOrder.lines[i])}
    IN  IF free = {} THEN 0 ELSE found[First(free)].id

\* The reservation of each line, 0 for none.
Taken(found) ==
    LET taken[i \in DOMAIN paidOrder.lines] == Take(found, taken, i) IN taken

\* buildFulfillmentLines.  Lines without a reservation are left out there, but
\* then nothing comes of the rest.
LinesOf(found) ==
    [i \in DOMAIN paidOrder.lines |-> [line |-> i, reservation |-> Taken(found)[i]]]

\* Warehouse's answer: some of its rows, in any order.
Listings ==
    {ids \in UNION {[1 .. n -> DOMAIN reservations] : n \in 0 .. Len(reservations)} :
        \A i, j \in DOMAIN ids : i # j => ids[i] # ids[j]}

\* fetchOrderReservations: an answer that is no list counts as an empty one.
FetchReservations ==
    /\ handoff.at = "fetch"
    /\ \E ids \in Listings :
          LET found == [i \in DOMAIN ids |-> [id |-> ids[i], row |-> reservations[ids[i]]]]
              lines == LinesOf(found)
          IN  handoff' = [handoff EXCEPT
                            !.found = found, !.lines = lines,
                            !.at = IF \A i \in DOMAIN lines : lines[i].reservation # 0 THEN "post"
                                   ELSE "missing_reservation_id"]
    /\ UNCHANGED <<paidOrder, reservations, fulfilmentOrders, lapses>>

\* buildPayload
FulfilmentOrder == [items |-> handoff.lines, address |-> paidOrder.address]

PostFulfilmentOrder ==
    /\ handoff.at = "post"
    /\ fulfilmentOrders' = Append(fulfilmentOrders, FulfilmentOrder)
    /\ \/ Leave("requested")
       \/ Leave("failed")     \* accepted, and the answer lost
    /\ UNCHANGED <<paidOrder, reservations, lapses>>

\* A request fails; nothing tries again.
RequestFails ==
    /\ handoff.at \in {"fetch", "post"}
    /\ Leave("failed")
    /\ UNCHANGED <<paidOrder, reservations, fulfilmentOrders, lapses>>

\* Warehouse: a reservation expires, or one is cancelled at another's request.
Lapse ==
    /\ lapses < MaxLapses
    /\ lapses' = lapses + 1
    /\ \E r \in DOMAIN reservations :
          /\ reservations' = [reservations EXCEPT ![r].status =
                                IF @ = "reserved" THEN "expired" ELSE "cancelled"]
          /\ reservations[r].status \in {"reserved", "fulfilled"}
    /\ UNCHANGED <<paidOrder, handoff, fulfilmentOrders>>

HandoffNext ==
    \/ NothingToFulfil
    \/ FulfilLine
    \/ FulfilFails
    \/ CheckHandoff
    \/ FetchReservations
    \/ PostFulfilmentOrder
    \/ RequestFails
    \/ Lapse

HandoffSpec == HandoffInit /\ [][HandoffNext]_handoffVars

-----------------------------------------------------------------------------

Lines == DOMAIN paidOrder.lines

Pairing(found) ==
    \E pick \in [Lines -> DOMAIN found] :
        /\ \A i, j \in Lines : i # j => pick[i] # pick[j]
        /\ \A i \in Lines : Pairs(found[pick[i]].row, paidOrder.lines[i])

(***************************************************************************)
(* Warehouse is handed one fulfilment order at most.  It names each line   *)
(* once, each with a reservation of its own that was fulfilled for this    *)
(* order in the line's quantity, although requests do not say which one    *)
(* they mean, and never an order a reservation of which has expired.  An   *)
(* order is passed over for missing reservations only if no pairing of     *)
(* those found covers its lines.                                           *)
(***************************************************************************)
HandoffSound ==
    /\ Len(fulfilmentOrders) <= 1
    /\ \A f \in DOMAIN fulfilmentOrders :
          LET items == fulfilmentOrders[f].items
          IN  /\ {items[j].line : j \in DOMAIN items} = Lines
              /\ Len(items) = Len(paidOrder.lines)
              /\ \A j \in DOMAIN items :
                    LET row == reservations[items[j].reservation]
                    IN  /\ row.status \in {"fulfilled", "cancelled"}
                        /\ Lifecycle(row) = Lifecycle(ReservePayload(paidOrder.lines[items[j].line]))
                        /\ row.quantity = paidOrder.lines[items[j].line].quantity
                        /\ \A k \in DOMAIN items \ {j} : items[k].reservation # items[j].reservation
              /\ NormalizeDeliveryAddress(fulfilmentOrders[f].address)
              /\ \A r \in DOMAIN reservations :
                    reservations[r].order = "own" => reservations[r].status # "expired"
    /\ handoff.at = "missing_reservation_id" => ~Pairing(handoff.found)

=============================================================================
