--------------------------- MODULE LifecycleView ---------------------------
(***************************************************************************)
(* What the answers of OrderReads say of the orders on their page: the     *)
(* read model of src/orders/order-lifecycle.ts, the aggregates of the      *)
(* administrators' listing, and the sections of the product statistics     *)
(* built from loaded orders.  An answer is built from one query's rows, so *)
(* it is a function of the page and of the table as OrderReads leaves them.*)
(* What is copied from the row as it stands is left out of a view.         *)
(***************************************************************************)
EXTENDS OrderReads

CONSTANT Money      \* of each order placed: its currency, its total in cents, and
                    \* what the product's lines come to

ASSUME MoneyAssumption ==
    /\ Len(Money) >= MaxOrders
    /\ \A o \in DOMAIN Money : Money[o] \in [currency : STRING, cents : Nat, ofProduct : Nat]

-----------------------------------------------------------------------------

\* The filters as they are sent: dates by what the code makes of them.
RawFilters ==
    [stage : {"", "known", "unknown"}, from : {"", "early", "late", "no date"},
     to : {"", "early", "late", "no date"}, limit : {"", "1..250", "no integer", "beyond"}]

\* normalizeOrderLifecycleReadFilters throws on what is not readable.
Readable(filters) ==
    /\ filters.stage # "unknown"
    /\ "no date" \notin {filters.from, filters.to}
    /\ ~(filters.from = "late" /\ filters.to = "early")
    /\ filters.limit \in {"", "1..250"}

\* A listing is refused before its query.
RefuseFilters ==
    /\ request.route \in {"customer", "admin"}
    /\ request.route = "customer" => HasSubject
    /\ \E filters \in RawFilters : ~Readable(filters)
    /\ Advance("read", "refused")

\* The filters of the product statistics, the product and the statuses among
\* them; product and channel are texts of at most 500 characters.
RawStatisticsFilters ==
    [product : {"given", "blank", "long"}, channel : {"", "known", "unknown", "blank", "long"},
     status : {"", "known", "unknown", "blank"}, from : {"", "early", "late", "no date"},
     to : {"", "early", "late", "no date"}]

\* normalizeProductSalesString and normalizeProductSalesDate throw on the rest.
ReadableStatistics(filters) ==
    /\ filters.product = "given"
    /\ filters.channel \in {"", "known"}
    /\ filters.status \in {"", "known"}
    /\ "no date" \notin {filters.from, filters.to}
    /\ ~(filters.from = "late" /\ filters.to = "early")

\* normalizeProductSalesStatisticsFilters throws before the first query.
RefuseStatistics ==
    /\ request.route = "statistics"
    /\ \E filters \in RawStatisticsFilters : ~ReadableStatistics(filters)
    /\ Advance("read", "refused")

ViewNext == Next \/ RefuseFilters \/ RefuseStatistics

ViewSpec == Init /\ [][ViewNext]_vars

-----------------------------------------------------------------------------

\* deriveFulfillmentStatus
FulfillmentView(stage, order) ==
    CASE stage = "warehouse_fulfillment_requested" -> "fulfillment_requested"
      [] stage = "warehouse_collecting" -> "collecting"
      [] stage = "warehouse_forming" -> "forming"
      [] stage = "warehouse_formed" -> "formed"
      [] stage \in {"handed_to_delivery", "in_delivery", "received"} -> "fulfilled"
      [] stage \in {"returned", "cancelled"} -> stage
      [] OTHER ->
            IF \/ order.handoff = "reserved"
               \/ HasItems(order.items) /\ \A l \in DOMAIN order.items : order.items[l] = "reserved"
            THEN "reserved_waiting_for_payment" ELSE "not_requested"

\* deriveDeliveryStatus
DeliveryView(stage) ==
    IF stage \in {"handed_to_delivery", "in_delivery", "received", "not_received", "returned"}
    THEN stage ELSE "not_started"

\* deriveExceptionState
ExceptionView(stage, order) ==
    CASE stage \in {"payment_failed", "returned", "cancelled"} -> stage
      [] stage = "not_received" -> "delivery_not_received"
      [] OTHER -> IF order.handoff = "failed" THEN "warehouse_handoff_failed" ELSE "none"

\* buildLifecycleTimeline: the stages a row gives evidence of, then its own.
Timeline(stage, order) ==
    LET known == <<"ordered_unpaid">>
                   \o (IF order.payment = "paid" THEN <<"paid_not_delivered">> ELSE <<>>)
                   \o (IF order.handoff = "fulfilled"
                       THEN <<"warehouse_fulfillment_requested">> ELSE <<>>)
    IN  IF \E i \in DOMAIN known : known[i] = stage THEN known ELSE Append(known, stage)

\* serializeOrderLifecycleReadModel
View(o) ==
    LET stage == StageOf(o)
    IN  [stage |-> stage, projection |-> Projection[stage],
         fulfillment |-> FulfillmentView(stage, table[o]),
         delivery |-> DeliveryView(stage), exception |-> ExceptionView(stage, table[o]),
         timeline |-> Timeline(stage, table[o])]

-----------------------------------------------------------------------------

\* buildTotalsByCurrency
TotalsByCurrency(orders) ==
    [c \in {Money[o].currency : o \in orders} |->
        LET inThis == {o \in orders : Money[o].currency = c}
        IN  [orders |-> Cardinality(inThis),
             total |-> SumFunction([o \in inThis |-> Money[o].cents])]]

ExceptionStages == {"payment_failed", "not_received", "returned", "cancelled"}

\* buildLifecycleAggregates over the models of the page.
Aggregates ==
    [total |-> Cardinality(page),
     stages |-> Count([o \in page |-> View(o).stage]),
     payments |-> Count([o \in page |-> table[o].payment]),
     channels |-> Count([o \in page |-> table[o].channel]),
     deliveries |-> Count([o \in page |-> View(o).delivery]),
     exceptions |-> [e \in ExceptionStages |-> Quantify(page, LAMBDA o : View(o).stage = e)],
     currencies |-> TotalsByCurrency(page)]

\* isProductSalesUnfulfilledStage
Unfulfilled ==
    {"paid_not_delivered", "warehouse_fulfillment_requested", "warehouse_collecting",
     "warehouse_forming", "warehouse_formed"}

\* One tally of buildProductSalesLifecycleStatistics: of all loaded orders, or of
\* those of a channel.
Tally(orders) ==
    [stages |-> Count([o \in orders |-> SoldStage(o)]),
     notReceived |-> Quantify(orders, LAMBDA o : SoldStage(o) = "not_received"),
     returned |-> Quantify(orders, LAMBDA o : SoldStage(o) = "returned"),
     unfulfilled |-> Quantify(orders, LAMBDA o : SoldStage(o) \in Unfulfilled)]

ChannelLifecycle ==
    [c \in {table[o].channel : o \in Sample} |-> Tally({o \in Sample : table[o].channel = c})]

\* serializeProductSalesAggregate, of the rows grouped by currency.
SalesByCurrency ==
    [c \in {Money[o].currency : o \in Sold} |->
        LET inThis == {o \in Sold : Money[o].currency = c}
        IN  [orders |-> Cardinality(inThis),
             revenue |-> SumFunction([o \in inThis |-> Money[o].ofProduct])]]

\* buildProductSalesSummary: revenue in several currencies is not added up.
Summary ==
    LET rows == SalesByCurrency
    IN  [orders |-> SumFunction([c \in DOMAIN rows |-> rows[c].orders]),
         revenue |-> IF Cardinality(DOMAIN rows) > 1 THEN -1
                     ELSE SumFunction([c \in DOMAIN rows |-> rows[c].revenue])]

-----------------------------------------------------------------------------

At(counts, key) == IF key \in DOMAIN counts THEN counts[key] ELSE 0

(***************************************************************************)
(* The parts of a view tell one story: its timeline names no stage twice   *)
(* and ends where the order is (unless overlapping requests left it handed *)
(* over unpaid), and what has left the warehouse projects to shipped or    *)
(* beyond, and nothing else does.  The sections of the aggregates, counted *)
(* one by one, add up to the page and to each other.                       *)
(***************************************************************************)
ViewsAgree ==
    request.at = "answered" /\ request.route \in {"customer", "admin", "detail"}
        => /\ \A o \in page :
                 LET view == View(o)
                     timeline == view.timeline
                 IN  /\ \A i, j \in DOMAIN timeline : timeline[i] = timeline[j] => i = j
                     /\ (table[o].handoff = "fulfilled" => table[o].payment = "paid")
                            => timeline[Len(timeline)] = view.stage
                     /\ view.projection \in {"shipped", "delivered"} <=>
                            view.delivery \notin {"not_started", "returned"}
                     /\ view.fulfillment = "fulfilled" => view.delivery # "not_started"
           /\ request.route = "admin" =>
                 LET sums == Aggregates
                 IN  /\ SumFunction(sums.stages) = sums.total
                     /\ SumFunction(sums.deliveries) = sums.total
                     /\ \A e \in ExceptionStages : sums.exceptions[e] = At(sums.stages, e)
                     /\ \A s \in {"received", "not_received", "returned"} :
                            At(sums.deliveries, s) = At(sums.stages, s)
                     /\ SumFunction([c \in DOMAIN sums.currencies |-> sums.currencies[c].orders]) = sums.total
                     /\ request.stage # "any" => DOMAIN sums.stages \subseteq {request.stage}

(***************************************************************************)
(* The tallies by channel add up to the tally of all, over the channels    *)
(* the totals name, and the summary by currency is of as many orders as    *)
(* the total, when no order changed in between.                            *)
(***************************************************************************)
TalliesAgree ==
    request.at = "answered" /\ request.route = "statistics"
        => LET all == Tally(Sample)
               rows == ChannelLifecycle
           IN  /\ all.stages = report.stages
               /\ all.notReceived = SumFunction([c \in DOMAIN rows |-> rows[c].notReceived])
               /\ all.returned = SumFunction([c \in DOMAIN rows |-> rows[c].returned])
               /\ all.unfulfilled = SumFunction([c \in DOMAIN rows |-> rows[c].unfulfilled])
               /\ moved = 0 => /\ DOMAIN rows \subseteq DOMAIN report.channels
                               /\ Summary.orders = report.total

(***************************************************************************)
(* What one answer says in several places agrees: the sections of the      *)
(* statistics, the views of orders and their aggregates.                   *)
(***************************************************************************)
ReportsAgree == StatisticsAgree /\ ViewsAgree /\ TalliesAgree

=============================================================================
