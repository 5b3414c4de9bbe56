----------------------------- MODULE OrderReads -----------------------------
(***************************************************************************)
(* What a caller is given to read: the role guard in front of every route, *)
(* the lifecycle listings, the order detail and the product statistics.    *)
(* The routes that write are followed as far as their handlers, which are  *)
(* the subject of other modules.                                           *)
(*                                                                         *)
(* A read writes nothing, so reads do not affect one another: one request  *)
(* is followed, while the other handlers place and change orders between   *)
(* its awaits.  Orders are numbered by COALESCE(orderedAt, createdAt); two *)
(* with the same date, whose order SQL leaves open, are not modelled.      *)
(***************************************************************************)
EXTENDS OrderLifecycle, FiniteSetsExt, Integers, Sequences

CONSTANTS
    Callers,        \* who Auth may say the bearer of a token is
    Channels, Subjects, NoSubject,
    Lines,          \* the lines an order may have
    ProductLines,   \* those of the product the statistics are asked about
    Orders,         \* what a stored order may be in this instance
    Statuses,       \* the statuses a statistics request names
    Limits,         \* the limit parameter, 1..250 in the code
    SampleLimit,    \* PRODUCT_SALES_LIFECYCLE_ORDER_LIMIT, 1000 in the code
    Stages,         \* the lifecycleStage filters asked for
    MaxOrders,      \* bound: orders in the table
    MaxMoves        \* bound: changes of the table while statistics are counted

VARIABLES
    table,      \* the orders table, newest order last
    request,    \* the request being served
    page,       \* the orders of its answer
    report,     \* the statistics of its answer
    moved       \* changes of the table since the first query of the statistics

vars == <<table, request, page, report, moved>>

-----------------------------------------------------------------------------

\* parts: the items or the shipments of one order.
ReadRoute == {"list", "customer", "admin", "detail", "parts", "statistics"}

WriteRoute == {"create", "payment", "warehouse", "status", "items", "shipments", "pricing"}

Route == ReadRoute \cup WriteRoute

OrdersRole == {"internal:orders:admin", "internal:orders:readonly", "internal:orders:operator"}

ChannelRole == {"internal:flipflop:service", "internal:allegro:service"}

MarathonRole == {"app:marathon:user", "internal:marathon:service"}

\* Roles that begin with "internal:".
InternalRole ==
    OrdersRole \cup ChannelRole \cup
    {"internal:orders:action-admin", "internal:cliplot:service",
     "internal:invoices:service", "internal:catalog:service", "internal:marathon:service",
     "internal:payments:service", "internal:warehouse:service"}

Role == InternalRole \cup {"global:superadmin", "app:marathon:user", "app:shop:user"}

\* The token's bearer as Auth describes it; marked and otherAccess say what
\* source and perApplicationPreferences hold on marathon and on other services.
Caller ==
    [roles : SUBSET Role, sub : Subjects \cup {NoSubject},
     marked : BOOLEAN, otherAccess : BOOLEAN]

Order ==
    [status : OrderStatus, payment : PaymentStatus, handoff : HandoffStatus,
     fulfillment : FulfillmentStatus \cup {"none"}, channel : Channels,
     owner : Subjects \cup {NoSubject}, items : UNION {[L -> ItemStatus] : L \in SUBSET Lines}]

ASSUME ReadsAssumption ==
    /\ NoSubject \notin Subjects
    /\ Callers \subseteq Caller
    /\ Orders \subseteq Order
    /\ ProductLines \subseteq Lines
    /\ Statuses \subseteq OrderStatus
    /\ Stages \subseteq Stage
    /\ Limits \subseteq 1..250
    /\ SampleLimit \in Nat \ {0}
    /\ MaxMoves \in Nat

-----------------------------------------------------------------------------

OrdersAdmins == {"global:superadmin", "internal:orders:admin"}

ChannelOrderCreateRoles == OrdersAdmins \cup ChannelRole \cup {"internal:cliplot:service"}

WarehouseUpdateRoles == OrdersAdmins \cup {"internal:warehouse:service"}

StatusUpdateRoles == {"global:superadmin", "internal:orders:action-admin"}

PricingAdminRoles == OrdersAdmins

\* The @Roles of the routes.
RequiredRoles ==
    [r \in Route |->
        LET admins == {"global:superadmin"} \cup OrdersRole
        IN  CASE r \in {"list", "parts"} -> admins
              [] r = "customer"   -> admins \cup ChannelRole \cup {"authenticated:user"}
              [] r = "admin"      -> admins \cup ChannelRole
              [] r = "detail"     -> OrdersAdmins \cup ChannelRole
                                        \cup {"internal:invoices:service",
                                              "internal:cliplot:service"}
              [] r = "statistics" -> admins \cup {"internal:catalog:service"}
              [] r = "create"     -> ChannelOrderCreateRoles
              [] r = "payment"    -> OrdersAdmins \cup {"internal:payments:service"}
              [] r = "warehouse"  -> WarehouseUpdateRoles
              [] r \in {"status", "items", "shipments"} -> StatusUpdateRoles
              [] r = "pricing"    -> PricingAdminRoles]

IsInternalService(caller) == caller.roles \cap InternalRole # {}

\* isMarathonOnlyImportedUser: known from marathon and from nowhere else.
MarathonOnly(caller) ==
    /\ caller.marked \/ caller.roles \cap MarathonRole # {}
    /\ ~caller.otherAccess
    /\ caller.roles \subseteq MarathonRole

\* Mutant: the pseudo-role is granted without asking whether the route names it.
PermittedAnywhere(caller, route) ==
    \/ caller.roles \cap RequiredRoles[route] # {}
    \/ ~IsInternalService(caller) /\ ~MarathonOnly(caller)

\* One of the route's roles suffices; no route names the other pseudo-roles.
Permitted(caller, route) ==
    \/ caller.roles \cap RequiredRoles[route] # {}
    \/ /\ "authenticated:user" \in RequiredRoles[route]
       /\ ~IsInternalService(caller)
       /\ ~MarathonOnly(caller)

-----------------------------------------------------------------------------

Stored == DOMAIN table

\* ORDER BY date DESC, take(n)
Newest(orders, n) == {o \in orders : Cardinality({p \in orders : p > o}) < n}

StageOf(o) == DeriveStage(table[o], table[o].items)

\* The rows a listing selects from: of the channel asked for, a customer's own.
Scope ==
    {o \in Stored : /\ request.channel \in {"any", table[o].channel}
                    /\ request.route = "customer" => table[o].owner = request.caller.sub}

\* Mutant: rows are dropped by stage only after the page was cut to its limit.
WindowOfOne == request.limit

\* The stage is not a column: the query takes more rows for the filter to drop.
Window == request.limit * (IF request.stage = "any" THEN 1 ELSE 3)

\* filterLifecycleModels over what the query returned.
Page ==
    Newest({o \in Newest(Scope, Window) : request.stage \in {"any", StageOf(o)}},
           request.limit)

-----------------------------------------------------------------------------

NoRequest ==
    [at |-> "none", route |-> "none", caller |-> [roles |-> {}, sub |-> NoSubject],
     stage |-> "any", channel |-> "any", limit |-> 0]

NoReport == [total |-> 0, channels |-> <<>>, statuses |-> <<>>, stages |-> <<>>]

Init ==
    /\ table = <<>>
    /\ request = NoRequest
    /\ page = {}
    /\ report = NoReport
    /\ moved = 0

\* The guard sends the bearer's token to Auth; the status and date filters,
\* which narrow the rows as the channel does, are left out.
Ask ==
    /\ request.at = "none"
    /\ \E route \in Route, c \in Callers, stage \in Stages \cup {"any"},
          channel \in Channels \cup {"any"}, n \in Limits :
          /\ route \notin {"customer", "admin"} => stage = "any" /\ n = Min(Limits)
          /\ route \in {"detail", "parts"} \cup WriteRoute => channel = "any"
          /\ request' = [at |-> "auth", route |-> route, caller |-> c,
                         stage |-> stage, channel |-> channel, limit |-> n]
    /\ UNCHANGED <<table, page, report, moved>>

Advance(from, to) ==
    /\ request.at = from
    /\ request' = [request EXCEPT !.at = to]
    /\ UNCHANGED <<table, page, report, moved>>

\* Auth cannot be reached, answers an error, or says the token is not valid.
Unauthorized == Advance("auth", "refused")

Authorize == Advance("auth", "read") /\ Permitted(request.caller, request.route)

Forbid == Advance("auth", "refused") /\ ~Permitted(request.caller, request.route)

Answer(orders) ==
    /\ request.at = "read"
    /\ request' = [request EXCEPT !.at = "answered"]
    /\ page' = orders
    /\ UNCHANGED <<table, report, moved>>

\* normalizeActorSubject: the token names an Auth subject, a UUID.
HasSubject == request.caller.sub # NoSubject

\* getCustomerLifecycleOrders
CustomerLifecycle ==
    /\ request.route = "customer"
    /\ \/ HasSubject /\ Answer(Page)
       \/ ~HasSubject /\ Advance("read", "refused")

\* getAdminLifecycleOrders
AdminLifecycle == request.route = "admin" /\ Answer(Page)

\* findAll
FindAll == request.route = "list" /\ Answer(Newest(Scope, 100))

\* findOne and getLifecycleReadModel: an unknown id is not found.
FindOne ==
    /\ request.route = "detail"
    /\ \/ \E o \in Stored : Answer({o})
       \/ Advance("read", "refused")

\* findByOrder of the items and of the shipments: none for an unknown id.
FindParts ==
    /\ request.route = "parts"
    /\ \/ Answer({})
       \/ \E o \in Stored : Answer({o})

\* The handlers of the routes that write; what they return is left out.
ServeOrder ==
    /\ request.route \in {"create", "payment", "warehouse", "status"}
    /\ Advance("read", "answered")

ServeItems == request.route = "items" /\ Advance("read", "answered")

ServeShipments == request.route = "shipments" /\ Advance("read", "answered")

ServePricing == request.route = "pricing" /\ Advance("read", "answered")

-----------------------------------------------------------------------------

\* The report's keys are those the counted orders have, as in the code.
Count(key) ==
    [k \in {key[o] : o \in DOMAIN key} |-> Cardinality({o \in DOMAIN key : key[o] = k})]

\* The orders buildProductSalesBaseQuery selects: every count but the last.
Sold ==
    {o \in Stored : /\ DOMAIN table[o].items \cap ProductLines # {}
                    /\ table[o].status \in Statuses
                    /\ request.channel \in {"any", table[o].channel}}

\* Mutant: the second query forgets the channel the caller asked about.
SampleOfAllChannels ==
    Newest({o \in Stored : /\ DOMAIN table[o].items \cap ProductLines # {}
                           /\ table[o].status \in Statuses},
           SampleLimit)

\* The newest of the orders buildProductSalesLifecycleQuery selects.
Sample ==
    Newest({o \in Stored : /\ DOMAIN table[o].items \cap ProductLines # {}
                           /\ table[o].status \in Statuses
                           /\ request.channel \in {"any", table[o].channel}},
           SampleLimit)

\* Only the product's lines are loaded: the stage is derived from those.
SoldStage(o) ==
    DeriveStage(table[o],
                [l \in DOMAIN table[o].items \cap ProductLines |-> table[o].items[l]])

Continue(from, to) ==
    /\ request.at = from
    /\ request' = [request EXCEPT !.at = to]
    /\ UNCHANGED <<table, page>>

\* getProductSalesStatistics: four queries, each awaited, in no transaction.
CountTotals ==
    /\ request.route = "statistics"
    /\ Continue("read", "byChannel")
    /\ report' = [NoReport EXCEPT !.total = Cardinality(Sold)]
    /\ moved' = 0

CountByChannel ==
    /\ Continue("byChannel", "byStatus")
    /\ report' = [report EXCEPT !.channels = Count([o \in Sold |-> table[o].channel])]
    /\ UNCHANGED moved

CountByStatus ==
    /\ Continue("byStatus", "lifecycle")
    /\ report' = [report EXCEPT !.statuses = Count([o \in Sold |-> table[o].status])]
    /\ UNCHANGED moved

CountByStage ==
    /\ Continue("lifecycle", "answered")
    /\ report' = [report EXCEPT !.stages = Count([o \in Sample |-> SoldStage(o)])]
    /\ UNCHANGED moved

Done ==
    /\ request.at \in {"answered", "refused"}
    /\ request' = NoRequest
    /\ page' = {}
    /\ report' = NoReport
    /\ moved' = 0
    /\ UNCHANGED table

-----------------------------------------------------------------------------

Counting == request.at \in {"byChannel", "byStatus", "lifecycle"}

\* Other handlers go on; what they do after the answer is sent is left out.
Meanwhile ==
    /\ request.at \notin {"answered", "refused"}
    /\ Counting => moved < MaxMoves
    /\ moved' = IF Counting THEN moved + 1 ELSE moved
    /\ UNCHANGED <<request, page, report>>

\* create has committed an order.
Place ==
    /\ Meanwhile
    /\ Len(table) < MaxOrders
    /\ \E new \in Orders : table' = Append(table, new)

\* Another handler has saved an order or an item of it.
Change ==
    /\ Meanwhile
    /\ \E o \in Stored, new \in Orders :
          /\ new.channel = table[o].channel
          /\ new.owner = table[o].owner
          /\ DOMAIN new.items = DOMAIN table[o].items
          /\ table' = [table EXCEPT ![o] = new]

Next ==
    \/ Ask
    \/ Unauthorized
    \/ Authorize
    \/ Forbid
    \/ CustomerLifecycle
    \/ AdminLifecycle
    \/ FindAll
    \/ FindOne
    \/ FindParts
    \/ ServeOrder
    \/ ServeItems
    \/ ServeShipments
    \/ ServePricing
    \/ CountTotals
    \/ CountByChannel
    \/ CountByStatus
    \/ CountByStage
    \/ Done
    \/ Place
    \/ Change

Spec == Init /\ [][Next]_vars

-----------------------------------------------------------------------------

\* The types of the variables: the report counts by channel, status and stage.
TypeOK ==
    /\ table \in Seq(Order)
    /\ request.at \in {"none", "auth", "read", "byChannel", "byStatus", "lifecycle",
                       "answered", "refused"}
    /\ request.route \in Route \cup {"none"}
    /\ page \subseteq Stored
    /\ report.total \in Nat
    /\ DOMAIN report.channels \subseteq Channels
    /\ DOMAIN report.statuses \subseteq OrderStatus
    /\ DOMAIN report.stages \subseteq Stage
    /\ moved \in 0..MaxMoves

(***************************************************************************)
(* Whatever route a person without an administrative role tries, and       *)
(* whatever the token says of them, no answer holds an order of someone    *)
(* else, a guest's included, nor counts over them, and no writing route    *)
(* serves them.                                                            *)
(***************************************************************************)
OnlyOwnOrders ==
    request.at # "none" /\ request.caller.roles \cap (InternalRole \cup {"global:superadmin"}) = {}
        => /\ \A o \in page : table[o].owner = request.caller.sub
           /\ \A o \in page : table[o].owner # NoSubject
           /\ report = NoReport
           /\ request.at = "answered" => request.route \notin WriteRoute

\* The rows the caller of a listing may see, of the channel they named, and
\* of these the ones of the stage they named.
Asked ==
    {o \in Stored :
        /\ request.route = "customer" => table[o].owner = request.caller.sub
        /\ request.channel \in {"any", table[o].channel}}

Matching == {o \in Asked : request.stage \in {"any", StageOf(o)}}

(***************************************************************************)
(* A listing skips no order: it holds the newest that match, and one that  *)
(* is left out is left out because the page is full, or because three      *)
(* pages of newer orders of this caller and channel come before it: what   *)
(* others ordered since never hides it.                                    *)
(***************************************************************************)
PageIsNewestMatching ==
    [][request.route \in {"customer", "admin"} /\ request.at = "read" /\ request'.at = "answered"
        => /\ page' \subseteq Matching
           /\ Cardinality(page') <= request.limit
           /\ \A o \in Matching \ page' :
                 /\ \A p \in page' : p > o
                 /\ \/ Cardinality(page') = request.limit
                    \/ Cardinality({p \in Asked : p > o}) >= 3 * request.limit]_vars

(***************************************************************************)
(* The sections of a statistics report, counted by four queries in no      *)
(* transaction, agree with each other when no order changed in between.    *)
(***************************************************************************)
StatisticsAgree ==
    request.at = "answered" /\ request.route = "statistics" /\ moved = 0
        => /\ SumFunction(report.channels) = report.total
           /\ SumFunction(report.statuses) = report.total
           /\ SumFunction(report.stages) =
                 IF report.total < SampleLimit THEN report.total ELSE SampleLimit

=============================================================================
