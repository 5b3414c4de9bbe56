---------------------------- MODULE AdminService ----------------------------
(***************************************************************************)
(* The administrators' reports (AdminService): the dashboard page, the     *)
(* operations overview, the diagnosis of one idempotency key and the       *)
(* status action.  A report asks its queries one after the other, outside  *)
(* any transaction; one request is followed while orders are placed and    *)
(* moved between its awaits.  The detail page is AdminDetail's, the browser *)
(* that shows both AdminConsole's.                                         *)
(***************************************************************************)
EXTENDS StatusTransitions, FiniteSetsExt, Integers, Sequences

CONSTANTS
    AdminActors,    \* sets of roles a signed-in caller may have
    AdminKeys,      \* identities of orders: channel, account, external id
    AdminFilters,   \* what a dashboard request filters by
    LimitTexts,     \* limit parameters: a number, or NoLimit for none or no number
    NoLimit, DefaultLimit, LargestLimit,    \* 100 and 250 in the code
    ActionStatuses, \* what the action form sends
    MaxBook,        \* bound: orders
    MaxParcels,     \* bound: shipments
    MaxDeskMoves    \* bound: changes of the tables while a report is made

VARIABLES
    book,       \* the orders table, newest order last
    parcels,    \* how many rows the shipments table has
    desk,       \* the request being served
    sheet,      \* what it has gathered so far
    offered,    \* the applications a dashboard has offered as a filter
    deskMoves   \* changes of the tables since the first query

adminVars == <<book, parcels, desk, sheet, offered, deskMoves>>

-----------------------------------------------------------------------------

AdminReadRoles ==
    {"global:superadmin", "internal:orders:admin", "internal:orders:readonly",
     "internal:orders:operator"}

AdminActionRoles == {"global:superadmin", "internal:orders:action-admin"}

SourceCatalog ==
    [flipflop |-> [application |-> "FlipFlop Storefront", service |-> "flipflop-service"],
     allegro  |-> [application |-> "Allegro Marketplace", service |-> "allegro-service"],
     aukro    |-> [application |-> "Aukro Marketplace", service |-> "aukro-service"],
     bazos    |-> [application |-> "Bazos Classifieds", service |-> "bazos-service"],
     heureka  |-> [application |-> "Heureka Marketplace", service |-> "heureka-service"],
     cliplot  |-> [application |-> "Cliplot Storefront", service |-> "cliplot"]]

\* A token of an account or an external id may be the bar the keys are joined with.
AdminKey ==
    [channel : DOMAIN SourceCatalog, account : Seq({"a", "b", "|"}), external : Seq({"a", "b", "|"})]

ASSUME AdminAssumption ==
    /\ AdminKeys \subseteq AdminKey
    /\ \A k \in AdminKeys : k.external # <<>>
    /\ LargestLimit \in Nat /\ DefaultLimit \in 1..LargestLimit
    /\ LimitTexts \subseteq Int \cup {NoLimit}
    /\ MaxBook \in Nat /\ MaxParcels \in Nat /\ MaxDeskMoves \in Nat

Unset == ""     \* a filter left empty

ActionCapable(actor) == actor \cap AdminActionRoles # {}

\* normalizeLimit: Number(value || 100), finite, between 1 and the largest.
NormalizeLimit(text) ==
    IF text = NoLimit THEN DefaultLimit ELSE Min({Max({text, 1}), LargestLimit})

Source(key) == SourceCatalog[key.channel]

\* resolveSourceChannels: an application or a service of no channel finds none.
SourceChannels(f) ==
    {c \in DOMAIN SourceCatalog :
        /\ f.application \in {Unset, SourceCatalog[c].application}
        /\ f.service \in {Unset, SourceCatalog[c].service}}

\* applyFilters; from and to are places in the order of creation.
Selected(f) ==
    {n \in DOMAIN book :
        /\ f.state \in {Unset, book[n].status}
        /\ book[n].key.channel \in SourceChannels(f)
        /\ f.channel \in {Unset, book[n].key.channel}
        /\ n >= f.from
        /\ f.search \in {<<>>, book[n].key.account, book[n].key.external}}

NewestSelected(f, limit) ==
    {n \in Selected(f) : Cardinality({p \in Selected(f) : p > n}) < limit}

OpenStates == {"pending", "confirmed", "processing"}

CountOf(states) == Cardinality({n \in DOMAIN book : book[n].status \in states})

-----------------------------------------------------------------------------

Idle == [at |-> "none", filters |-> [state |-> Unset], limit |-> 0]

Blank == [rows |-> {}, matching |-> 0, total |-> 0, open |-> 0, shipped |-> 0,
          delivered |-> 0, applications |-> {}, states |-> {}, duplicates |-> 0]

AdminInit ==
    /\ book = <<>>
    /\ parcels = 0
    /\ desk = Idle
    /\ sheet = Blank
    /\ offered = {}
    /\ deskMoves = 0

\* The guard has let the request through: one of the route's roles suffices.
Admit(roles, at, filters, limit) ==
    /\ desk.at = "none"
    /\ \E actor \in AdminActors : actor \cap roles # {}
    /\ desk' = [at |-> at, filters |-> filters, limit |-> limit]
    /\ sheet' = Blank
    /\ deskMoves' = 0
    /\ UNCHANGED <<book, parcels, offered>>

AskDashboard ==
    \E f \in AdminFilters, text \in LimitTexts :
        Admit(AdminReadRoles, "page", f, NormalizeLimit(text))

AskOverview == Admit(AdminReadRoles, "orders", Idle.filters, 0)

Gather(from, to) ==
    /\ desk.at = from
    /\ desk' = [desk EXCEPT !.at = to]
    /\ UNCHANGED <<book, parcels, deskMoves>>

\* getDashboard: getManyAndCount reads the page and then counts the matches.
ReadPage ==
    /\ Gather("page", "count")
    /\ sheet' = [sheet EXCEPT !.rows = {[id |-> n, key |-> book[n].key, status |-> book[n].status] :
                                          n \in NewestSelected(desk.filters, desk.limit)}]
    /\ UNCHANGED offered

CountMatching ==
    /\ Gather("count", "all")
    /\ sheet' = [sheet EXCEPT !.matching = Cardinality(Selected(desk.filters))]
    /\ UNCHANGED offered

\* getMetrics and getFilterOptions over channel and status of every order.
ReadAll ==
    /\ Gather("all", "dashboard")
    /\ sheet' = [sheet EXCEPT
                    !.total = Len(book),
                    !.open = CountOf(OpenStates),
                    !.shipped = CountOf({"shipped"}),
                    !.delivered = CountOf({"delivered"}),
                    !.applications = {Source(book[n].key).application : n \in DOMAIN book},
                    !.states = {book[n].status : n \in DOMAIN book}]
    /\ UNCHANGED offered

\* Mutant: the summary groups by channel and external id.
JoinedKeyNoAccount(key) == <<key.channel, "|">> \o key.external

\* getIdempotencySummary joins the three parts of a key with a bar.
JoinedKey(key) == <<key.channel, "|">> \o key.account \o <<"|">> \o key.external

\* getOperationsOverview
ReadOrders ==
    /\ Gather("orders", "shipments")
    /\ sheet' = [sheet EXCEPT
                    !.total = Len(book),
                    !.open = CountOf(OpenStates),
                    !.duplicates = Cardinality(
                        {k \in {JoinedKey(book[n].key) : n \in DOMAIN book} :
                            Cardinality({n \in DOMAIN book : JoinedKey(book[n].key) = k}) > 1})]
    /\ UNCHANGED offered

CountShipments ==
    /\ Gather("shipments", "overview")
    /\ sheet' = [sheet EXCEPT !.delivered = parcels]
    /\ UNCHANGED offered

\* getIdempotencyDiagnostics; without an account every account's orders match.
Diagnose ==
    \E k \in AdminKeys, anyAccount \in BOOLEAN :
        /\ desk.at = "none"
        /\ \E actor \in AdminActors : actor \cap AdminReadRoles # {}
        /\ desk' = [at |-> IF anyAccount THEN "anyAccount" ELSE "oneKey",
                    filters |-> Idle.filters, limit |-> 25]
        /\ sheet' = [Blank EXCEPT !.rows =
                        {[id |-> n, key |-> book[n].key, status |-> book[n].status] :
                            n \in {m \in DOMAIN book :
                                      /\ book[m].key.channel = k.channel
                                      /\ book[m].key.external = k.external
                                      /\ anyAccount \/ book[m].key.account = k.account}}]
        /\ deskMoves' = 0
        /\ UNCHANGED <<book, parcels, offered>>

\* applyOrderStatusAction; updateStatus, whose awaits OrderProcessing models,
\* stores a status the transition rules accept for the order as it is.
ApplyOrderStatusAction ==
    /\ desk.at = "none"
    /\ \E actor \in AdminActors, n \in DOMAIN book, status \in ActionStatuses :
          /\ actor \cap AdminActionRoles # {}
          /\ ActionCapable(actor)
          /\ OrderTransitionAccepted(book[n].status, status, book[n].items, FullApproval(NoKey))
          /\ book' = [book EXCEPT ![n].status = status]
          /\ desk' = [Idle EXCEPT !.at = "action"]
    /\ UNCHANGED <<parcels, sheet, offered, deskMoves>>

\* getActionCatalog's workflow and the statuses it takes.
CatalogStatuses == {"confirmed", "processing", "shipped", "delivered", "cancelled"}

\* The workflow is shown disabled, here without statuses, to read-only roles.
GetActionCatalog ==
    /\ desk.at = "none"
    /\ \E actor \in AdminActors :
          /\ actor \cap AdminReadRoles # {}
          /\ desk' = [Idle EXCEPT !.at = "catalog"]
          /\ sheet' = [Blank EXCEPT !.states = IF ActionCapable(actor) THEN CatalogStatuses ELSE {}]
    /\ deskMoves' = 0
    /\ UNCHANGED <<book, parcels, offered>>

Answered == desk.at \in {"dashboard", "overview", "anyAccount", "oneKey", "catalog", "action"}

CloseReport ==
    /\ Answered
    /\ desk' = Idle
    /\ sheet' = Blank
    /\ deskMoves' = 0
    /\ offered' = offered \cup sheet.applications
    /\ UNCHANGED <<book, parcels>>

-----------------------------------------------------------------------------

\* Other requests go on meanwhile; what they do after the answer is left out.
Others ==
    /\ ~Answered
    /\ desk.at # "none" => deskMoves < MaxDeskMoves
    /\ deskMoves' = IF desk.at = "none" THEN 0 ELSE deskMoves + 1
    /\ UNCHANGED <<desk, sheet, offered>>

\* The unique index keeps one order per identity.
PlaceOrder ==
    /\ Others
    /\ Len(book) < MaxBook
    /\ \E k \in AdminKeys, s \in {"pending", "confirmed"} :
          /\ \A n \in DOMAIN book : book[n].key # k
          /\ book' = Append(book, [key |-> k, status |-> s, items |-> <<"pending">>])
    /\ UNCHANGED parcels

MoveOrder ==
    /\ Others
    /\ \E n \in DOMAIN book, s \in ActionStatuses :
          /\ StatusStep(book[n].status, s)
          /\ book' = [book EXCEPT ![n].status = s]
    /\ UNCHANGED parcels

AddParcel ==
    /\ Others
    /\ parcels < MaxParcels
    /\ parcels' = parcels + 1
    /\ UNCHANGED book

AdminNext ==
    \/ AskDashboard
    \/ ReadPage
    \/ CountMatching
    \/ ReadAll
    \/ AskOverview
    \/ ReadOrders
    \/ CountShipments
    \/ Diagnose
    \/ GetActionCatalog
    \/ ApplyOrderStatusAction
    \/ CloseReport
    \/ PlaceOrder
    \/ MoveOrder
    \/ AddParcel

AdminSpec == AdminInit /\ [][AdminNext]_adminVars

-----------------------------------------------------------------------------

Bars(key) == \E part \in {key.account, key.external} : \E j \in DOMAIN part : part[j] = "|"

DashboardCoherent ==
    LET f == desk.filters
    IN  desk.at = "dashboard" =>
            /\ sheet.matching <= sheet.total
            /\ Cardinality(sheet.rows) <= LargestLimit
            /\ {Source(r.key).application : r \in sheet.rows} \subseteq sheet.applications
            /\ f.state = Unset => Cardinality(sheet.rows) <= sheet.matching
            /\ f \in [application : offered, service : {Unset}, state : {Unset}, channel : {Unset},
                      from : {0}, search : {<<>>}] => sheet.rows # {}
            /\ deskMoves = 0 =>
                  /\ Cardinality(sheet.rows) = Min({desk.limit, sheet.matching})
                  /\ {r.status : r \in sheet.rows} \subseteq sheet.states

NoFalseDuplicates ==
    /\ desk.at = "oneKey" => Cardinality(sheet.rows) <= 1
    /\ desk.at = "overview" =>
          2 * sheet.duplicates <= Cardinality({n \in DOMAIN book : Bars(book[n].key)})

\* A status is offered just if some transition of the table leads to it.
CatalogComplete ==
    desk.at = "catalog" /\ sheet.states # {} =>
        sheet.states = {s \in OrderStatus : \E from \in OrderStatus \ {s} : StatusStep(from, s)}

(***************************************************************************)
(* Although its queries see different moments, a dashboard never counts    *)
(* more matches than orders, shows no source it does not offer as a        *)
(* filter, and finds orders for an application it has offered before; when *)
(* nothing moved, it shows as many rows as match or the limit allows.  The *)
(* overview reports a duplicated key only where two orders have an account *)
(* or external id with the bar it joins keys with, and a diagnosis of a    *)
(* whole key finds one order at most.  The catalog of actions offers the   *)
(* statuses an order can be moved to, and no other.                        *)
(***************************************************************************)
ReportsAddUp == DashboardCoherent /\ NoFalseDuplicates /\ CatalogComplete

=============================================================================
