--------------------------- MODULE OrderReads_proofs ---------------------------
(***************************************************************************)
(* Theorems about OrderReads for every set of callers, stored orders and   *)
(* filters and for any number of orders and changes, with TLAPS.           *)
(***************************************************************************)
EXTENDS OrderReads, FiniteSetTheorems, WellFoundedInduction, TLAPS

-----------------------------------------------------------------------------

\* A person: no role of a service and no administrative one.
IsPerson(caller) == caller.roles \cap (InternalRole \cup {"global:superadmin"}) = {}

CountingAt == {"byChannel", "byStatus", "lifecycle"}

\* The request and the report have the fields they start with.
Shapes ==
    /\ request = [at |-> request.at, route |-> request.route, caller |-> request.caller,
                  stage |-> request.stage, channel |-> request.channel,
                  limit |-> request.limit]
    /\ report = [total |-> report.total, channels |-> report.channels,
                 statuses |-> report.statuses, stages |-> report.stages]
    /\ request.at # "none" => request.route \in Route /\ request.limit \in Limits

\* Statistics are counted for their route; nothing is answered before the end.
Progress ==
    /\ request.at \in CountingAt => request.route = "statistics"
    /\ request.at # "answered" => page = {}
    /\ report # NoReport => /\ request.route = "statistics"
                            /\ request.at \in CountingAt \cup {"answered"}
    /\ request.route = "statistics" => page = {}

\* Past the guard, a person is on the one route open to the signed in.
PeopleOnOwnRoute ==
    request.at \notin {"none", "auth", "refused"} /\ IsPerson(request.caller)
        => request.route = "customer"

\* A customer's answer is for a subject and from that subject's orders.
CustomerAnswer ==
    request.at = "answered" /\ request.route = "customer"
        => /\ request.caller.sub # NoSubject
           /\ \A o \in page : table[o].owner = request.caller.sub

ReadsInvariant ==
    /\ TypeOK
    /\ Shapes
    /\ Progress
    /\ PeopleOnOwnRoute
    /\ CustomerAnswer

-----------------------------------------------------------------------------

(***************************************************************************)
(* The guard and the pure functions.                                       *)
(***************************************************************************)

\* canActivate lets a person pass on the customer route only.
LEMMA PersonPermitted ==
    ASSUME NEW caller, NEW route \in Route, IsPerson(caller), Permitted(caller, route)
    PROVE  route = "customer"
<1>1. route # "customer" =>
         RequiredRoles[route] \subseteq InternalRole \cup {"global:superadmin"}
  BY DEF RequiredRoles, Route, ReadRoute, WriteRoute, OrdersRole, ChannelRole, InternalRole,
         OrdersAdmins, ChannelOrderCreateRoles, WarehouseUpdateRoles, StatusUpdateRoles,
         PricingAdminRoles
<1>2. "authenticated:user" \notin InternalRole \cup {"global:superadmin"}
  BY DEF InternalRole, OrdersRole, ChannelRole
<1> QED
  BY <1>1, <1>2 DEF IsPerson, Permitted

\* The stage derived for a stored order is one of the stages.
LEMMA StageType ==
    ASSUME NEW order \in Order, NEW its
    PROVE  DeriveStage(order, its) \in Stage
<1>1. order.fulfillment \in FulfillmentStatus \cup {"none"}
  BY DEF Order
<1>2. \A f \in FulfillmentStatus : FulfillmentStage[f] \in Stage
  BY DEF FulfillmentStage, FulfillmentStatus, Stage
<1> QED
  BY <1>1, <1>2 DEF DeriveStage, Stage

\* The rows of the table are finitely many orders.
LEMMA StoredOrders ==
    ASSUME table \in Seq(Order)
    PROVE  /\ IsFiniteSet(Stored)
           /\ \A o \in Stored : table[o] \in Order
<1>1. Stored = 1..Len(table) /\ Len(table) \in Nat
  BY DEF Stored
<1>2. IsFiniteSet(1..Len(table))
  BY <1>1, FS_Interval
<1> QED
  BY <1>1, <1>2

LEMMA SoldFinite ==
    ASSUME table \in Seq(Order)
    PROVE  Cardinality(Sold) \in Nat
<1>1. Sold \subseteq Stored
  BY DEF Sold
<1> QED
  BY <1>1, StoredOrders, FS_Subset, FS_CardinalityType

\* A listing answers with stored orders within its scope.
LEMMA PageInScope == Page \subseteq Scope
BY DEF Page, Newest

LEMMA ScopeIsStored == Scope \subseteq Stored
BY DEF Scope

-----------------------------------------------------------------------------

(***************************************************************************)
(* The newest n of a set of orders, which are numbered by date.            *)
(***************************************************************************)

Above(orders, o) == {p \in orders : p > o}

\* A set of orders: a set of numbers up to some last.
Orderly(orders, last) == last \in Nat /\ orders \subseteq 1..last

LEMMA OldestOf ==
    ASSUME NEW T \in SUBSET Nat, T # {}
    PROVE  \E m \in T : \A x \in T : m <= x
<1> DEFINE R == OpToRel(<, Nat)
<1>1. IsWellFoundedOn(R, Nat)
  BY NatLessThanWellFounded
<1>2. \A x, y \in Nat : x < y => <<x, y>> \in R
  BY DEF OpToRel
<1> HIDE DEF R
<1>3. PICK m \in T : \A x \in T : <<x, m>> \notin R
  BY <1>1, WFMin
<1>4. ASSUME NEW x \in T
      PROVE  m <= x
  <2>1. x \in Nat /\ m \in Nat
    OBVIOUS
  <2>2. ~(x < m)
    BY <1>2, <1>3, <2>1
  <2> QED
    BY <2>1, <2>2
<1> QED
  BY <1>4

LEMMA NewestOf ==
    ASSUME NEW orders, NEW last, Orderly(orders, last), orders # {}
    PROVE  \E m \in orders : \A x \in orders : x <= m
<1> DEFINE T == {k \in Nat : last - k \in orders}
<1>1. \A o \in orders : last - o \in T
  BY DEF Orderly
<1>2. T # {} /\ T \in SUBSET Nat
  BY <1>1
<1>3. PICK k \in T : \A x \in T : k <= x
  BY <1>2, OldestOf
<1>4. \A x \in orders : x <= last - k
  BY <1>1, <1>3 DEF Orderly
<1> QED
  BY <1>3, <1>4

LEMMA OrdersFinite ==
    ASSUME NEW orders, NEW last, Orderly(orders, last)
    PROVE  /\ IsFiniteSet(orders)
           /\ Cardinality(orders) \in Nat
           /\ \A T \in SUBSET orders : /\ Orderly(T, last)
                                       /\ IsFiniteSet(T)
                                       /\ Cardinality(T) \in Nat
                                       /\ Cardinality(T) <= Cardinality(orders)
<1>1. IsFiniteSet(1..last)
  BY FS_Interval DEF Orderly
<1>2. IsFiniteSet(orders)
  BY <1>1, FS_Subset DEF Orderly
<1> QED
  BY <1>2, FS_Subset, FS_CardinalityType DEF Orderly

\* An order that is not among the newest is older than all that are.
LEMMA NewestFirst ==
    ASSUME NEW orders, NEW last, Orderly(orders, last), NEW n \in Nat,
           NEW o \in orders \ Newest(orders, n), NEW p \in Newest(orders, n)
    PROVE  p > o
<1>1. Cardinality(Above(orders, o)) >= n /\ Cardinality(Above(orders, p)) < n
  <2>1. Cardinality(Above(orders, o)) \in Nat
    BY OrdersFinite DEF Above
  <2> QED
    BY <2>1 DEF Newest, Above
<1>2. ASSUME p <= o
      PROVE  FALSE
  <2>0. p \in orders /\ \A x \in orders : x \in Int
    BY DEF Newest, Orderly
  <2>1. ASSUME NEW x \in Above(orders, o)
        PROVE  x \in Above(orders, p)
    BY <1>2, <2>0 DEF Above
  <2>2. Orderly(Above(orders, p), last)
    BY DEF Above, Orderly
  <2>3. Cardinality(Above(orders, o)) <= Cardinality(Above(orders, p))
    BY <2>1, <2>2, OrdersFinite
  <2>4. Cardinality(Above(orders, o)) \in Nat /\ Cardinality(Above(orders, p)) \in Nat
    BY <2>1, <2>2, OrdersFinite
  <2> QED
    BY <1>1, <2>3, <2>4
<1> QED
  BY <1>2 DEF Newest, Orderly

\* There are no more than n of them, and n if there are so many orders.
LEMMA NewestSize ==
    ASSUME NEW orders, NEW last, Orderly(orders, last), NEW n \in Nat
    PROVE  /\ Cardinality(Newest(orders, n)) <= n
           /\ Cardinality(orders) >= n => Cardinality(Newest(orders, n)) = n
<1> DEFINE N == Newest(orders, n)
<1>1. N \subseteq orders
  BY DEF Newest
<1>2. /\ Orderly(N, last)
      /\ IsFiniteSet(N)
      /\ Cardinality(N) \in Nat
      /\ Cardinality(orders) \in Nat
  BY <1>1, OrdersFinite
<1>3. \A o \in orders : /\ Cardinality(Above(orders, o)) \in Nat
                        /\ Cardinality(Above(orders, o)) < n => o \in N
                        /\ o \in N => Cardinality(Above(orders, o)) < n
  BY OrdersFinite DEF Newest, Above
<1> HIDE DEF N
<1>4. Cardinality(N) <= n
  <2>1. CASE N = {}
    BY <2>1, FS_EmptySet
  <2>2. CASE N # {}
    <3>0. N \in SUBSET Nat
      BY <1>2 DEF Orderly
    <3>1. PICK m \in N : \A x \in N : m <= x
      BY <2>2, <3>0, OldestOf
    <3>2. N \ {m} \subseteq Above(orders, m)
      BY <1>1, <3>0, <3>1 DEF Above
    <3>3. Orderly(Above(orders, m), last)
      BY DEF Above, Orderly
    <3>4. Cardinality(N \ {m}) <= Cardinality(Above(orders, m))
      BY <3>2, <3>3, OrdersFinite
    <3>5. Cardinality(N \ {m}) = Cardinality(N) - 1
      BY <1>2, FS_RemoveElement
    <3> QED
      BY <1>1, <1>2, <1>3, <3>4, <3>5
  <2> QED
    BY <2>1, <2>2
<1>5. ASSUME Cardinality(orders) >= n, Cardinality(N) < n
      PROVE  FALSE
  <2>1. orders \ N # {}
    BY <1>1, <1>2, <1>5
  <2>2. Orderly(orders \ N, last)
    BY DEF Orderly
  <2>3. PICK m \in orders \ N : \A x \in orders \ N : x <= m
    BY <2>1, <2>2, NewestOf
  <2>4. ASSUME NEW x \in Above(orders, m)
        PROVE  x \in N
    <3>1. m \in Int /\ x \in Int /\ x \in orders /\ x > m
      BY DEF Above, Orderly
    <3>2. ~(x <= m)
      BY <3>1
    <3> QED
      BY <2>3, <3>1, <3>2
  <2>5. Cardinality(Above(orders, m)) <= Cardinality(N)
    BY <1>2, <2>4, OrdersFinite
  <2> QED
    BY <1>2, <1>3, <1>5, <2>3, <2>5
<1> QED
  BY <1>2, <1>4, <1>5 DEF N

-----------------------------------------------------------------------------

(***************************************************************************)
(* The invariant.                                                          *)
(***************************************************************************)

LEMMA InitInvariant == Init => ReadsInvariant
<1> SUFFICES ASSUME Init
             PROVE  ReadsInvariant
  OBVIOUS
<1>1. table \in Seq(Order)
  BY DEF Init
<1>2. DOMAIN <<>> = {}
  OBVIOUS
<1>3. 0 \in 0..MaxMoves
  BY ReadsAssumption
<1> QED
  BY <1>1, <1>2, <1>3
     DEF Init, NoRequest, NoReport, ReadsInvariant, TypeOK, Shapes, Progress, PeopleOnOwnRoute,
         CustomerAnswer, CountingAt

\* Passing a request on, with nothing counted and no page yet.
LEMMA AdvanceStep ==
    ASSUME ReadsInvariant, NEW from, NEW to \in {"read", "refused", "answered"},
           Advance(from, to), from \in {"auth", "read"},
           to = "read" /\ IsPerson(request.caller) => request.route = "customer",
           to = "answered" => from = "read" /\ request.route \in WriteRoute
    PROVE  ReadsInvariant'
<1>1. /\ request'.at = to
      /\ request'.route = request.route
      /\ request'.caller = request.caller
  BY DEF ReadsInvariant, Shapes, Advance
<1>2. Shapes'
  BY <1>1 DEF ReadsInvariant, Shapes, Advance
<1>3. TypeOK'
  BY <1>1 DEF ReadsInvariant, TypeOK, Advance, Stored
<1>4. Progress' /\ PeopleOnOwnRoute' /\ CustomerAnswer'
  BY <1>1
     DEF ReadsInvariant, Progress, PeopleOnOwnRoute, CustomerAnswer, Advance, CountingAt, IsPerson,
         WriteRoute
<1> QED
  BY <1>2, <1>3, <1>4 DEF ReadsInvariant

\* Answering a request with stored orders, a customer's with their own.
LEMMA AnswerStep ==
    ASSUME ReadsInvariant, NEW orders \in SUBSET Stored, Answer(orders),
           request.route # "statistics",
           request.route = "customer" => /\ request.caller.sub # NoSubject
                                         /\ \A o \in orders : table[o].owner = request.caller.sub
    PROVE  ReadsInvariant'
<1>1. /\ request'.at = "answered"
      /\ request'.route = request.route
      /\ request'.caller = request.caller
  BY DEF ReadsInvariant, Shapes, Answer
<1>2. Shapes'
  BY <1>1 DEF ReadsInvariant, Shapes, Answer
<1>3. TypeOK'
  BY <1>1 DEF ReadsInvariant, TypeOK, Answer, Stored
<1>4. Progress' /\ PeopleOnOwnRoute' /\ CustomerAnswer'
  BY <1>1
     DEF ReadsInvariant, Progress, PeopleOnOwnRoute, CustomerAnswer, Answer, CountingAt, IsPerson
<1> QED
  BY <1>2, <1>3, <1>4 DEF ReadsInvariant

\* One query of the statistics: its section of the report is well typed.
LEMMA ContinueStep ==
    ASSUME ReadsInvariant, NEW from, NEW to \in CountingAt \cup {"answered"},
           Continue(from, to), from \in CountingAt \cup {"read"},
           request.route = "statistics", moved' \in 0..MaxMoves,
           report' = [total |-> report'.total, channels |-> report'.channels,
                      statuses |-> report'.statuses, stages |-> report'.stages],
           report'.total \in Nat,
           DOMAIN report'.channels \subseteq Channels,
           DOMAIN report'.statuses \subseteq OrderStatus,
           DOMAIN report'.stages \subseteq Stage
    PROVE  ReadsInvariant'
<1>1. /\ request'.at = to
      /\ request'.route = "statistics"
      /\ request'.caller = request.caller
  BY DEF ReadsInvariant, Shapes, Continue
<1>2. Shapes'
  <2>1. request.at # "none"
    BY DEF Continue, CountingAt
  <2> QED
    BY <1>1, <2>1 DEF ReadsInvariant, Shapes, Continue, Route, ReadRoute
<1>3. TypeOK'
  BY <1>1 DEF ReadsInvariant, TypeOK, Continue, Stored, CountingAt, Route
<1>4. Progress' /\ PeopleOnOwnRoute' /\ CustomerAnswer'
  BY <1>1
     DEF ReadsInvariant, Progress, PeopleOnOwnRoute, CustomerAnswer, Continue, CountingAt, IsPerson
<1> QED
  BY <1>2, <1>3, <1>4 DEF ReadsInvariant

\* The table changes only while nothing is answered.
LEMMA TableStep ==
    ASSUME ReadsInvariant, Meanwhile, table' \in Seq(Order)
    PROVE  ReadsInvariant'
<1>1. page = {}
  BY DEF ReadsInvariant, Progress, Meanwhile
<1>2. moved' \in 0..MaxMoves
  BY ReadsAssumption DEF ReadsInvariant, TypeOK, Meanwhile
<1>3. TypeOK'
  BY <1>1, <1>2 DEF ReadsInvariant, TypeOK, Meanwhile
<1>4. Shapes' /\ Progress' /\ PeopleOnOwnRoute' /\ CustomerAnswer'
  BY <1>1
     DEF ReadsInvariant, Shapes, Progress, PeopleOnOwnRoute, CustomerAnswer, Meanwhile, IsPerson
<1> QED
  BY <1>3, <1>4 DEF ReadsInvariant

LEMMA StepInvariant == ReadsInvariant /\ [Next]_vars => ReadsInvariant'
<1> SUFFICES ASSUME ReadsInvariant, [Next]_vars
             PROVE  ReadsInvariant'
  OBVIOUS
<1>t. /\ table \in Seq(Order)
      /\ TypeOK
      /\ Shapes
  BY DEF ReadsInvariant, TypeOK
<1>1. CASE Ask
  <2>1. PICK route \in Route, c \in Callers, stage \in Stages \cup {"any"},
             channel \in Channels \cup {"any"}, n \in Limits :
             request' = [at |-> "auth", route |-> route, caller |-> c,
                         stage |-> stage, channel |-> channel, limit |-> n]
    BY <1>1 DEF Ask
  <2>2. request.at = "none" /\ UNCHANGED <<table, page, report, moved>>
    BY <1>1 DEF Ask
  <2>3. report = NoReport /\ page = {}
    BY <2>2 DEF ReadsInvariant, Progress, CountingAt
  <2>4. request'.at = "auth" /\ request'.route \in Route
    BY <2>1
  <2>5. Shapes'
    BY <1>t, <2>1, <2>2 DEF Shapes
  <2>6. TypeOK'
    BY <1>t, <2>2, <2>4 DEF TypeOK, Stored
  <2>7. Progress' /\ PeopleOnOwnRoute' /\ CustomerAnswer'
    BY <2>2, <2>3, <2>4 DEF Progress, PeopleOnOwnRoute, CustomerAnswer, CountingAt, NoReport
  <2> QED
    BY <2>5, <2>6, <2>7 DEF ReadsInvariant
<1>2. CASE Unauthorized \/ Forbid
  BY <1>2, AdvanceStep DEF Unauthorized, Forbid
<1>3. CASE Authorize
  <2>1. request.at = "auth"
    BY <1>3 DEF Authorize, Advance
  <2> QED
    BY <1>3, <1>t, <2>1, AdvanceStep, PersonPermitted DEF Authorize, Shapes
<1>4. CASE CustomerLifecycle
  <2>1. CASE HasSubject /\ Answer(Page)
    <3>1. Page \subseteq Stored /\ \A o \in Page : table[o].owner = request.caller.sub
      BY <1>4, PageInScope, ScopeIsStored DEF CustomerLifecycle, Scope
    <3> QED
      BY <1>4, <2>1, <3>1, AnswerStep DEF CustomerLifecycle, HasSubject
  <2>2. CASE ~HasSubject /\ Advance("read", "refused")
    BY <2>2, AdvanceStep
  <2> QED
    BY <1>4, <2>1, <2>2 DEF CustomerLifecycle
<1>5. CASE AdminLifecycle
  BY <1>5, AnswerStep, PageInScope, ScopeIsStored DEF AdminLifecycle
<1>6. CASE FindAll
  <2>1. Newest(Scope, 100) \subseteq Stored
    BY ScopeIsStored DEF Newest
  <2> QED
    BY <1>6, <2>1, AnswerStep DEF FindAll
<1>7. CASE FindOne
  BY <1>7, AnswerStep, AdvanceStep DEF FindOne
<1>8. CASE FindParts
  BY <1>8, AnswerStep DEF FindParts
<1>9. CASE ServeOrder \/ ServeItems \/ ServeShipments \/ ServePricing
  BY <1>9, AdvanceStep DEF ServeOrder, ServeItems, ServeShipments, ServePricing, WriteRoute
<1>10. CASE CountTotals
  <2>1. Cardinality(Sold) \in Nat
    BY <1>t, SoldFinite
  <2>2. report' = [total |-> Cardinality(Sold), channels |-> <<>>, statuses |-> <<>>,
                   stages |-> <<>>]
    BY <1>10 DEF CountTotals, NoReport
  <2>3. moved' \in 0..MaxMoves
    BY <1>10, ReadsAssumption DEF CountTotals
  <2>4. DOMAIN <<>> = {}
    OBVIOUS
  <2>5. Continue("read", "byChannel") /\ request.route = "statistics"
    BY <1>10 DEF CountTotals
  <2>6. "read" \in CountingAt \cup {"read"} /\ "byChannel" \in CountingAt \cup {"answered"}
    BY DEF CountingAt
  <2>7. /\ report' = [total |-> report'.total, channels |-> report'.channels,
                      statuses |-> report'.statuses, stages |-> report'.stages]
        /\ report'.total \in Nat
        /\ DOMAIN report'.channels \subseteq Channels
        /\ DOMAIN report'.statuses \subseteq OrderStatus
        /\ DOMAIN report'.stages \subseteq Stage
    BY <2>1, <2>2, <2>4
  <2> QED
    BY <2>3, <2>5, <2>6, <2>7, ContinueStep
<1>11. CASE CountByChannel
  <2> DEFINE counts == Count([o \in Sold |-> table[o].channel])
  <2>1. DOMAIN counts \subseteq Channels
    BY <1>t, StoredOrders DEF Count, Sold, Order
  <2> HIDE DEF counts
  <2>2. report' = [report EXCEPT !.channels = counts] /\ moved' = moved
    BY <1>11 DEF CountByChannel, counts
  <2>3. request.at = "byChannel" /\ request.route = "statistics"
    BY <1>11 DEF CountByChannel, Continue, ReadsInvariant, Progress, CountingAt
  <2> QED
    BY <1>11, <1>t, <2>1, <2>2, <2>3, ContinueStep
       DEF CountByChannel, Shapes, TypeOK, CountingAt
<1>12. CASE CountByStatus
  <2> DEFINE counts == Count([o \in Sold |-> table[o].status])
  <2>1. DOMAIN counts \subseteq OrderStatus
    BY <1>t, StoredOrders DEF Count, Sold, Order
  <2> HIDE DEF counts
  <2>2. report' = [report EXCEPT !.statuses = counts] /\ moved' = moved
    BY <1>12 DEF CountByStatus, counts
  <2>3. request.at = "byStatus" /\ request.route = "statistics"
    BY <1>12 DEF CountByStatus, Continue, ReadsInvariant, Progress, CountingAt
  <2> QED
    BY <1>12, <1>t, <2>1, <2>2, <2>3, ContinueStep
       DEF CountByStatus, Shapes, TypeOK, CountingAt
<1>13. CASE CountByStage
  <2> DEFINE counts == Count([o \in Sample |-> SoldStage(o)])
  <2>1. DOMAIN counts \subseteq Stage
    <3>1. \A o \in Sample : SoldStage(o) \in Stage
      BY <1>t, StoredOrders, StageType DEF Sample, Newest, SoldStage
    <3> QED
      BY <3>1 DEF Count
  <2> HIDE DEF counts
  <2>2. report' = [report EXCEPT !.stages = counts] /\ moved' = moved
    BY <1>13 DEF CountByStage, counts
  <2>3. request.at = "lifecycle" /\ request.route = "statistics"
    BY <1>13 DEF CountByStage, Continue, ReadsInvariant, Progress, CountingAt
  <2> QED
    BY <1>13, <1>t, <2>1, <2>2, <2>3, ContinueStep
       DEF CountByStage, Shapes, TypeOK, CountingAt
<1>14. CASE Done
  <2>1. DOMAIN <<>> = {}
    OBVIOUS
  <2>2. 0 \in 0..MaxMoves
    BY ReadsAssumption
  <2> QED
    BY <1>14, <1>t, <2>1, <2>2
       DEF Done, NoRequest, NoReport, ReadsInvariant, TypeOK, Shapes, Progress,
           PeopleOnOwnRoute, CustomerAnswer, CountingAt
<1>15. CASE Place
  <2>1. table' \in Seq(Order)
    BY <1>15, <1>t, ReadsAssumption DEF Place
  <2> QED
    BY <1>15, <2>1, TableStep DEF Place
<1>16. CASE Change
  <2>1. PICK o \in Stored, new \in Orders : table' = [table EXCEPT ![o] = new]
    BY <1>16 DEF Change
  <2>2. table' \in Seq(Order)
    BY <1>t, <2>1, ReadsAssumption DEF Stored
  <2> QED
    BY <1>16, <2>2, TableStep DEF Change
<1>17. CASE UNCHANGED vars
  BY <1>17
     DEF vars, ReadsInvariant, TypeOK, Shapes, Progress, PeopleOnOwnRoute, CustomerAnswer, Stored,
         IsPerson
<1> QED
  BY <1>1, <1>2, <1>3, <1>4, <1>5, <1>6, <1>7, <1>8, <1>9, <1>10,
     <1>11, <1>12, <1>13, <1>14, <1>15, <1>16, <1>17 DEF Next

LEMMA InvariantHolds == Spec => []ReadsInvariant
BY InitInvariant, StepInvariant, PTL DEF Spec

-----------------------------------------------------------------------------

(***************************************************************************)
(* Type correctness of the read routes: pages hold stored orders and every *)
(* section of a report counts by what it says it counts by.                *)
(***************************************************************************)
THEOREM TypeCorrect == Spec => []TypeOK
<1>1. ReadsInvariant => TypeOK
  BY DEF ReadsInvariant
<1> QED
  BY <1>1, InvariantHolds, PTL

(***************************************************************************)
(* JwtRolesGuard and the customer listing: whatever roles and marks a      *)
(* token carries, a person is answered from their own orders only.         *)
(***************************************************************************)
THEOREM OwnOrdersOnly == Spec => []OnlyOwnOrders
<1>1. ReadsInvariant => OnlyOwnOrders
  BY DEF ReadsInvariant, Progress, PeopleOnOwnRoute, CustomerAnswer, OnlyOwnOrders, IsPerson,
         CountingAt, WriteRoute
<1> QED
  BY <1>1, InvariantHolds, PTL

(***************************************************************************)
(* buildLifecycleQuery and filterLifecycleModels: although the filter by   *)
(* stage runs after the rows were cut to three pages, a listing holds the  *)
(* newest orders that match, and leaves one out only behind a full page or *)
(* behind three pages of newer rows of the caller's own scope, which are   *)
(* the rows it has looked at.                                              *)
(***************************************************************************)
THEOREM NothingSkipped == Spec => PageIsNewestMatching
<1> DEFINE Answering == /\ request.route \in {"customer", "admin"}
                        /\ request.at = "read"
                        /\ request'.at = "answered"
<1>1. ASSUME ReadsInvariant, [Next]_vars, Answering
      PROVE  /\ page' \subseteq Matching
             /\ Cardinality(page') <= request.limit
             /\ \A o \in Matching \ page' :
                   /\ \A p \in page' : p > o
                   /\ \/ Cardinality(page') = request.limit
                      \/ Cardinality({p \in Asked : p > o}) >= 3 * request.limit
  <2>1. page' = Page
    BY <1>1
       DEF Next, vars, Ask, Unauthorized, Authorize, Forbid, Advance, CustomerLifecycle,
           AdminLifecycle, FindAll, FindOne, FindParts, Answer, ServeOrder, ServeItems,
           ServeShipments, ServePricing, CountTotals, CountByChannel, CountByStatus,
           CountByStage, Continue, Done, Place, Change, Meanwhile, ReadsInvariant, Shapes
  <2> DEFINE limit == request.limit
             last == Len(table)
             rows == Newest(Scope, Window)
             found == {o \in rows : request.stage \in {"any", StageOf(o)}}
  <2>2. limit \in Nat /\ Window \in Nat
        /\ (Window = limit \/ Window = 3 * limit)
        /\ (request.stage = "any" => Window = limit)
        /\ (request.stage # "any" => Window = 3 * limit)
    BY <1>1, ReadsAssumption DEF ReadsInvariant, Shapes, Window
  <2>3. Orderly(Stored, last) /\ Orderly(Scope, last) /\ Orderly(rows, last)
        /\ Orderly(found, last)
    BY <1>1 DEF ReadsInvariant, TypeOK, Stored, Orderly, Scope, Newest
  <2>4. Page = Newest(found, limit)
    BY DEF Page
  <2>5. Asked = Scope /\ Matching = {o \in Scope : request.stage \in {"any", StageOf(o)}}
    BY DEF Matching, Asked, Scope
  <2>6. found \subseteq rows /\ rows \subseteq Scope /\ Scope \subseteq Stored
        /\ Page \subseteq found
    BY <2>4 DEF Newest, Scope
  <2>7. found = rows \cap Matching
    BY <2>5, <2>6
  <2>8. request.stage = "any" => found = rows
    OBVIOUS
  <2>9. Cardinality(Page) <= limit
    BY <2>2, <2>3, <2>4, NewestSize
  <2> HIDE DEF limit, last, rows, found
  <2>10. ASSUME NEW o \in Matching \ Page
         PROVE  /\ \A p \in Page : p > o
                /\ \/ Cardinality(Page) = limit
                   \/ Cardinality(Above(Scope, o)) >= 3 * limit
    <3>1. CASE o \in found
      <4>1. \A p \in Page : p > o
        BY <2>2, <2>3, <2>4, <2>10, <3>1, NewestFirst
      <4>2. Cardinality(Above(found, o)) >= limit
        <5>1. Cardinality(Above(found, o)) \in Nat
          BY <2>3, OrdersFinite DEF Above
        <5> QED
          BY <2>2, <2>4, <2>10, <3>1, <5>1 DEF Newest, Above
      <4>3. Cardinality(found) >= limit
        <5>1. /\ Cardinality(Above(found, o)) <= Cardinality(found)
              /\ Cardinality(Above(found, o)) \in Nat
              /\ Cardinality(found) \in Nat
          BY <2>3, OrdersFinite DEF Above
        <5> QED
          BY <2>2, <4>2, <5>1
      <4> QED
        BY <2>2, <2>3, <2>4, <4>1, <4>3, NewestSize
    <3>2. CASE o \notin found
      <4>1. o \in Scope \ rows
        BY <2>5, <2>7, <2>10, <3>2
      <4>2. \A p \in Page : p > o
        BY <2>2, <2>3, <2>6, <4>1, NewestFirst DEF rows
      <4>3. Cardinality(Above(Scope, o)) >= Window
        <5>1. Cardinality(Above(Scope, o)) \in Nat
          BY <2>3, OrdersFinite DEF Above
        <5> QED
          BY <2>2, <4>1, <5>1 DEF Newest, Above, rows
      <4>4. CASE request.stage = "any"
        <5>1. /\ Cardinality(Above(Scope, o)) <= Cardinality(Scope)
              /\ Cardinality(Above(Scope, o)) \in Nat
              /\ Cardinality(Scope) \in Nat
          BY <2>3, OrdersFinite DEF Above
        <5>2. Cardinality(found) = limit
          BY <2>2, <2>3, <2>8, <4>3, <4>4, <5>1, NewestSize DEF rows
        <5>3. Cardinality(Page) = limit
          BY <2>2, <2>3, <2>4, <5>2, NewestSize
        <5> QED
          BY <4>2, <5>3
      <4>5. CASE request.stage # "any"
        BY <2>2, <4>2, <4>3, <4>5
      <4> QED
        BY <4>4, <4>5
    <3> QED
      BY <3>1, <3>2
  <2>11. Page \subseteq Matching
    BY <2>6, <2>7
  <2> QED
    BY <2>1, <2>5, <2>9, <2>10, <2>11 DEF limit, Above
<1>2. ReadsInvariant /\ [Next]_vars =>
         [request.route \in {"customer", "admin"} /\ request.at = "read" /\ request'.at = "answered"
             => /\ page' \subseteq Matching
                /\ Cardinality(page') <= request.limit
                /\ \A o \in Matching \ page' :
                      /\ \A p \in page' : p > o
                      /\ \/ Cardinality(page') = request.limit
                         \/ Cardinality({p \in Asked : p > o}) >= 3 * request.limit]_vars
  BY <1>1
<1> HIDE DEF Answering
<1> QED
  BY <1>2, InvariantHolds, PTL DEF Spec, PageIsNewestMatching

==============================================================================
