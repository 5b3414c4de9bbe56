--------------------------- MODULE AffinityReplay ---------------------------
(***************************************************************************)
(* The listing Marketing reads past orders from, to learn which products   *)
(* are bought together: OrdersService.getOrderAffinityReplayCandidates.    *)
(* Orders are numbered as they were created; a channel may have dated an   *)
(* order earlier than that.  A page is cut by rows, oldest first, and only *)
(* then loses the orders of less than two products.                        *)
(***************************************************************************)
EXTENDS Integers, Sequences, FiniteSets

CONSTANTS
    ReplayOrders,   \* what a stored order may be in this instance
    ReplayRequests, \* the queries asked
    DefaultReplayLimit, LargestReplayLimit,     \* 100 and 500 in the code
    MaxReplayOrders,    \* bound: orders created
    MaxReplayMoves      \* bound: changes of their status or payment

VARIABLES
    history,        \* the orders table, in order of creation
    replay,         \* the request being served, and its answer
    replayMoves

replayVars == <<history, replay, replayMoves>>

-----------------------------------------------------------------------------

ReplayStatuses == {"confirmed", "processing", "shipped", "delivered"}

ReplayReadRoles ==
    {"global:superadmin", "internal:orders:admin", "internal:orders:readonly",
     "internal:marketing:service"}

\* A date; 0 where none is given, -1 for text that is none.
DateText == Nat \cup {-1}

\* limited: the limit is given and parseInt finds a number in it.
ReplayRequest ==
    [role : STRING, channel : {"", "flipflop", "allegro", "unsupported"},
     from : DateText, to : DateText, limited : BOOLEAN, limit : Int]

ReplayOrder ==
    [status : {"pending", "cancelled"} \cup ReplayStatuses, paid : BOOLEAN,
     channel : {"flipflop", "allegro"}, dated : Nat,
     lines : Seq([product : STRING, quantity : Nat])]

ASSUME ReplayAssumption ==
    /\ ReplayOrders \subseteq ReplayOrder
    /\ ReplayRequests \subseteq ReplayRequest
    /\ DefaultReplayLimit \in 1..LargestReplayLimit
    /\ LargestReplayLimit \in Nat
    /\ MaxReplayOrders \in Nat
    /\ MaxReplayMoves \in Nat

-----------------------------------------------------------------------------

NoReplay == [at |-> "none", query |-> [role |-> "none"], events |-> <<>>]

ReplayInit ==
    /\ history = <<>>
    /\ replay = NoReplay
    /\ replayMoves = 0

\* The guard lets one of the route's roles in.
AskReplay ==
    /\ replay.at = "none"
    /\ \E query \in ReplayRequests :
          replay' = [NoReplay EXCEPT !.query = query,
                                     !.at = IF query.role \in ReplayReadRoles THEN "read"
                                            ELSE "refused"]
    /\ UNCHANGED <<history, replayMoves>>

\* normalizeOrderAffinityReplayFilters throws.
RefusedFilters(query) ==
    \/ query.channel = "unsupported"
    \/ -1 \in {query.from, query.to}
    \/ 0 \notin {query.from, query.to} /\ query.from > query.to

RefuseReplay ==
    /\ replay.at = "read" /\ RefusedFilters(replay.query)
    /\ replay' = [replay EXCEPT !.at = "refused"]
    /\ UNCHANGED <<history, replayMoves>>

\* A number out of range is moved into it, what is no number is passed over.
ReplayLimit(query) ==
    IF ~query.limited THEN DefaultReplayLimit
    ELSE IF query.limit < 1 THEN 1
    ELSE IF query.limit > LargestReplayLimit THEN LargestReplayLimit
    ELSE query.limit

\* COALESCE(orderedAt, createdAt)
DateOf(o) == IF history[o].dated = 0 THEN o ELSE history[o].dated

\* The rows of the query.
Replayable(query) ==
    {o \in DOMAIN history :
        /\ history[o].status \in ReplayStatuses
        /\ history[o].paid
        /\ query.channel \in {"", history[o].channel}
        /\ query.from # 0 => DateOf(o) >= query.from
        /\ query.to # 0 => DateOf(o) <= query.to}

\* Mutant: the newest rows first, as in the other listings.
OldestRowsNewestFirst(rows, n) == {o \in rows : Cardinality({p \in rows : p > o}) < n}

\* ORDER BY createdAt ASC, take(n)
OldestRows(rows, n) == {o \in rows : Cardinality({p \in rows : p < o}) < n}

\* toOrderAffinityReplayEvent makes an event of orders of several products only.
SeveralProducts(o) ==
    LET sold == {i \in DOMAIN history[o].lines : /\ history[o].lines[i].product # ""
                                                 /\ history[o].lines[i].quantity > 0}
    IN  Cardinality({history[o].lines[i].product : i \in sold}) >= 2

\* Rows as a list, in order of creation.
Listed(rows) ==
    CHOOSE list \in [1 .. Cardinality(rows) -> rows] :
        \A i, j \in DOMAIN list : i < j => list[i] < list[j]

ReplayEvents(query) ==
    Listed({o \in OldestRows(Replayable(query), ReplayLimit(query)) : SeveralProducts(o)})

\* getOrderAffinityReplayCandidates
ReplayCandidates ==
    /\ replay.at = "read" /\ ~RefusedFilters(replay.query)
    /\ replay' = [replay EXCEPT !.at = "answered", !.events = ReplayEvents(replay.query)]
    /\ UNCHANGED <<history, replayMoves>>

\* Marketing asks again later.
ReplayDone ==
    /\ replay.at \in {"answered", "refused"}
    /\ replay' = NoReplay
    /\ UNCHANGED <<history, replayMoves>>

\* create has committed an order; a channel dates it when it was placed.
PlaceReplayable ==
    /\ Len(history) < MaxReplayOrders
    /\ \E new \in ReplayOrders :
          /\ new.dated <= Len(history) + 1
          /\ history' = Append(history, new)
    /\ UNCHANGED <<replay, replayMoves>>

\* An order is paid, or moved to another status.
MoveReplayable ==
    /\ replayMoves < MaxReplayMoves
    /\ replayMoves' = replayMoves + 1
    /\ \E o \in DOMAIN history :
          \/ history' = [history EXCEPT ![o].paid = TRUE]
          \/ \E status \in {"confirmed", "cancelled"} :
                history' = [history EXCEPT ![o].status = status]
    /\ UNCHANGED replay

ReplayNext ==
    \/ AskReplay
    \/ RefuseReplay
    \/ ReplayCandidates
    \/ ReplayDone
    \/ PlaceReplayable
    \/ MoveReplayable

ReplaySpec == ReplayInit /\ [][ReplayNext]_replayVars

-----------------------------------------------------------------------------

\* What Marketing asked for, wherever the page ends.
Wanted(query) == {o \in Replayable(query) : SeveralProducts(o)}

(***************************************************************************)
(* A page holds paid orders of several products that were neither pending  *)
(* nor cancelled, each once and in order of creation, no more than were    *)
(* asked for.  One that Marketing asked for and is not on it was created   *)
(* after all that are, and after as many rows as fill a page: so an order  *)
(* placed later, however it is dated, takes no other off the page.         *)
(***************************************************************************)
ReplaySound ==
    [][replay.at = "read" /\ replay'.at = "answered"
        => LET page == {replay'.events[i] : i \in DOMAIN replay'.events}
               query == replay.query
           IN  /\ query.role \in ReplayReadRoles
               /\ page \subseteq Wanted(query)
               /\ \A i, j \in DOMAIN replay'.events : i < j => replay'.events[i] < replay'.events[j]
               /\ Cardinality(page) <= LargestReplayLimit
               /\ \A o \in Wanted(query) \ page :
                     /\ \A p \in page : p < o
                     /\ Cardinality({p \in Replayable(query) : p < o}) >= ReplayLimit(query)]_replayVars

=============================================================================
