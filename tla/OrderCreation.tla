---------------------------- MODULE OrderCreation ----------------------------
(***************************************************************************)
(* POST /api/orders: OrdersService.create.  Concurrent and retried calls   *)
(* for the same idempotency keys look for an existing order, and otherwise *)
(* open a database transaction that inserts the order, reserves its lines  *)
(* one by one at Warehouse and commits; the events follow the commit.      *)
(* One action is one stretch between two awaits.  The order of a call is   *)
(* named by the call; the reservation's expiry at Warehouse is left out.   *)
(***************************************************************************)
EXTENDS CreateOrderRequest

CONSTANTS
    Calls,          \* create calls
    NoCall,
    Requests,       \* create and validate requests
    Body,           \* their bodies
    NoRequest,      \* of a call that has not read its body or rejects it
    NoOrder,
    Enabled,        \* is the warehouse reservation client enabled?
    MaxFaults       \* bound: lost answers, failed commits and crashes

ASSUME CreationAssumption ==
    /\ NoCall \notin Calls
    /\ NoRequest \notin Requests
    /\ NoOrder \notin [request : Requests, moved : BOOLEAN]
    /\ Body \in [Requests -> CreateOrderRequestDto]
    /\ Enabled \in BOOLEAN
    /\ MaxFaults \in Nat

VARIABLES
    orders,     \* the committed orders
    stock,      \* the lines Warehouse holds for each order
    call,       \* the create calls
    published,  \* order.created and lifecycle events of each order
    faults

vars == <<orders, stock, call, published, faults>>

Valid == {r \in Requests : Accepted(Body[r])}

Content == [r \in Valid |-> Normalized(Body[r])]

\* The row is the content of its request until its status, its payment status
\* or an item status has moved.
Order == [request : Valid, moved : BOOLEAN]

Lines(r) == DOMAIN Content[r].items

\* reserved: reservedItems.length; released: compensation calls made;
\* lost: a fault hit this call.
Call == [at : {"new", "insert", "handoff", "reserve", "release", "rollback", "commit",
               "created", "lifecycle", "done"},
         request : Valid \cup {NoRequest},
         reserved : Nat, released : Nat,
         answer : {"none", "created", "replayed", "conflict", "failed", "rejected", "valid"},
         order : Calls \cup {NoCall}, lost : BOOLEAN]

NewCall == [at |-> "new", request |-> NoRequest, reserved |-> 0,
            released |-> 0, answer |-> "none", order |-> NoCall, lost |-> FALSE]

Committed(o) == orders[o] # NoOrder

Init ==
    /\ orders = [c \in Calls |-> NoOrder]
    /\ stock = [c \in Calls |-> {}]
    /\ call = [c \in Calls |-> NewCall]
    /\ published = [c \in Calls |-> [created |-> 0, lifecycle |-> 0]]
    /\ faults = 0

Fault == faults < MaxFaults /\ faults' = faults + 1

MoveTo(c, at) == call' = [call EXCEPT ![c].at = at]

Answer(c, answer, order) ==
    call' = [call EXCEPT ![c] = [@ EXCEPT !.at = "done", !.answer = answer, !.order = order]]

-----------------------------------------------------------------------------

\* isMatchingCreateOrderReplay of the order of a request, loaded with its lines
\* in some order, with another request.
Compared ==
    [s \in Valid |-> [r \in Valid |->
        {Matching(existing, Content[r]) : existing \in Loaded(Content[s])}]]

\* Mutant: the key alone decides.
SameKeyReplay(moved, same) == ~moved

\* The order is compared as it is now.
MatchingReplay(moved, same) == ~moved /\ same

\* findByCreateOrderIdempotencyKey sees committed orders only.
OrdersWith(key) == {o \in Calls : Committed(o) /\ Content[orders[o].request].key = key}

Read(c, r, at, answer, o) ==
    call' = [call EXCEPT ![c] = [NewCall EXCEPT !.at = at, !.request = r,
                                     !.answer = answer, !.order = o]]

\* Mutant: a replay goes through the events of a create.
FoundAnnounced(c, r, o, same) ==
    IF MatchingReplay(orders[o].moved, same)
      THEN Read(c, r, "created", "none", o)
      ELSE Read(c, r, "done", "conflict", NoCall)

\* The existing order is returned, or the call ends in a ConflictException.
Found(c, r, o, same) ==
    IF MatchingReplay(orders[o].moved, same)
      THEN Read(c, r, "done", "replayed", o)
      ELSE Read(c, r, "done", "conflict", NoCall)

Lookup(c) ==
    /\ call[c].at = "new"
    /\ \E r \in Requests :
          \/ r \notin Valid /\ Read(c, NoRequest, "done", "rejected", NoCall)
          \/ /\ r \in Valid
             /\ \E o \in OrdersWith(Content[r].key) :
                   \E same \in Compared[orders[o].request][r] : Found(c, r, o, same)
          \/ /\ r \in Valid
             /\ OrdersWith(Content[r].key) = {}
             /\ Read(c, r, "insert", "none", NoCall)
    /\ UNCHANGED <<orders, stock, published, faults>>

\* POST /api/orders/validate-create: the same reads and refusals, and no effect.
ValidateCreate(c) ==
    /\ call[c].at = "new"
    /\ \E r \in Requests :
          \/ r \notin Valid /\ Read(c, NoRequest, "done", "rejected", NoCall)
          \/ /\ r \in Valid
             /\ \E o \in OrdersWith(Content[r].key) :
                   \E same \in Compared[orders[o].request][r] :
                      IF MatchingReplay(orders[o].moved, same)
                        THEN Read(c, r, "done", "valid", o)
                        ELSE Read(c, r, "done", "conflict", NoCall)
          \/ /\ r \in Valid
             /\ OrdersWith(Content[r].key) = {}
             /\ Read(c, r, "done", "valid", NoCall)
    /\ UNCHANGED <<orders, stock, published, faults>>

-----------------------------------------------------------------------------

KeyOf(c) == Content[call[c].request].key

InTransaction(c) == call[c].at \in {"handoff", "reserve", "release", "rollback", "commit"}

\* Mutant: the index entry of a transaction outlives it.
HeldForEver(c) ==
    \E d \in Calls : /\ InTransaction(d) \/ Committed(d)
                    /\ KeyOf(d) = KeyOf(c)

\* ux_orders_create_idempotency: an insert waits for a transaction that
\* inserted the same key.
Held(c) == \E d \in Calls : InTransaction(d) /\ KeyOf(d) = KeyOf(c)

\* Mutant: no unique index.
NeverTaken(c) == FALSE

\* A committed order with the key makes the insert fail.
Taken(c) == OrdersWith(KeyOf(c)) # {}

\* manager.save(Order) and manager.save(OrderItem).
Insert(c) ==
    /\ call[c].at = "insert"
    /\ ~Held(c)
    /\ IF Taken(c) THEN Answer(c, "failed", NoCall) ELSE MoveTo(c, "handoff")
    /\ UNCHANGED <<orders, stock, published, faults>>

\* Mutant: only a failed handoff is refused.
AfterHandoffLenient(status) == IF status = "failed" THEN "rollback" ELSE "commit"

\* The handoff of an order with a line without a warehouse is skipped.
Unassigned(r) == \E i \in Lines(r) : Content[r].items[i].warehouse = Absent

\* assertRequiredWarehouseReservation; every accepted channel is sellable.
AfterHandoff(status) == IF status = "reserved" THEN "commit" ELSE "rollback"

\* reserveOrderItems up to its first request.
Handoff(c) ==
    /\ call[c].at = "handoff"
    /\ MoveTo(c, IF ~Enabled THEN AfterHandoff("disabled")
                 ELSE IF Unassigned(call[c].request) THEN AfterHandoff("skipped")
                 ELSE "reserve")
    /\ UNCHANGED <<orders, stock, published, faults>>

AllReserved(c, n) == n + 1 \notin Lines(call[c].request)

\* reserveItem: Warehouse holds the line, refuses it, or its answer is lost.
Reserve(c) ==
    LET n == call[c].reserved + 1 IN
    /\ call[c].at = "reserve"
    /\ \/ /\ stock' = [stock EXCEPT ![c] = @ \cup {n}]
          /\ call' = [call EXCEPT ![c] = [@ EXCEPT
                          !.reserved = n,
                          !.at = IF AllReserved(c, n) THEN AfterHandoff("reserved")
                                 ELSE "reserve"]]
          /\ UNCHANGED faults
       \/ /\ MoveTo(c, "release")
          /\ UNCHANGED <<stock, faults>>
       \/ /\ Fault
          /\ stock' = [stock EXCEPT ![c] = @ \cup {n}]
          /\ call' = [call EXCEPT ![c] = [@ EXCEPT !.at = "release", !.lost = TRUE]]
    /\ UNCHANGED <<orders, published>>

\* Mutant: the last reserved line is forgotten.
CompensatedEarly(j) == j.released + 1 >= j.reserved

Compensated(j) == j.released = j.reserved

\* releaseReservedItems: a release that fails is counted and passed over.
Release(c) ==
    LET n == call[c].released + 1 IN
    /\ call[c].at = "release"
    /\ IF Compensated(call[c])
         THEN MoveTo(c, AfterHandoff("failed")) /\ UNCHANGED <<stock, faults>>
         ELSE \/ /\ stock' = [stock EXCEPT ![c] = @ \ {n}]
                 /\ call' = [call EXCEPT ![c].released = n]
                 /\ UNCHANGED faults
              \/ /\ Fault
                 /\ call' = [call EXCEPT ![c] = [@ EXCEPT !.released = n, !.lost = TRUE]]
                 /\ UNCHANGED stock
    /\ UNCHANGED <<orders, published>>

\* The exception leaves the transaction, which is rolled back.
Rollback(c) ==
    /\ call[c].at = "rollback"
    /\ Answer(c, "failed", NoCall)
    /\ UNCHANGED <<orders, stock, published, faults>>

Store(c) ==
    orders' = [orders EXCEPT ![c] = [request |-> call[c].request, moved |-> FALSE]]

\* The handoff is saved and the transaction commits; a commit may fail, and
\* an error may hide one that succeeded.
Commit(c) ==
    /\ call[c].at = "commit"
    /\ \/ /\ Store(c)
          /\ call' = [call EXCEPT ![c] = [@ EXCEPT !.at = "created", !.order = c]]
          /\ UNCHANGED faults
       \/ /\ Fault
          /\ \/ UNCHANGED orders
             \/ Store(c)
          /\ call' = [call EXCEPT
                        ![c] = [@ EXCEPT !.at = "done", !.answer = "failed", !.lost = TRUE]]
    /\ UNCHANGED <<stock, published>>

\* publishOrderCreated
PublishCreated(c) ==
    /\ call[c].at = "created"
    /\ published' = [published EXCEPT ![call[c].order].created = @ + 1]
    /\ MoveTo(c, "lifecycle")
    /\ UNCHANGED <<orders, stock, faults>>

\* publishLifecycleChangedIfNeeded from no previous stage, and the answer.
PublishLifecycle(c) ==
    /\ call[c].at = "lifecycle"
    /\ published' = [published EXCEPT ![call[c].order].lifecycle = @ + 1]
    /\ Answer(c, "created", call[c].order)
    /\ UNCHANGED <<orders, stock, faults>>

-----------------------------------------------------------------------------

\* The status, payment status or an item status of a committed order moves.
Move(o) ==
    /\ Committed(o)
    /\ ~orders[o].moved
    /\ orders' = [orders EXCEPT ![o].moved = TRUE]
    /\ UNCHANGED <<stock, call, published, faults>>

Running(c) == call[c].at \notin {"new", "done"}

\* The process dies with the calls it is running.
Crash ==
    /\ \E c \in Calls : Running(c)
    /\ Fault
    /\ call' = [c \in Calls |->
                  IF Running(c)
                    THEN [call[c] EXCEPT !.at = "done", !.answer = "failed",
                                         !.order = NoCall, !.lost = TRUE]
                    ELSE call[c]]
    /\ UNCHANGED <<orders, stock, published>>

Step(c) ==
    \/ Insert(c)
    \/ Handoff(c)
    \/ Reserve(c)
    \/ Release(c)
    \/ Rollback(c)
    \/ Commit(c)
    \/ PublishCreated(c)
    \/ PublishLifecycle(c)

Next ==
    \/ \E c \in Calls : Lookup(c) \/ ValidateCreate(c) \/ Step(c) \/ Move(c)
    \/ Crash

Spec == Init /\ [][Next]_vars

\* Warehouse and the database answer every request, and the database grants
\* a free index entry to one of the inserts that wait for it.
FairSpec == Spec /\ \A c \in Calls : WF_vars(Step(c))

-----------------------------------------------------------------------------

\* The identity of ORDER_IDEMPOTENCY_CONTRACT.md: the channel in any case, the
\* other two in the case given, none with the blanks around it.
Written(t) == <<t.word, t.upper, t.long>>

Account(r) == IF r.channelAccountId.word = "" THEN <<>> ELSE Written(r.channelAccountId)

SameIdentity(r, s) ==
    /\ Body[r].channel.word = Body[s].channel.word
    /\ Written(Body[r].externalOrderId) = Written(Body[s].externalOrderId)
    /\ Account(Body[r]) = Account(Body[s])

(***************************************************************************)
(* Concurrent creates that all found no order leave one order for an       *)
(* identity, however each of them wrote it.                                *)
(***************************************************************************)
OneOrderPerKey ==
    \A c, d \in Calls :
        (Committed(c) /\ Committed(d) /\ SameIdentity(orders[c].request, orders[d].request))
            => c = d

(***************************************************************************)
(* Create succeeds only when Warehouse returned "reserved": a committed    *)
(* order holds every one of its lines, whatever failed on the way.         *)
(***************************************************************************)
CommittedIsReserved == \A o \in Calls : Committed(o) => stock[o] = Lines(orders[o].request)

(***************************************************************************)
(* order.created is published at most once for an order, never for a       *)
(* rolled back one nor by a replay, and the lifecycle event never before.  *)
(***************************************************************************)
AnnouncedOnce ==
    \A o \in Calls :
        /\ published[o].created <= 1
        /\ published[o].lifecycle <= published[o].created
        /\ published[o].created > 0 => Committed(o)

(***************************************************************************)
(* A create that ended without an order leaves nothing reserved, unless a  *)
(* lost answer, a failed release, a failed commit or a crash hit it.       *)
(***************************************************************************)
FailedHoldsNothing ==
    \A c \in Calls :
        (call[c].at = "done" /\ ~Committed(c) /\ ~call[c].lost) => stock[c] = {}

Succeeded(c) == call[c].answer \in {"created", "replayed"}

\* Lines, whatever order they are in.
Bag(items) ==
    {<<l, Cardinality({i \in DOMAIN items : items[i] = l})>> : l \in {items[i] : i \in DOMAIN items}}

\* What a request orders, whatever way it is written.
Ordered == [r \in Valid |-> [Content[r] EXCEPT !.items = Bag(@)]]

(***************************************************************************)
(* A successful answer names a committed order of the caller's identity    *)
(* that orders what the caller asked for; calls of one identity that       *)
(* succeed are answered with one order.                                    *)
(***************************************************************************)
AnswersAgree ==
    \A c \in Calls : Succeeded(c) =>
        LET o == call[c].order IN
        /\ Committed(o)
        /\ SameIdentity(orders[o].request, call[c].request)
        /\ Ordered[orders[o].request] = Ordered[call[c].request]
        /\ \A d \in Calls :
              (Succeeded(d) /\ SameIdentity(call[d].request, call[c].request))
                  => call[d].order = o

\* The subjects a body names, in any case.
Subjects(b) ==
    {<<b.customer[f].word, b.customer[f].long>> : f \in {g \in SubjectField : b.customer[g].word # ""}}

\* The order a body describes, but for its key and its subject.
Described(r) == [f \in DOMAIN Content[r] \ {"key", "subject"} |-> Content[r][f]]

(***************************************************************************)
(* A create or validate is refused as a conflict only when the order of    *)
(* its identity has moved since, has several lines (they are loaded in any *)
(* order), or was asked for by another subject or with another content:    *)
(* never for the spelling of its identity or of its subject.               *)
(***************************************************************************)
ConflictHasCause ==
    \A c, o \in Calls :
        LET r == call[c].request
            s == orders[o].request
        IN  (call[c].answer = "conflict" /\ Committed(o) /\ SameIdentity(s, r))
            => \/ orders[o].moved
               \/ Cardinality(Lines(s)) > 1
               \/ Described(s) # Described(r)
               \/ Subjects(Body[s]) # Subjects(Body[r])

(***************************************************************************)
(* Every create ends: no call waits for ever behind another's index entry. *)
(***************************************************************************)
EveryCallEnds == \A c \in Calls : Running(c) ~> ~Running(c)

-----------------------------------------------------------------------------

Ask == [r \in Valid |-> [key |-> Content[r].key, ordered |-> Ordered[r]]]

Asks == {Ask[r] : r \in Valid}

ASSUME NothingAssumption == NoRequest \notin Asks

\* The committed orders as a register.
Kept ==
    [k \in {a.key : a \in Asks} |->
        {[by |-> o, ordered |-> Ordered[orders[o].request]] : o \in OrdersWith(k)}]

Asked ==
    [c \in Calls |-> IF call[c].request = NoRequest THEN NoRequest ELSE Ask[call[c].request]]

Answered == [c \in Calls |-> <<call[c].answer, call[c].order>>]

Register == INSTANCE OrderRegister WITH
    Nothing <- NoRequest, register <- Kept, asked <- Asked, answer <- Answered

(***************************************************************************)
(* The create endpoint, under every interleaving, lost answer and crash,   *)
(* is a register of orders: a key takes one order, which is never replaced *)
(* or changed in what it orders, and every call is answered once, from the *)
(* register as it is at that moment.                                       *)
(***************************************************************************)
RegisterKept == Register!Spec

-----------------------------------------------------------------------------

(***************************************************************************)
(* ORDER_IDEMPOTENCY_CONTRACT.md: the fingerprint has the "status at       *)
(* create time", so a retry with the body of the existing order is         *)
(* replayed and never ends in a conflict.                                  *)
(***************************************************************************)
RetryReplays ==
    \A c, o \in Calls : (call[c].answer = "conflict" /\ Committed(o))
                            => call[c].request # orders[o].request

=============================================================================
