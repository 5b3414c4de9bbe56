------------------------ MODULE OrderCreation_proofs ------------------------
(***************************************************************************)
(* Theorems about order creation, for any number of calls, requests and    *)
(* faults: the safety invariants, and the refinement of OrderRegister.     *)
(***************************************************************************)
EXTENDS OrderCreation, FunctionTheorems, FiniteSetTheorems, TLAPS

-----------------------------------------------------------------------------

(***************************************************************************)
(* The inductive invariant.                                                *)
(***************************************************************************)
TypeOK ==
    /\ orders \in [Calls -> Order \cup {NoOrder}]
    /\ stock \in [Calls -> SUBSET Nat]
    /\ call \in [Calls -> Call]
    /\ published \in [Calls -> [created : Nat, lifecycle : Nat]]
    /\ faults \in Nat

At(c, places) == call[c].at \in places

\* A call answers when it is done, has a request from its first read on unless
\* that is rejected, and names an order from its commit or its answer on.
Progress(c) ==
    /\ call[c].answer = "none" <=> ~At(c, {"done"})
    /\ call[c].request = NoRequest <=> (At(c, {"new"}) \/ call[c].answer = "rejected")
    /\ ~At(c, {"created", "lifecycle", "done"}) => call[c].order = NoCall
    /\ At(c, {"created", "lifecycle"}) => call[c].order = c
    /\ Committed(c) => At(c, {"created", "lifecycle", "done"})
    /\ call[c].answer \in {"failed", "rejected", "conflict"} => call[c].order = NoCall

\* A committed order is the order of its call's request.
OrderOfRequest(c) == Committed(c) => orders[c].request = call[c].request

\* The calls that hold the index entry of their key.
Owns(c) == InTransaction(c) \/ Committed(c)

OneOwner ==
    \A c, d \in Calls : (Owns(c) /\ Owns(d) /\ KeyOf(c) = KeyOf(d)) => c = d

\* What Warehouse holds for a call, as long as nothing has gone wrong with it.
Reservations(c) ==
    LET j == call[c] IN
    /\ At(c, {"new", "insert", "handoff"}) => stock[c] = {} /\ j.reserved = 0
    /\ At(c, {"reserve"}) => stock[c] = 1 .. j.reserved /\ j.reserved + 1 \in Lines(j.request)
    /\ At(c, {"new", "insert", "handoff", "reserve"}) => j.released = 0
    /\ At(c, {"release"}) =>
          j.released <= j.reserved /\ (~j.lost => stock[c] = j.released + 1 .. j.reserved)
    /\ At(c, {"rollback"}) => (~j.lost => stock[c] = {})
    /\ At(c, {"commit"}) \/ Committed(c) => stock[c] = Lines(j.request)
    /\ At(c, {"created", "lifecycle"}) => Committed(c)

\* What has been published for a call's order.
Announcements(c) ==
    /\ At(c, {"created"}) => published[c].created = 0
    /\ At(c, {"lifecycle"}) => published[c].created = 1 /\ published[c].lifecycle = 0
    /\ published[c].created <= 1
    /\ published[c].lifecycle <= published[c].created
    /\ published[c].created > 0 => Committed(c)

\* The order an answer names, and the one a refusal was about.
Answers(c) ==
    LET r == call[c].request
        o == call[c].order
    IN  /\ call[c].answer = "created" => o = c /\ Committed(c)
        /\ call[c].answer = "replayed" =>
              /\ o \in OrdersWith(Content[r].key)
              /\ Ordered[orders[o].request] = Ordered[r]
        /\ call[c].answer = "conflict" =>
              \E p \in OrdersWith(Content[r].key) :
                 orders[p].moved \/ FALSE \in Compared[orders[p].request][r]

\* A call that ended without an order has given its reservations back.
Compensations(c) ==
    (At(c, {"done"}) /\ ~Committed(c) /\ ~call[c].lost) => stock[c] = {}

CallOK(c) ==
    /\ Progress(c)
    /\ OrderOfRequest(c)
    /\ Reservations(c)
    /\ Compensations(c)
    /\ Announcements(c)
    /\ Answers(c)

CreationInvariant ==
    /\ TypeOK
    /\ OneOwner
    /\ \A c \in Calls : CallOK(c)

-----------------------------------------------------------------------------

(***************************************************************************)
(* Requests: identities, lines, and the order in which lines are loaded.   *)
(***************************************************************************)

LEMMA BodyType ==
    ASSUME NEW r \in Valid
    PROVE  Body[r] \in CreateOrderRequestDto /\ Accepted(Body[r])
           /\ Content[r] = Normalized(Body[r])
BY CreationAssumption DEF Valid, Content

LEMMA ContentOf ==
    ASSUME NEW r \in Valid
    PROVE  /\ Content[r].key = Key(Body[r])
           /\ Content[r].items = Items(Body[r])
           /\ Content[r].subject = Subject(Body[r])
<1>1. Normalized(Body[r]).key = Key(Body[r])
  BY DEF Normalized
<1>2. Normalized(Body[r]).items = Items(Body[r])
  BY DEF Normalized
<1>3. Normalized(Body[r]).subject = Subject(Body[r])
  BY DEF Normalized
<1> QED
  BY <1>1, <1>2, <1>3, BodyType

LEMMA LinesAre ==
    ASSUME NEW r \in Valid
    PROVE  /\ Len(Body[r].items) \in Nat
           /\ Lines(r) = 1 .. Len(Body[r].items)
           /\ 1 \in Lines(r)
<1> DEFINE items == Body[r].items
<1>1. Content[r].items = Items(Body[r])
  BY ContentOf
<1>2. items \in Seq(CreateOrderItemDto) /\ items # <<>>
  BY BodyType DEF CreateOrderRequestDto, Accepted
<1>3. Lines(r) = DOMAIN items
  BY <1>1 DEF Lines, Items
<1> HIDE DEF items
<1>4. DOMAIN items = 1 .. Len(items) /\ Len(items) \in Nat /\ Len(items) > 0
  BY <1>2
<1>5. 1 \in DOMAIN items
  BY <1>4
<1> QED
  BY <1>3, <1>4, <1>5 DEF items

LEMMA TrimmedAlike ==
    ASSUME NEW t \in Text, NEW u \in Text
    PROVE  Trim(t) = Trim(u) <=> Written(t) = Written(u)
<1>1. Trim(t) = Trim(u) => t.word = u.word /\ t.upper = u.upper /\ t.long = u.long
  <2>1. Trim(t).word = t.word /\ Trim(t).upper = t.upper /\ Trim(t).long = t.long
    BY DEF Text, Trim
  <2>2. Trim(u).word = u.word /\ Trim(u).upper = u.upper /\ Trim(u).long = u.long
    BY DEF Text, Trim
  <2> QED
    BY <2>1, <2>2
<1>2. t.word = u.word /\ t.upper = u.upper /\ t.long = u.long => Trim(t) = Trim(u)
  BY DEF Text, Trim
<1>3. Written(t) = Written(u) <=> t.word = u.word /\ t.upper = u.upper /\ t.long = u.long
  BY DEF Written
<1> QED
  BY <1>1, <1>2, <1>3

LEMMA LowerCasedAlike ==
    ASSUME NEW t \in Text, NEW u \in Text, ~t.long, ~u.long
    PROVE  LowerCase(Trim(t)) = LowerCase(Trim(u)) <=> t.word = u.word
<1>1. LowerCase(Trim(t)) = LowerCase(Trim(u)) => t.word = u.word
  <2>1. LowerCase(Trim(t)).word = t.word
    BY DEF Text, Trim, LowerCase
  <2>2. LowerCase(Trim(u)).word = u.word
    BY DEF Text, Trim, LowerCase
  <2> QED
    BY <2>1, <2>2
<1>2. t.word = u.word => LowerCase(Trim(t)) = LowerCase(Trim(u))
  BY DEF Text, Trim, LowerCase
<1> QED
  BY <1>1, <1>2

LEMMA GivenAlike ==
    ASSUME NEW t \in Text, NEW u \in Text
    PROVE  OptionalString(t) = OptionalString(u)
             <=> (IF t.word = "" THEN <<>> ELSE Written(t))
                   = (IF u.word = "" THEN <<>> ELSE Written(u))
<1>1. ASSUME NEW v \in Text, v.word # ""
      PROVE  Written(v) # <<>> /\ Trim(v) # Absent
  <2>1. Trim(v).word # ""
    BY <1>1 DEF Trim, Text
  <2>2. Absent.word = ""
    BY DEF Absent
  <2> QED
    BY <2>1, <2>2 DEF Written
<1> QED
  BY <1>1, TrimmedAlike DEF OptionalString

\* Requests have one key exactly when they have one identity.
LEMMA KeysAreIdentities ==
    ASSUME NEW r \in Valid, NEW s \in Valid
    PROVE  SameIdentity(r, s) <=> Content[r].key = Content[s].key
<1> DEFINE b == Body[r]
           d == Body[s]
<1>1. /\ b.channel \in Text /\ b.externalOrderId \in Text /\ b.channelAccountId \in Text
      /\ d.channel \in Text /\ d.externalOrderId \in Text /\ d.channelAccountId \in Text
  BY BodyType DEF CreateOrderRequestDto
<1>2. /\ ~b.channel.long /\ ~b.externalOrderId.long /\ ~d.channel.long /\ ~d.externalOrderId.long
  BY BodyType DEF Accepted, IsString
<1>3. Content[r].key = Key(b) /\ Content[s].key = Key(d)
  BY ContentOf
<1>4. Key(b) = Key(d) <=> /\ LowerCase(Trim(b.channel)) = LowerCase(Trim(d.channel))
                          /\ Trim(b.externalOrderId) = Trim(d.externalOrderId)
                          /\ OptionalString(b.channelAccountId) = OptionalString(d.channelAccountId)
  BY DEF Key
<1>5. LowerCase(Trim(b.channel)) = LowerCase(Trim(d.channel)) <=> b.channel.word = d.channel.word
  BY <1>1, <1>2, LowerCasedAlike
<1>6. Trim(b.externalOrderId) = Trim(d.externalOrderId)
        <=> Written(b.externalOrderId) = Written(d.externalOrderId)
  BY <1>1, TrimmedAlike
<1>7. OptionalString(b.channelAccountId) = OptionalString(d.channelAccountId)
        <=> Account(b) = Account(d)
  BY <1>1, GivenAlike DEF Account
<1> QED
  BY <1>3, <1>4, <1>5, <1>6, <1>7 DEF SameIdentity

\* Lines in another order are the same bag of lines.
LEMMA SameBag ==
    ASSUME NEW n \in Nat, NEW f, DOMAIN f = 1 .. n,
           NEW p \in [1 .. n -> 1 .. n], \A i, j \in 1 .. n : p[i] = p[j] => i = j
    PROVE  Bag([i \in 1 .. n |-> f[p[i]]]) = Bag(f)
<1> DEFINE S == 1 .. n
           g == [i \in S |-> f[p[i]]]
           Where(h, l) == {i \in DOMAIN h : h[i] = l}
           Values(h) == {h[i] : i \in DOMAIN h}
<1>1. IsFiniteSet(S)
  <2>1. 1 \in Int /\ n \in Int
    OBVIOUS
  <2> QED
    BY <2>1, FS_Interval
<1> HIDE DEF S
<1>2. DOMAIN f = S /\ p \in [S -> S] /\ \A i, j \in S : p[i] = p[j] => i = j
  BY DEF S
<1>3. \A j \in S : \E i \in S : p[i] = j
  <2>1. p \in Injection(S, S)
    BY <1>2, Fun_IsInj
  <2>2. p \in Surjection(S, S)
    BY <1>1, <2>1, FS_Injection
  <2> QED
    BY <2>2, Fun_SurjectionProperties
<1>4. DOMAIN g = S /\ \A i \in S : g[i] = f[p[i]]
  OBVIOUS
<1>5. ASSUME NEW l
      PROVE  Cardinality(Where(g, l)) = Cardinality(Where(f, l))
  <2> DEFINE A == Where(g, l)
             B == Where(f, l)
             q == [i \in A |-> p[i]]
  <2>1. A \subseteq S /\ B \subseteq S
    BY <1>2
  <2>2. q \in [A -> B] /\ \A i, j \in A : q[i] = q[j] => i = j
    BY <1>2
  <2>3. \A j \in B : \E i \in A : q[i] = j
    BY <1>2, <1>3
  <2>4. IsFiniteSet(A)
    BY <1>1, <2>1, FS_Subset
  <2> HIDE DEF A, B, q
  <2>5. q \in Bijection(A, B)
    BY <2>2, <2>3, Fun_IsBij
  <2>6. ExistsBijection(A, B)
    BY <2>5 DEF ExistsBijection
  <2>7. Cardinality(B) = Cardinality(A)
    BY <2>4, <2>6, FS_Bijection
  <2> QED
    BY <2>7 DEF A, B
<1>6. Values(g) = Values(f)
  <2> DEFINE V == Values(g)
             W == Values(f)
  <2>1. \A x : x \in V <=> \E i \in S : x = f[p[i]]
    BY <1>4
  <2>2. \A x : x \in W <=> \E j \in S : x = f[j]
    BY <1>2
  <2>3. \A i \in S : p[i] \in S
    BY <1>2
  <2> HIDE DEF V, W
  <2>4. \A x : x \in V <=> x \in W
    BY <1>3, <2>1, <2>2, <2>3
  <2>5. V = W
    BY <2>4
  <2> QED
    BY <2>5 DEF V, W
<1> DEFINE Tally(h, l) == Cardinality(Where(h, l))
<1>7. Bag(g) = {<<l, Tally(g, l)>> : l \in Values(g)}
  BY DEF Bag
<1>8. Bag(f) = {<<l, Tally(f, l)>> : l \in Values(f)}
  BY DEF Bag
<1>9. \A l : Tally(g, l) = Tally(f, l)
  BY <1>5
<1>10. Bag(g) = Bag(f)
  <2> HIDE DEF g, Values, Tally
  <2> QED
    BY <1>6, <1>7, <1>8, <1>9
<1> QED
  BY <1>10 DEF g, S

\* A row that was loaded as the order of a request orders what it asks for.
LEMMA LoadedAlike ==
    ASSUME NEW s \in Valid, NEW r \in Valid, TRUE \in Compared[s][r]
    PROVE  Ordered[s] = Ordered[r] /\ Content[s].key = Content[r].key
<1> DEFINE n == Len(Body[s].items)
           f == Content[s].items
<1>1. n \in Nat /\ DOMAIN f = 1 .. n /\ Lines(s) = 1 .. n
  BY LinesAre DEF Lines
<1>2. Compared[s][r] = {Matching(e, Content[r]) : e \in Loaded(Content[s])}
  BY DEF Compared
<1>3. PICK e \in Loaded(Content[s]) : Matching(e, Content[r])
  BY <1>2
<1>4. e = Content[r]
  BY <1>3 DEF Matching
<1>5. PICK p \in [1 .. n -> 1 .. n] :
          /\ \A i, j \in 1 .. n : p[i] = p[j] => i = j
          /\ e = [Content[s] EXCEPT !.items = [i \in 1 .. n |-> f[p[i]]]]
  BY <1>1 DEF Loaded
<1> DEFINE g == [i \in 1 .. n |-> f[p[i]]]
<1> HIDE DEF n, f
<1>6. Bag(g) = Bag(f)
  BY <1>1, <1>5, SameBag
<1> HIDE DEF g
<1>7. Content[r] = [Content[s] EXCEPT !.items = g]
  BY <1>4, <1>5 DEF g
<1>8. Content[s].key = Content[r].key /\ Content[r].items = g
  <2>1. Content[s] = Normalized(Body[s])
    BY BodyType
  <2> QED
    BY <1>7, <2>1 DEF Normalized
<1>9. Ordered[s] = [Content[s] EXCEPT !.items = Bag(f)]
      /\ Ordered[r] = [Content[r] EXCEPT !.items = Bag(g)]
  BY <1>8 DEF Ordered, f
<1> QED
  BY <1>6, <1>7, <1>8, <1>9

-----------------------------------------------------------------------------

(***************************************************************************)
(* What a step leaves alone.                                               *)
(***************************************************************************)

\* Orders are never removed, never change their request, and stay moved.
OrdersKept ==
    \A o \in Calls : Committed(o) =>
        /\ Committed(o)'
        /\ orders'[o].request = orders[o].request
        /\ orders[o].moved => orders'[o].moved

LEMMA OrdersAreOrders == NoOrder \notin Order
<1>1. Order \subseteq [request : Requests, moved : BOOLEAN]
  BY DEF Order, Valid
<1> QED
  BY <1>1, CreationAssumption

LEMMA RequestsAreValid ==
    ASSUME TypeOK, NEW o \in Calls, Committed(o)
    PROVE  orders[o] \in Order /\ orders[o].request \in Valid
BY DEF TypeOK, Committed, Order

LEMMA FoundOrdersStay ==
    ASSUME OrdersKept, NEW k
    PROVE  OrdersWith(k) \subseteq OrdersWith(k)'
BY DEF OrdersKept, OrdersWith

\* A call a step has nothing to do with keeps its part of the invariant.
LEMMA Bystander ==
    ASSUME TypeOK, OrdersKept, NEW c \in Calls, CallOK(c),
           call'[c] = call[c], stock'[c] = stock[c], published'[c] = published[c],
           Committed(c)' <=> Committed(c)
    PROVE  CallOK(c)'
<1>1. Progress(c)'
  BY DEF CallOK, Progress, At
<1>2. OrderOfRequest(c)'
  BY DEF CallOK, OrderOfRequest, OrdersKept
<1>3. Reservations(c)'
  BY DEF CallOK, Reservations, At
<1>4. Compensations(c)'
  BY DEF CallOK, Compensations, At
<1>5. Announcements(c)'
  BY DEF CallOK, Announcements, At
<1>6. Answers(c)'
  <2>1. Answers(c)
    BY DEF CallOK
  <2>2. call[c].answer = "created" => call[c].order = c /\ Committed(c)'
    BY <2>1 DEF Answers
  <2>3. ASSUME call[c].answer = "replayed"
        PROVE  /\ call[c].order \in OrdersWith(Content[call[c].request].key)'
               /\ Ordered[orders'[call[c].order].request] = Ordered[call[c].request]
    BY <2>1, <2>3 DEF Answers, OrdersWith, OrdersKept
  <2>4. ASSUME call[c].answer = "conflict"
        PROVE  \E p \in OrdersWith(Content[call[c].request].key)' :
                  orders'[p].moved \/ FALSE \in Compared[orders'[p].request][call[c].request]
    <3>1. PICK p \in OrdersWith(Content[call[c].request].key) :
             orders[p].moved \/ FALSE \in Compared[orders[p].request][call[c].request]
      BY <2>1, <2>4 DEF Answers
    <3>2. p \in Calls /\ Committed(p) /\ p \in OrdersWith(Content[call[c].request].key)'
      BY <3>1, FoundOrdersStay DEF OrdersWith
    <3>3. orders'[p].request = orders[p].request /\ (orders[p].moved => orders'[p].moved)
      BY <3>2 DEF OrdersKept
    <3> QED
      BY <3>1, <3>2, <3>3
  <2> QED
    BY <2>2, <2>3, <2>4 DEF Answers
<1> QED
  BY <1>1, <1>2, <1>3, <1>4, <1>5, <1>6 DEF CallOK

\* Nothing the register of orders shows has changed.
Quiet ==
    /\ \A c \in Calls : /\ call'[c].request = call[c].request
                        /\ call'[c].answer = call[c].answer
                        /\ call'[c].order = call[c].order
    /\ \A o \in Calls : /\ Committed(o)' <=> Committed(o)
                        /\ orders'[o].request = orders[o].request

\* Only a call that gets hold of its index entry can break OneOwner.
LEMMA NoNewOwner ==
    ASSUME OneOwner,
           \A c \in Calls : Owns(c)' => Owns(c) /\ call'[c].request = call[c].request
    PROVE  OneOwner'
BY DEF OneOwner, KeyOf

\* A call that has read its request, and has not been rejected, knows it.
LEMMA RequestKnown ==
    ASSUME TypeOK, NEW c \in Calls, Progress(c), call[c].at # "new", call[c].answer # "rejected"
    PROVE  call[c].request \in Valid
BY DEF TypeOK, Call, Progress, At

LEMMA Unanswered ==
    ASSUME NEW c \in Calls, call'[c].answer \notin {"created", "replayed", "conflict"}
    PROVE  Answers(c)'
BY DEF Answers

\* A step of one call.
LEMMA StepOfOne ==
    ASSUME CreationInvariant, NEW c \in Calls, OrdersKept,
           \A d \in Calls \ {c} : /\ call'[d] = call[d]
                                  /\ stock'[d] = stock[d]
                                  /\ published'[d] = published[d]
                                  /\ Committed(d)' <=> Committed(d),
           TypeOK', OneOwner', CallOK(c)'
    PROVE  CreationInvariant'
<1>1. ASSUME NEW d \in Calls, d # c
      PROVE  CallOK(d)'
  BY <1>1, Bystander DEF CreationInvariant
<1> QED
  BY <1>1 DEF CreationInvariant

\* A call's record is replaced.
LEMMA CallBecomes ==
    ASSUME call \in [Calls -> Call], NEW c \in Calls, NEW j \in Call,
           call' = [call EXCEPT ![c] = j]
    PROVE  /\ call' \in [Calls -> Call]
           /\ call'[c] = j
           /\ \A d \in Calls \ {c} : call'[d] = call[d]
OBVIOUS

LEMMA MoveChanges ==
    ASSUME call \in [Calls -> Call], NEW c \in Calls, NEW at,
           at \in {"handoff", "reserve", "release", "rollback", "commit", "lifecycle"},
           MoveTo(c, at)
    PROVE  /\ call' \in [Calls -> Call]
           /\ \A d \in Calls \ {c} : call'[d] = call[d]
           /\ call'[c].at = at
           /\ call'[c].request = call[c].request
           /\ call'[c].reserved = call[c].reserved
           /\ call'[c].released = call[c].released
           /\ call'[c].answer = call[c].answer
           /\ call'[c].order = call[c].order
           /\ call'[c].lost <=> call[c].lost
<1> DEFINE j == [call[c] EXCEPT !.at = at]
<1>1. j \in Call
  BY DEF Call
<1>2. /\ j.at = at /\ j.request = call[c].request
      /\ j.reserved = call[c].reserved /\ j.released = call[c].released
      /\ j.answer = call[c].answer /\ j.order = call[c].order /\ (j.lost <=> call[c].lost)
  BY DEF Call
<1>3. call' = [call EXCEPT ![c] = j]
  BY DEF MoveTo
<1> HIDE DEF j
<1> QED
  BY <1>1, <1>2, <1>3, CallBecomes

LEMMA AnswerChanges ==
    ASSUME call \in [Calls -> Call], NEW c \in Calls,
           NEW answer \in {"created", "failed"}, NEW order \in Calls \cup {NoCall},
           Answer(c, answer, order)
    PROVE  /\ call' \in [Calls -> Call]
           /\ \A d \in Calls \ {c} : call'[d] = call[d]
           /\ call'[c].at = "done"
           /\ call'[c].answer = answer
           /\ call'[c].order = order
           /\ call'[c].request = call[c].request
           /\ call'[c].reserved = call[c].reserved
           /\ call'[c].released = call[c].released
           /\ call'[c].lost <=> call[c].lost
<1> DEFINE j == [call[c] EXCEPT !.at = "done", !.answer = answer, !.order = order]
<1>1. j \in Call
  BY DEF Call
<1>2. /\ j.at = "done" /\ j.answer = answer /\ j.order = order
      /\ j.request = call[c].request
      /\ j.reserved = call[c].reserved /\ j.released = call[c].released
      /\ j.lost <=> call[c].lost
  BY DEF Call
<1>3. call' = [call EXCEPT ![c] = j]
  BY DEF Answer
<1> HIDE DEF j
<1> QED
  BY <1>1, <1>2, <1>3, CallBecomes

-----------------------------------------------------------------------------

(***************************************************************************)
(* Every step keeps the invariant.                                         *)
(***************************************************************************)

LEMMA InsertStep ==
    ASSUME CreationInvariant, NEW c \in Calls, Insert(c)
    PROVE  CreationInvariant'
<1> USE DEF At
<1>1. /\ TypeOK /\ OneOwner /\ call[c] \in Call /\ CallOK(c)
      /\ call[c].at = "insert"
  BY DEF CreationInvariant, TypeOK, Insert
<1>2. /\ \/ Taken(c) /\ Answer(c, "failed", NoCall)
         \/ ~Taken(c) /\ MoveTo(c, "handoff")
      /\ UNCHANGED <<orders, stock, published, faults>>
  BY DEF Insert
<1>3. /\ call' \in [Calls -> Call]
      /\ \A d \in Calls \ {c} : call'[d] = call[d]
      /\ call'[c].request = call[c].request
      /\ call'[c].reserved = call[c].reserved /\ call'[c].released = call[c].released
      /\ \/ Taken(c) /\ call'[c].at = "done" /\ call'[c].answer = "failed" /\ call'[c].order = NoCall
         \/ /\ ~Taken(c) /\ call'[c].at = "handoff"
            /\ call'[c].answer = call[c].answer /\ call'[c].order = call[c].order
      /\ call'[c].lost <=> call[c].lost
  <2>1. CASE Taken(c)
    BY <1>1, <1>2, <2>1, AnswerChanges DEF TypeOK
  <2>2. CASE ~Taken(c)
    BY <1>1, <1>2, <2>2, MoveChanges DEF TypeOK
  <2> QED
    BY <2>1, <2>2
<1>4. TypeOK'
  BY <1>1, <1>2, <1>3 DEF TypeOK
<1>5. \A d \in Calls : (Committed(d)' <=> Committed(d)) /\ orders'[d] = orders[d]
  BY <1>2 DEF Committed
<1>6. OneOwner'
  <2>1. ASSUME NEW d \in Calls, Owns(d)', d # c, KeyOf(d)' = KeyOf(c)'
        PROVE  ~Owns(c)'
    <3>1. Owns(d) /\ KeyOf(d) = KeyOf(c)
      BY <1>3, <1>5, <2>1 DEF Owns, InTransaction, KeyOf
    <3>2. ~InTransaction(d)
      BY <3>1 DEF Insert, Held
    <3>3. Committed(d) /\ orders[d].request = call[d].request
      BY <3>1, <3>2 DEF Owns, CreationInvariant, CallOK, OrderOfRequest
    <3>4. Taken(c)
      BY <3>1, <3>3 DEF Taken, OrdersWith, KeyOf
    <3>5. call'[c].at = "done" /\ ~Committed(c)
      BY <1>1, <1>3, <3>4 DEF CallOK, Progress
    <3> QED
      BY <1>5, <3>5 DEF Owns, InTransaction
  <2>2. \A d \in Calls : d # c => (Owns(d)' => Owns(d)) /\ KeyOf(d)' = KeyOf(d)
    BY <1>3, <1>5 DEF Owns, InTransaction, KeyOf
  <2> QED
    BY <1>1, <2>1, <2>2 DEF OneOwner
<1>7. OrdersKept
  BY <1>5 DEF OrdersKept
<1>8. CallOK(c)'
  <2>1. Progress(c) /\ Reservations(c) /\ ~Committed(c)' /\ call[c].answer = "none"
    BY <1>1, <1>5 DEF CallOK, Progress
  <2>2. Progress(c)'
    BY <1>1, <1>3, <2>1 DEF Progress
  <2>3. Reservations(c)' /\ Compensations(c)' /\ OrderOfRequest(c)'
    BY <1>1, <1>2, <1>3, <2>1 DEF Reservations, Compensations, OrderOfRequest
  <2>4. Announcements(c)'
    BY <1>1, <1>2, <1>3, <1>5 DEF CallOK, Announcements
  <2>5. Answers(c)'
    BY <1>3, <2>1, Unanswered
  <2> QED
    BY <2>2, <2>3, <2>4, <2>5 DEF CallOK
<1> QED
  BY <1>2, <1>3, <1>4, <1>5, <1>6, <1>7, <1>8, StepOfOne

LEMMA HandoffStep ==
    ASSUME CreationInvariant, NEW c \in Calls, Handoff(c)
    PROVE  CreationInvariant' /\ Quiet
<1> USE DEF At
<1>1. /\ TypeOK /\ OneOwner /\ call[c] \in Call /\ CallOK(c)
      /\ call[c].at = "handoff"
  BY DEF CreationInvariant, TypeOK, Handoff
<1>2. PICK at \in {"reserve", "rollback"} :
         /\ MoveTo(c, at)
         /\ UNCHANGED <<orders, stock, published, faults>>
  BY DEF Handoff, AfterHandoff
<1>3. /\ call' \in [Calls -> Call]
      /\ \A d \in Calls \ {c} : call'[d] = call[d]
      /\ call'[c].at = at /\ call'[c].request = call[c].request
      /\ call'[c].reserved = call[c].reserved /\ call'[c].released = call[c].released
      /\ call'[c].answer = call[c].answer /\ call'[c].order = call[c].order
  BY <1>1, <1>2, MoveChanges DEF TypeOK
<1>4. TypeOK'
  BY <1>1, <1>2, <1>3 DEF TypeOK
<1>5. \A d \in Calls : (Committed(d)' <=> Committed(d)) /\ orders'[d] = orders[d]
  BY <1>2 DEF Committed
<1>6. OneOwner'
  <2>1. \A d \in Calls : Owns(d)' => Owns(d) /\ call'[d].request = call[d].request
    BY <1>1, <1>3, <1>5 DEF Owns, InTransaction
  <2> QED
    BY <1>1, <2>1, NoNewOwner
<1>7. OrdersKept
  BY <1>5 DEF OrdersKept
<1>8. CallOK(c)'
  <2>1. Progress(c) /\ Reservations(c) /\ ~Committed(c)' /\ call[c].answer = "none"
    BY <1>1, <1>5 DEF CallOK, Progress
  <2>2. Progress(c)'
    BY <1>1, <1>3, <2>1 DEF Progress
  <2>3. Reservations(c)'
    <3>1. 1 \in Lines(call[c].request)
      BY <1>1, <2>1, RequestKnown, LinesAre
    <3>2. stock'[c] = {} /\ call'[c].reserved = 0 /\ call'[c].released = 0
      BY <1>1, <1>2, <1>3, <2>1 DEF Reservations
    <3>3. stock'[c] = 1 .. call'[c].reserved
      BY <3>2
    <3> QED
      BY <1>3, <2>1, <3>1, <3>2, <3>3 DEF Reservations
  <2>4. Compensations(c)' /\ OrderOfRequest(c)'
    BY <1>3, <2>1 DEF Compensations, OrderOfRequest
  <2>5. Announcements(c)'
    BY <1>1, <1>2, <1>3, <1>5 DEF CallOK, Announcements
  <2>6. Answers(c)'
    BY <1>3, <2>1, Unanswered
  <2> QED
    BY <2>2, <2>3, <2>4, <2>5, <2>6 DEF CallOK
<1>9. Quiet
  BY <1>2, <1>3, <1>5 DEF Quiet
<1> QED
  BY <1>2, <1>3, <1>4, <1>5, <1>6, <1>7, <1>8, <1>9, StepOfOne

LEMMA ReserveStep ==
    ASSUME CreationInvariant, NEW c \in Calls, Reserve(c)
    PROVE  CreationInvariant' /\ Quiet
<1> USE DEF At
<1> DEFINE n == call[c].reserved + 1
           at == IF AllReserved(c, n) THEN "commit" ELSE "reserve"
           held == [call[c] EXCEPT !.reserved = n, !.at = at]
           lost == [call[c] EXCEPT !.at = "release", !.lost = TRUE]
<1>1. /\ TypeOK /\ OneOwner /\ call[c] \in Call /\ CallOK(c)
      /\ call[c].at = "reserve" /\ UNCHANGED <<orders, published>> /\ faults' \in Nat
  BY DEF CreationInvariant, TypeOK, Reserve, Fault
<1>2. /\ n \in Nat
      /\ Progress(c) /\ Reservations(c) /\ ~Committed(c) /\ call[c].answer = "none"
      /\ stock[c] = 1 .. call[c].reserved /\ n \in Lines(call[c].request)
      /\ call[c].released = 0
  BY <1>1 DEF CallOK, Progress, Reservations, Call
<1>3. /\ \/ /\ call'[c].at = at /\ call'[c].reserved = n
            /\ stock' = [stock EXCEPT ![c] = @ \cup {n}]
         \/ /\ call'[c].at = "release" /\ call'[c].reserved = call[c].reserved
            /\ stock' = stock
         \/ /\ call'[c].at = "release" /\ call'[c].reserved = call[c].reserved /\ call'[c].lost
            /\ stock' = [stock EXCEPT ![c] = @ \cup {n}]
      /\ call' \in [Calls -> Call]
      /\ \A d \in Calls \ {c} : call'[d] = call[d]
      /\ call'[c].request = call[c].request /\ call'[c].released = call[c].released
      /\ call'[c].answer = call[c].answer /\ call'[c].order = call[c].order
  <2>1. CASE /\ stock' = [stock EXCEPT ![c] = @ \cup {n}]
             /\ call' = [call EXCEPT ![c] = held]
    <3>1. held \in Call
      BY <1>1, <1>2 DEF Call
    <3>2. /\ held.at = at /\ held.reserved = n /\ held.request = call[c].request
          /\ held.released = call[c].released
          /\ held.answer = call[c].answer /\ held.order = call[c].order
      BY <1>1 DEF Call
    <3> HIDE DEF held, n, at
    <3> QED
      BY <1>1, <2>1, <3>1, <3>2, CallBecomes DEF TypeOK
  <2>2. CASE MoveTo(c, "release") /\ UNCHANGED stock
    BY <1>1, <2>2, MoveChanges DEF TypeOK
  <2>3. CASE /\ stock' = [stock EXCEPT ![c] = @ \cup {n}]
             /\ call' = [call EXCEPT ![c] = lost]
    <3>1. lost \in Call
      BY <1>1 DEF Call
    <3>2. /\ lost.at = "release" /\ lost.lost /\ lost.reserved = call[c].reserved
          /\ lost.request = call[c].request /\ lost.released = call[c].released
          /\ lost.answer = call[c].answer /\ lost.order = call[c].order
      BY <1>1 DEF Call
    <3> HIDE DEF lost, n
    <3> QED
      BY <1>1, <2>3, <3>1, <3>2, CallBecomes DEF TypeOK
  <2> QED
    BY <2>1, <2>2, <2>3 DEF Reserve, AfterHandoff
<1> HIDE DEF held, lost
<1>4. TypeOK'
  <2>1. stock' \in [Calls -> SUBSET Nat]
    <3>1. stock \in [Calls -> SUBSET Nat] /\ stock[c] \cup {n} \in SUBSET Nat
      BY <1>1, <1>2 DEF TypeOK
    <3> HIDE DEF n, at
    <3> QED
      BY <1>3, <3>1
  <2> QED
    BY <1>1, <1>3, <2>1 DEF TypeOK
<1>5. \A d \in Calls : (Committed(d)' <=> Committed(d)) /\ orders'[d] = orders[d]
  BY <1>1 DEF Committed
<1>6. OneOwner'
  <2>1. \A d \in Calls : Owns(d)' => Owns(d) /\ call'[d].request = call[d].request
    BY <1>1, <1>3, <1>5 DEF Owns, InTransaction
  <2> QED
    BY <1>1, <2>1, NoNewOwner
<1>7. OrdersKept
  BY <1>5 DEF OrdersKept
<1>8. CallOK(c)'
  <2>1. Progress(c)'
    BY <1>1, <1>2, <1>3, <1>5 DEF Progress
  <2>2. Reservations(c)'
    <3>1. CASE call'[c].at = at /\ call'[c].reserved = n /\ stock' = [stock EXCEPT ![c] = @ \cup {n}]
      <4>1. stock'[c] = 1 .. n
        <5>1. stock'[c] = (1 .. call[c].reserved) \cup {n}
          BY <1>1, <1>2, <3>1 DEF TypeOK
        <5>2. call[c].reserved \in Nat
          BY <1>1 DEF Call
        <5> QED
          BY <5>1, <5>2
      <4>2. /\ call[c].request \in Valid
            /\ Lines(call[c].request) = 1 .. Len(Body[call[c].request].items)
            /\ Len(Body[call[c].request].items) \in Nat
        BY <1>1, <1>2, RequestKnown, LinesAre
      <4>3. CASE AllReserved(c, n)
        <5>1. n + 1 \notin Lines(call[c].request)
          BY <4>3 DEF AllReserved
        <5>2. Lines(call[c].request) = 1 .. n
          <6> HIDE DEF n
          <6> QED
            BY <1>2, <4>2, <5>1
        <5>3. call'[c].at = "commit"
          BY <3>1, <4>3
        <5> QED
          BY <1>3, <4>1, <5>2, <5>3 DEF Reservations
      <4>4. CASE ~AllReserved(c, n)
        <5>1. n + 1 \in Lines(call[c].request)
          BY <4>4 DEF AllReserved
        <5>2. call'[c].at = "reserve" /\ ~Committed(c)'
          BY <1>2, <1>5, <3>1, <4>4
        <5> QED
          BY <1>2, <1>3, <3>1, <4>1, <5>1, <5>2 DEF Reservations
      <4> QED
        BY <4>3, <4>4
    <3>2. CASE call'[c].at = "release" /\ call'[c].reserved = call[c].reserved
               /\ (call'[c].lost \/ stock' = stock)
      <4>1. call[c].reserved \in Nat
        BY <1>1 DEF Call
      <4>2. stock' = stock => stock'[c] = call'[c].released + 1 .. call'[c].reserved
        BY <1>2, <1>3, <3>2
      <4> QED
        BY <1>2, <1>3, <1>5, <3>2, <4>1, <4>2 DEF Reservations
    <3> QED
      BY <1>3, <3>1, <3>2
  <2>3. Compensations(c)' /\ OrderOfRequest(c)'
    BY <1>2, <1>3, <1>5 DEF Compensations, OrderOfRequest
  <2>4. Announcements(c)'
    BY <1>1, <1>3, <1>5 DEF CallOK, Announcements
  <2>5. Answers(c)'
    BY <1>2, <1>3, Unanswered
  <2> QED
    BY <2>1, <2>2, <2>3, <2>4, <2>5 DEF CallOK
<1>9. \A d \in Calls \ {c} : stock'[d] = stock[d]
  BY <1>1, <1>3 DEF TypeOK
<1>10. Quiet
  BY <1>3, <1>5 DEF Quiet
<1> QED
  BY <1>1, <1>3, <1>4, <1>5, <1>6, <1>7, <1>8, <1>9, <1>10, StepOfOne

LEMMA ReleaseStep ==
    ASSUME CreationInvariant, NEW c \in Calls, Release(c)
    PROVE  CreationInvariant' /\ Quiet
<1> USE DEF At
<1> DEFINE n == call[c].released + 1
           freed == [call[c] EXCEPT !.released = n]
           lost == [call[c] EXCEPT !.released = n, !.lost = TRUE]
<1>1. /\ TypeOK /\ OneOwner /\ call[c] \in Call /\ CallOK(c)
      /\ call[c].at = "release" /\ UNCHANGED <<orders, published>> /\ faults' \in Nat
  BY DEF CreationInvariant, TypeOK, Release, Fault
<1>2. /\ n \in Nat
      /\ Progress(c) /\ Reservations(c) /\ ~Committed(c) /\ call[c].answer = "none"
      /\ call[c].released <= call[c].reserved
      /\ ~call[c].lost => stock[c] = n .. call[c].reserved
      /\ call[c].released \in Nat /\ call[c].reserved \in Nat
  BY <1>1 DEF CallOK, Progress, Reservations, Call
<1>3. /\ \/ /\ call[c].released = call[c].reserved
            /\ call'[c].at = "rollback" /\ (call'[c].lost <=> call[c].lost)
            /\ call'[c].released = call[c].released
            /\ stock' = stock
         \/ /\ call[c].released # call[c].reserved
            /\ call'[c].at = "release" /\ (call'[c].lost <=> call[c].lost)
            /\ call'[c].released = n
            /\ stock' = [stock EXCEPT ![c] = @ \ {n}]
         \/ /\ call[c].released # call[c].reserved
            /\ call'[c].at = "release" /\ call'[c].lost
            /\ call'[c].released = n
            /\ stock' = stock
      /\ call' \in [Calls -> Call]
      /\ \A d \in Calls \ {c} : call'[d] = call[d]
      /\ call'[c].request = call[c].request /\ call'[c].reserved = call[c].reserved
      /\ call'[c].answer = call[c].answer /\ call'[c].order = call[c].order
  <2>1. CASE Compensated(call[c]) /\ MoveTo(c, "rollback") /\ UNCHANGED stock
    BY <1>1, <2>1, MoveChanges DEF TypeOK, Compensated
  <2>2. CASE /\ ~Compensated(call[c])
             /\ stock' = [stock EXCEPT ![c] = @ \ {n}]
             /\ call' = [call EXCEPT ![c] = freed]
    <3>1. freed \in Call
      BY <1>1, <1>2 DEF Call
    <3>2. /\ freed.at = "release" /\ freed.released = n /\ freed.reserved = call[c].reserved
          /\ freed.request = call[c].request /\ (freed.lost <=> call[c].lost)
          /\ freed.answer = call[c].answer /\ freed.order = call[c].order
      BY <1>1 DEF Call
    <3> HIDE DEF freed, n
    <3> QED
      BY <1>1, <2>2, <3>1, <3>2, CallBecomes DEF TypeOK, Compensated
  <2>3. CASE /\ ~Compensated(call[c])
             /\ call' = [call EXCEPT ![c] = lost]
             /\ UNCHANGED stock
    <3>1. lost \in Call
      BY <1>1, <1>2 DEF Call
    <3>2. /\ lost.at = "release" /\ lost.released = n /\ lost.reserved = call[c].reserved
          /\ lost.request = call[c].request /\ lost.lost
          /\ lost.answer = call[c].answer /\ lost.order = call[c].order
      BY <1>1 DEF Call
    <3> HIDE DEF lost, n
    <3> QED
      BY <1>1, <2>3, <3>1, <3>2, CallBecomes DEF TypeOK, Compensated
  <2> QED
    BY <2>1, <2>2, <2>3 DEF Release, AfterHandoff
<1> HIDE DEF freed, lost
<1>4. TypeOK'
  <2>1. stock' \in [Calls -> SUBSET Nat]
    BY <1>1, <1>3 DEF TypeOK
  <2> QED
    BY <1>1, <1>3, <2>1 DEF TypeOK
<1>5. \A d \in Calls : (Committed(d)' <=> Committed(d)) /\ orders'[d] = orders[d]
  BY <1>1 DEF Committed
<1>6. OneOwner'
  <2>1. \A d \in Calls : Owns(d)' => Owns(d) /\ call'[d].request = call[d].request
    BY <1>1, <1>3, <1>5 DEF Owns, InTransaction
  <2> QED
    BY <1>1, <2>1, NoNewOwner
<1>7. OrdersKept
  BY <1>5 DEF OrdersKept
<1>8. CallOK(c)'
  <2>1. Progress(c)'
    BY <1>1, <1>2, <1>3, <1>5 DEF Progress
  <2>2. Reservations(c)'
    <3>1. CASE call[c].released = call[c].reserved /\ call'[c].at = "rollback"
               /\ (call'[c].lost <=> call[c].lost) /\ stock' = stock
      <4>1. ~call[c].lost => stock[c] = {}
        BY <1>2, <3>1
      <4> QED
        BY <1>2, <1>5, <3>1, <4>1 DEF Reservations
    <3>2. CASE /\ call[c].released # call[c].reserved
               /\ call'[c].at = "release" /\ call'[c].released = n
               /\ call'[c].lost \/ ((call'[c].lost <=> call[c].lost)
                                    /\ stock' = [stock EXCEPT ![c] = @ \ {n}])
      <4>1. n <= call[c].reserved
        BY <1>2, <3>2
      <4>2. ~call'[c].lost => stock'[c] = n + 1 .. call[c].reserved
        <5>1. ~call'[c].lost => stock'[c] = (n .. call[c].reserved) \ {n}
          BY <1>1, <1>2, <3>2 DEF TypeOK
        <5>2. (n .. call[c].reserved) \ {n} = n + 1 .. call[c].reserved
          <6> HIDE DEF n
          <6> QED
            BY <1>2
        <5> QED
          BY <5>1, <5>2
      <4> QED
        BY <1>2, <1>3, <1>5, <3>2, <4>1, <4>2 DEF Reservations
    <3> QED
      BY <1>3, <3>1, <3>2
  <2>3. Compensations(c)' /\ OrderOfRequest(c)'
    BY <1>2, <1>3, <1>5 DEF Compensations, OrderOfRequest
  <2>4. Announcements(c)'
    BY <1>1, <1>3, <1>5 DEF CallOK, Announcements
  <2>5. Answers(c)'
    BY <1>2, <1>3, Unanswered
  <2> QED
    BY <2>1, <2>2, <2>3, <2>4, <2>5 DEF CallOK
<1>9. \A d \in Calls \ {c} : stock'[d] = stock[d]
  BY <1>1, <1>3 DEF TypeOK
<1>10. Quiet
  BY <1>3, <1>5 DEF Quiet
<1> QED
  BY <1>1, <1>3, <1>4, <1>5, <1>6, <1>7, <1>8, <1>9, <1>10, StepOfOne

LEMMA RollbackStep ==
    ASSUME CreationInvariant, NEW c \in Calls, Rollback(c)
    PROVE  CreationInvariant'
<1> USE DEF At
<1>1. /\ TypeOK /\ OneOwner /\ call[c] \in Call /\ CallOK(c)
      /\ call[c].at = "rollback" /\ UNCHANGED <<orders, stock, published, faults>>
  BY DEF CreationInvariant, TypeOK, Rollback
<1>2. /\ call' \in [Calls -> Call]
      /\ \A d \in Calls \ {c} : call'[d] = call[d]
      /\ call'[c].at = "done" /\ call'[c].answer = "failed" /\ call'[c].order = NoCall
      /\ call'[c].request = call[c].request /\ (call'[c].lost <=> call[c].lost)
  BY <1>1, AnswerChanges DEF TypeOK, Rollback
<1>3. TypeOK'
  BY <1>1, <1>2 DEF TypeOK
<1>4. \A d \in Calls : (Committed(d)' <=> Committed(d)) /\ orders'[d] = orders[d]
  BY <1>1 DEF Committed
<1>5. OneOwner'
  <2>1. \A d \in Calls : Owns(d)' => Owns(d) /\ call'[d].request = call[d].request
    BY <1>1, <1>2, <1>4 DEF Owns, InTransaction
  <2> QED
    BY <1>1, <2>1, NoNewOwner
<1>6. OrdersKept
  BY <1>4 DEF OrdersKept
<1>7. CallOK(c)'
  <2>1. Progress(c) /\ Reservations(c) /\ ~Committed(c)' /\ call[c].answer = "none"
    BY <1>1, <1>4 DEF CallOK, Progress
  <2>2. Progress(c)' /\ Reservations(c)'
    BY <1>1, <1>2, <2>1 DEF Progress, Reservations
  <2>3. Compensations(c)' /\ OrderOfRequest(c)'
    BY <1>1, <1>2, <2>1 DEF Reservations, Compensations, OrderOfRequest
  <2>4. Announcements(c)'
    BY <1>1, <1>2, <1>4 DEF CallOK, Announcements
  <2>5. Answers(c)'
    BY <1>2, Unanswered
  <2> QED
    BY <2>2, <2>3, <2>4, <2>5 DEF CallOK
<1> QED
  BY <1>1, <1>2, <1>3, <1>4, <1>5, <1>6, <1>7, StepOfOne

\* What a commit does, whether it succeeds, fails, or only seems to fail.
LEMMA CommitChanges ==
    ASSUME CreationInvariant, NEW c \in Calls, Commit(c)
    PROVE  LET row == [request |-> call[c].request, moved |-> FALSE] IN
           /\ row \in Order /\ row # NoOrder /\ ~Committed(c)
           /\ \/ /\ call'[c].at = "created" /\ call'[c].order = c /\ call'[c].answer = "none"
                 /\ orders' = [orders EXCEPT ![c] = row]
              \/ /\ call'[c].at = "done" /\ call'[c].order = NoCall /\ call'[c].answer = "failed"
                 /\ call'[c].lost
                 /\ orders' = orders \/ orders' = [orders EXCEPT ![c] = row]
           /\ call' \in [Calls -> Call]
           /\ \A d \in Calls \ {c} : call'[d] = call[d]
           /\ call'[c].request = call[c].request
<1> USE DEF At
<1> DEFINE row == [request |-> call[c].request, moved |-> FALSE]
           made == [call[c] EXCEPT !.at = "created", !.order = c]
           lost == [call[c] EXCEPT !.at = "done", !.answer = "failed", !.lost = TRUE]
<1>1. /\ TypeOK /\ call[c] \in Call /\ Progress(c) /\ call[c].at = "commit"
      /\ UNCHANGED <<stock, published>>
  BY DEF CreationInvariant, CallOK, TypeOK, Commit
<1>2. /\ ~Committed(c) /\ call[c].answer = "none" /\ call[c].order = NoCall
      /\ call[c].request \in Valid
  BY <1>1, RequestKnown DEF Progress
<1>3. row \in Order /\ row # NoOrder
  <2>1. row \in Order
    BY <1>2 DEF Order
  <2> QED
    BY <2>1, OrdersAreOrders
<1>4. CASE /\ orders' = [orders EXCEPT ![c] = row]
           /\ call' = [call EXCEPT ![c] = made]
  <2>1. made \in Call
    BY <1>1 DEF Call
  <2>2. /\ made.at = "created" /\ made.order = c
        /\ made.answer = call[c].answer /\ made.request = call[c].request
    BY <1>1 DEF Call
  <2> HIDE DEF made
  <2> QED
    BY <1>1, <1>2, <1>3, <1>4, <2>1, <2>2, CallBecomes DEF TypeOK
<1>5. CASE /\ orders' = orders \/ orders' = [orders EXCEPT ![c] = row]
           /\ call' = [call EXCEPT ![c] = lost]
  <2>1. lost \in Call
    BY <1>1 DEF Call
  <2>2. /\ lost.at = "done" /\ lost.order = call[c].order /\ lost.answer = "failed"
        /\ lost.lost /\ lost.request = call[c].request
    BY <1>1 DEF Call
  <2> HIDE DEF lost
  <2> QED
    BY <1>1, <1>2, <1>3, <1>5, <2>1, <2>2, CallBecomes DEF TypeOK
<1> QED
  BY <1>4, <1>5 DEF Commit, Store

LEMMA CommitStep ==
    ASSUME CreationInvariant, NEW c \in Calls, Commit(c)
    PROVE  CreationInvariant'
<1> USE DEF At
<1> DEFINE row == [request |-> call[c].request, moved |-> FALSE]
<1>1. /\ TypeOK /\ OneOwner /\ call[c] \in Call /\ CallOK(c)
      /\ call[c].at = "commit" /\ UNCHANGED <<stock, published>> /\ faults' \in Nat
  BY DEF CreationInvariant, TypeOK, Commit, Fault
<1>2. /\ Progress(c) /\ Reservations(c) /\ ~Committed(c) /\ call[c].answer = "none"
      /\ stock[c] = Lines(call[c].request) /\ call[c].order = NoCall
      /\ call[c].request \in Valid
  BY <1>1, RequestKnown DEF CallOK, Progress, Reservations
<1>3. row \in Order /\ row # NoOrder
  BY CommitChanges
<1>4. /\ \/ /\ call'[c].at = "created" /\ call'[c].order = c /\ call'[c].answer = "none"
            /\ orders' = [orders EXCEPT ![c] = row]
         \/ /\ call'[c].at = "done" /\ call'[c].order = NoCall /\ call'[c].answer = "failed"
            /\ call'[c].lost
            /\ orders' = orders \/ orders' = [orders EXCEPT ![c] = row]
      /\ call' \in [Calls -> Call]
      /\ \A d \in Calls \ {c} : call'[d] = call[d]
      /\ call'[c].request = call[c].request
  BY CommitChanges
<1> HIDE DEF row
<1>5. TypeOK'
  BY <1>1, <1>3, <1>4 DEF TypeOK
<1>6. /\ \A d \in Calls \ {c} : (Committed(d)' <=> Committed(d)) /\ orders'[d] = orders[d]
      /\ Committed(c)' => orders'[c] = row
      /\ call'[c].at = "created" => Committed(c)'
  BY <1>1, <1>2, <1>3, <1>4 DEF Committed, TypeOK
<1>7. OneOwner'
  <2>1. \A d \in Calls : Owns(d)' => Owns(d) /\ call'[d].request = call[d].request
    BY <1>1, <1>4, <1>6 DEF Owns, InTransaction
  <2> QED
    BY <1>1, <2>1, NoNewOwner
<1>8. OrdersKept
  BY <1>2, <1>6 DEF OrdersKept
<1>9. CallOK(c)'
  <2>1. Progress(c)' /\ Reservations(c)'
    BY <1>1, <1>2, <1>4, <1>6 DEF Progress, Reservations
  <2>2. OrderOfRequest(c)'
    BY <1>4, <1>6 DEF OrderOfRequest, row
  <2>3. Compensations(c)'
    BY <1>4 DEF Compensations
  <2>4. Announcements(c)'
    <3>1. published[c].created = 0 /\ published[c].lifecycle = 0
      BY <1>1, <1>2 DEF CallOK, Announcements, TypeOK
    <3> QED
      BY <1>1, <1>4, <3>1 DEF Announcements
  <2>5. Answers(c)'
    BY <1>4, Unanswered
  <2> QED
    BY <2>1, <2>2, <2>3, <2>4, <2>5 DEF CallOK
<1> QED
  BY <1>1, <1>4, <1>5, <1>6, <1>7, <1>8, <1>9, StepOfOne

LEMMA PublishStep ==
    ASSUME CreationInvariant, NEW c \in Calls, PublishCreated(c) \/ PublishLifecycle(c)
    PROVE  CreationInvariant' /\ (PublishCreated(c) => Quiet)
<1> USE DEF At
<1>1. /\ TypeOK /\ OneOwner /\ call[c] \in Call /\ CallOK(c)
      /\ UNCHANGED <<orders, stock, faults>> /\ call[c].at \in {"created", "lifecycle"}
  BY DEF CreationInvariant, TypeOK, PublishCreated, PublishLifecycle
<1>2. /\ Progress(c) /\ Reservations(c) /\ Announcements(c) /\ OrderOfRequest(c)
      /\ Committed(c) /\ call[c].answer = "none" /\ call[c].order = c
  BY <1>1 DEF CallOK, Progress, Reservations
<1>3. /\ \/ /\ call[c].at = "created" /\ call'[c].at = "lifecycle"
            /\ call'[c].answer = "none"
            /\ published' = [published EXCEPT ![c].created = @ + 1]
         \/ /\ call[c].at = "lifecycle" /\ call'[c].at = "done"
            /\ call'[c].answer = "created"
            /\ published' = [published EXCEPT ![c].lifecycle = @ + 1]
      /\ call' \in [Calls -> Call]
      /\ \A d \in Calls \ {c} : call'[d] = call[d]
      /\ call'[c].order = c /\ call'[c].request = call[c].request
  <2>1. CASE PublishCreated(c)
    BY <1>1, <1>2, <2>1, MoveChanges DEF PublishCreated, TypeOK
  <2>2. CASE PublishLifecycle(c)
    BY <1>1, <1>2, <2>2, AnswerChanges DEF PublishLifecycle, TypeOK
  <2> QED
    BY <2>1, <2>2
<1>4. /\ published' \in [Calls -> [created : Nat, lifecycle : Nat]]
      /\ \A d \in Calls \ {c} : published'[d] = published[d]
      /\ published'[c].created = 1
      /\ call'[c].at = "lifecycle" => published'[c].lifecycle = 0
      /\ published'[c].lifecycle <= 1
  BY <1>1, <1>2, <1>3 DEF TypeOK, Announcements
<1>5. TypeOK'
  BY <1>1, <1>3, <1>4 DEF TypeOK
<1>6. \A d \in Calls : (Committed(d)' <=> Committed(d)) /\ orders'[d] = orders[d]
  BY <1>1 DEF Committed
<1>7. OneOwner'
  <2>1. \A d \in Calls : Owns(d)' => Owns(d) /\ call'[d].request = call[d].request
    BY <1>1, <1>3, <1>6 DEF Owns, InTransaction
  <2> QED
    BY <1>1, <2>1, NoNewOwner
<1>8. OrdersKept
  BY <1>6 DEF OrdersKept
<1>9. CallOK(c)'
  <2>1. Progress(c)' /\ Reservations(c)' /\ OrderOfRequest(c)' /\ Compensations(c)'
    BY <1>1, <1>2, <1>3, <1>6 DEF Progress, Reservations, OrderOfRequest, Compensations
  <2>2. Announcements(c)'
    BY <1>2, <1>3, <1>4, <1>6 DEF Announcements
  <2>3. Answers(c)'
    BY <1>2, <1>3, <1>6 DEF Answers
  <2> QED
    BY <2>1, <2>2, <2>3 DEF CallOK
<1>10. PublishCreated(c) => Quiet
  BY <1>2, <1>3, <1>6 DEF Quiet, PublishCreated
<1> QED
  BY <1>1, <1>3, <1>4, <1>5, <1>6, <1>7, <1>8, <1>9, <1>10, StepOfOne

LEMMA MoveStep ==
    ASSUME CreationInvariant, NEW o \in Calls, Move(o)
    PROVE  CreationInvariant' /\ Quiet
<1>1. TypeOK /\ OneOwner /\ UNCHANGED <<stock, call, published, faults>>
  BY DEF CreationInvariant, Move
<1> DEFINE row == [orders[o] EXCEPT !.moved = TRUE]
<1>2. orders[o] \in Order /\ orders' = [orders EXCEPT ![o] = row]
  BY <1>1, RequestsAreValid DEF Move
<1>3. row \in Order /\ row.request = orders[o].request /\ row.moved
  BY <1>2 DEF Order
<1>4. row # NoOrder
  BY <1>3, OrdersAreOrders
<1> HIDE DEF row
<1>5. TypeOK'
  BY <1>1, <1>2, <1>3 DEF TypeOK
<1>6. /\ \A d \in Calls : Committed(d)' <=> Committed(d)
      /\ OrdersKept
  BY <1>1, <1>2, <1>3, <1>4 DEF Committed, OrdersKept, TypeOK, Move
<1>7. OneOwner'
  <2>1. \A d \in Calls : Owns(d)' => Owns(d) /\ call'[d].request = call[d].request
    BY <1>1, <1>6 DEF Owns, InTransaction
  <2> QED
    BY <1>1, <2>1, NoNewOwner
<1>8. ASSUME NEW d \in Calls
      PROVE  CallOK(d)'
  BY <1>1, <1>6, Bystander DEF CreationInvariant
<1>9. Quiet
  BY <1>1, <1>2, <1>3, <1>6 DEF Quiet, TypeOK
<1> QED
  BY <1>5, <1>7, <1>8, <1>9 DEF CreationInvariant

LEMMA CrashStep ==
    ASSUME CreationInvariant, Crash
    PROVE  CreationInvariant'
<1> USE DEF At
<1>1. TypeOK /\ OneOwner /\ UNCHANGED <<orders, stock, published>> /\ faults' \in Nat
  <2>1. UNCHANGED <<orders, stock, published>> /\ Fault
    BY DEF Crash
  <2> QED
    BY <2>1 DEF CreationInvariant, TypeOK, Fault
<1> DEFINE Dead(c) == [call[c] EXCEPT !.at = "done", !.answer = "failed",
                                      !.order = NoCall, !.lost = TRUE]
<1>2. call' = [c \in Calls |-> IF Running(c) THEN Dead(c) ELSE call[c]]
  BY DEF Crash
<1>3. ASSUME NEW c \in Calls
      PROVE  /\ Dead(c) \in Call /\ Dead(c).at = "done" /\ Dead(c).answer = "failed"
             /\ Dead(c).order = NoCall /\ Dead(c).lost /\ Dead(c).request = call[c].request
  BY <1>1 DEF Call, TypeOK
<1> HIDE DEF Dead
<1>4. TypeOK'
  <2>1. call' \in [Calls -> Call]
    BY <1>1, <1>2, <1>3 DEF TypeOK
  <2> QED
    BY <1>1, <2>1 DEF TypeOK
<1>5. \A d \in Calls : (Committed(d)' <=> Committed(d)) /\ orders'[d] = orders[d]
  BY <1>1 DEF Committed
<1>6. OrdersKept
  BY <1>5 DEF OrdersKept
<1>7. ASSUME NEW c \in Calls
      PROVE  \/ call'[c] = call[c]
             \/ /\ call'[c].at = "done" /\ call'[c].answer = "failed"
                /\ call'[c].order = NoCall /\ call'[c].lost
                /\ call'[c].request = call[c].request
                /\ Running(c)
  BY <1>2, <1>3
<1>8. OneOwner'
  <2>1. \A d \in Calls : Owns(d)' => Owns(d) /\ call'[d].request = call[d].request
    BY <1>5, <1>7 DEF Owns, InTransaction
  <2> QED
    BY <1>1, <2>1, NoNewOwner
<1>9. ASSUME NEW c \in Calls
      PROVE  CallOK(c)'
  <2>1. CASE call'[c] = call[c]
    BY <1>1, <1>5, <1>6, <2>1, Bystander DEF CreationInvariant
  <2>2. CASE /\ call'[c].at = "done" /\ call'[c].answer = "failed"
             /\ call'[c].order = NoCall /\ call'[c].lost
             /\ call'[c].request = call[c].request
             /\ Running(c)
    <3>1. CallOK(c)
      BY DEF CreationInvariant
    <3>2. Progress(c)' /\ Reservations(c)'
      BY <1>1, <1>5, <2>2, <3>1 DEF CallOK, Progress, Reservations, Running
    <3>3. Compensations(c)' /\ OrderOfRequest(c)'
      BY <1>1, <1>5, <2>2, <3>1 DEF CallOK, Compensations, OrderOfRequest
    <3>4. Announcements(c)'
      BY <1>1, <1>5, <2>2, <3>1 DEF CallOK, Announcements
    <3>5. Answers(c)'
      BY <2>2, Unanswered
    <3> QED
      BY <3>2, <3>3, <3>4, <3>5 DEF CallOK
  <2> QED
    BY <1>7, <2>1, <2>2
<1> QED
  BY <1>4, <1>8, <1>9 DEF CreationInvariant

\* A call reads its request, and goes on or is answered at once.
LEMMA ReadStep ==
    ASSUME CreationInvariant, NEW c \in Calls, call[c].at = "new",
           NEW r \in Valid \cup {NoRequest}, NEW at \in {"insert", "done"},
           NEW answer \in {"none", "rejected", "replayed", "conflict", "valid"},
           NEW o \in Calls \cup {NoCall},
           Read(c, r, at, answer, o),
           UNCHANGED <<orders, stock, published, faults>>,
           at = "insert" <=> answer = "none",
           at = "insert" => o = NoCall,
           r = NoRequest <=> answer = "rejected",
           answer \in {"rejected", "conflict"} => o = NoCall,
           answer = "replayed" =>
              o \in OrdersWith(Content[r].key) /\ Ordered[orders[o].request] = Ordered[r],
           answer = "conflict" =>
              \E p \in OrdersWith(Content[r].key) :
                 orders[p].moved \/ FALSE \in Compared[orders[p].request][r]
    PROVE  CreationInvariant'
<1> USE DEF At
<1> DEFINE j == [NewCall EXCEPT !.at = at, !.request = r, !.answer = answer, !.order = o]
<1>1. TypeOK /\ OneOwner /\ call[c] \in Call /\ CallOK(c)
  BY DEF CreationInvariant, TypeOK
<1>2. /\ j \in Call
      /\ j.at = at /\ j.request = r /\ j.answer = answer /\ j.order = o
      /\ j.reserved = 0 /\ j.released = 0 /\ ~j.lost
  BY DEF Call, NewCall
<1> HIDE DEF j
<1>3. /\ call' \in [Calls -> Call]
      /\ \A d \in Calls \ {c} : call'[d] = call[d]
      /\ call'[c] = j
  BY <1>1, <1>2, CallBecomes DEF TypeOK, Read, j
<1>4. TypeOK'
  BY <1>1, <1>3 DEF TypeOK
<1>5. \A d \in Calls : (Committed(d)' <=> Committed(d)) /\ orders'[d] = orders[d]
  BY DEF Committed
<1>6. Progress(c) /\ Reservations(c) /\ ~Committed(c)
  BY <1>1 DEF CallOK, Progress
<1>7. OneOwner'
  <2>1. \A d \in Calls : Owns(d)' => Owns(d) /\ call'[d].request = call[d].request
    BY <1>2, <1>3, <1>5, <1>6 DEF Owns, InTransaction
  <2> QED
    BY <1>1, <2>1, NoNewOwner
<1>8. OrdersKept
  BY <1>5 DEF OrdersKept
<1>9. CallOK(c)'
  <2>1. Progress(c)'
    BY <1>2, <1>3, <1>5, <1>6 DEF Progress
  <2>2. Reservations(c)' /\ OrderOfRequest(c)' /\ Compensations(c)'
    BY <1>2, <1>3, <1>5, <1>6 DEF Reservations, OrderOfRequest, Compensations
  <2>3. Announcements(c)'
    BY <1>1, <1>2, <1>3, <1>5, <1>6 DEF CallOK, Announcements
  <2>4. Answers(c)'
    <3>1. OrdersWith(Content[r].key)' = OrdersWith(Content[r].key)
      BY <1>5 DEF OrdersWith
    <3>2. call'[c].answer = answer /\ call'[c].request = r /\ call'[c].order = o
      BY <1>2, <1>3
    <3>3. answer = "replayed" => /\ o \in OrdersWith(Content[r].key)'
                                 /\ Ordered[orders'[o].request] = Ordered[r]
      BY <3>1
    <3>4. answer = "conflict" => \E p \in OrdersWith(Content[r].key)' :
                 orders'[p].moved \/ FALSE \in Compared[orders'[p].request][r]
      BY <3>1
    <3> QED
      BY <3>2, <3>3, <3>4 DEF Answers
  <2> QED
    BY <2>1, <2>2, <2>3, <2>4 DEF CallOK
<1> QED
  BY <1>3, <1>4, <1>5, <1>7, <1>8, <1>9, StepOfOne

\* What comes of the comparison with an order found under the key.
LEMMA ComparisonHolds ==
    ASSUME CreationInvariant, NEW r \in Valid, NEW o \in OrdersWith(Content[r].key),
           NEW same \in Compared[orders[o].request][r]
    PROVE  /\ o \in Calls
           /\ same \in BOOLEAN
           /\ MatchingReplay(orders[o].moved, same) =>
                 Ordered[orders[o].request] = Ordered[r]
           /\ ~MatchingReplay(orders[o].moved, same) =>
                 orders[o].moved \/ FALSE \in Compared[orders[o].request][r]
<1>1. o \in Calls /\ Committed(o)
  BY DEF OrdersWith
<1>2. orders[o].request \in Valid /\ orders[o].moved \in BOOLEAN
  BY <1>1, RequestsAreValid DEF CreationInvariant, Order
<1>3. same \in BOOLEAN
  BY <1>2 DEF Compared, Matching
<1>4. MatchingReplay(orders[o].moved, same) => same
  BY <1>2, <1>3 DEF MatchingReplay
<1>5. ~MatchingReplay(orders[o].moved, same) => orders[o].moved \/ same = FALSE
  BY <1>2, <1>3 DEF MatchingReplay
<1>6. same => same = TRUE
  BY <1>3
<1> QED
  BY <1>1, <1>2, <1>3, <1>4, <1>5, <1>6, LoadedAlike

LEMMA LookupStep ==
    ASSUME CreationInvariant, NEW c \in Calls, Lookup(c) \/ ValidateCreate(c)
    PROVE  CreationInvariant'
<1>1. call[c].at = "new" /\ UNCHANGED <<orders, stock, published, faults>>
  BY DEF Lookup, ValidateCreate
<1>2. NoRequest \notin Valid
  BY CreationAssumption DEF Valid
<1>3. CASE Read(c, NoRequest, "done", "rejected", NoCall)
  BY <1>1, <1>3, ReadStep
<1>4. ASSUME NEW r \in Valid, Read(c, r, "insert", "none", NoCall)
      PROVE  CreationInvariant'
  BY <1>1, <1>2, <1>4, ReadStep
<1>5. ASSUME NEW r \in Valid, Read(c, r, "done", "valid", NoCall)
      PROVE  CreationInvariant'
  BY <1>1, <1>2, <1>5, ReadStep
<1>6. ASSUME NEW r \in Valid, NEW o \in OrdersWith(Content[r].key),
             NEW same \in Compared[orders[o].request][r]
      PROVE  /\ MatchingReplay(orders[o].moved, same)
                  /\ (Read(c, r, "done", "replayed", o) \/ Read(c, r, "done", "valid", o))
                => CreationInvariant'
             /\ ~MatchingReplay(orders[o].moved, same) /\ Read(c, r, "done", "conflict", NoCall)
                => CreationInvariant'
  <2>1. o \in Calls
    BY ComparisonHolds
  <2>2. CASE MatchingReplay(orders[o].moved, same) /\ Read(c, r, "done", "replayed", o)
    <3>1. Ordered[orders[o].request] = Ordered[r]
      BY <2>2, ComparisonHolds
    <3> QED
      BY <1>1, <1>2, <2>1, <2>2, <3>1, ReadStep
  <2>3. CASE Read(c, r, "done", "valid", o)
    BY <1>1, <1>2, <2>1, <2>3, ReadStep
  <2>4. CASE ~MatchingReplay(orders[o].moved, same) /\ Read(c, r, "done", "conflict", NoCall)
    <3>1. orders[o].moved \/ FALSE \in Compared[orders[o].request][r]
      BY <2>4, ComparisonHolds
    <3> QED
      BY <1>1, <1>2, <2>4, <3>1, ReadStep
  <2> QED
    BY <2>2, <2>3, <2>4
<1>7. CASE Lookup(c)
  BY <1>3, <1>4, <1>6, <1>7 DEF Lookup, Found
<1>8. CASE ValidateCreate(c)
  BY <1>3, <1>5, <1>6, <1>8 DEF ValidateCreate
<1> QED
  BY <1>7, <1>8

-----------------------------------------------------------------------------

(***************************************************************************)
(* The invariant of every instance: create calls of any number, in any     *)
(* interleaving, with any number of lost answers, failed commits, crashes. *)
(***************************************************************************)

LEMMA InitKeeps ==
    ASSUME Init
    PROVE  CreationInvariant
<1>1. NewCall \in Call /\ NewCall.at = "new" /\ NewCall.answer = "none"
      /\ NewCall.order = NoCall /\ NewCall.request = NoRequest
      /\ NewCall.reserved = 0 /\ NewCall.released = 0
  BY DEF NewCall, Call
<1> HIDE DEF NewCall
<1>2. TypeOK
  BY <1>1 DEF Init, TypeOK
<1>3. ASSUME NEW c \in Calls
      PROVE  /\ call[c] = NewCall /\ stock[c] = {} /\ ~Committed(c)
             /\ published[c].created = 0 /\ published[c].lifecycle = 0
  BY DEF Init, Committed
<1>4. OneOwner
  BY <1>1, <1>3 DEF OneOwner, Owns, InTransaction
<1>5. ASSUME NEW c \in Calls
      PROVE  CallOK(c)
  <2>1. /\ call[c].at = "new" /\ call[c].answer = "none" /\ call[c].order = NoCall
        /\ call[c].request = NoRequest /\ call[c].reserved = 0 /\ call[c].released = 0
    BY <1>1, <1>3
  <2>2. Progress(c) /\ OrderOfRequest(c) /\ Reservations(c) /\ Compensations(c)
    BY <1>3, <2>1 DEF Progress, OrderOfRequest, Reservations, Compensations, At
  <2>3. Announcements(c) /\ Answers(c)
    BY <1>3, <2>1 DEF Announcements, Answers, At
  <2> QED
    BY <2>2, <2>3 DEF CallOK
<1> QED
  BY <1>2, <1>4, <1>5 DEF CreationInvariant

LEMMA NextKeeps ==
    ASSUME CreationInvariant, [Next]_vars
    PROVE  CreationInvariant'
<1>1. CASE Crash
  BY <1>1, CrashStep
<1>2. ASSUME NEW c \in Calls, Lookup(c) \/ ValidateCreate(c) \/ Step(c) \/ Move(c)
      PROVE  CreationInvariant'
  BY <1>2, LookupStep, InsertStep, HandoffStep, ReserveStep, ReleaseStep, RollbackStep,
     CommitStep, PublishStep, MoveStep DEF Step
<1>3. CASE UNCHANGED vars
  <2>1. TypeOK' /\ OneOwner' /\ OrdersKept
    BY <1>3 DEF CreationInvariant, vars, TypeOK, OneOwner, Owns, InTransaction, Committed,
                KeyOf, OrdersKept
  <2>2. ASSUME NEW c \in Calls
        PROVE  CallOK(c)'
    BY <1>3, <2>1, Bystander DEF CreationInvariant, vars, Committed
  <2> QED
    BY <2>1, <2>2 DEF CreationInvariant
<1> QED
  BY <1>1, <1>2, <1>3 DEF Next

LEMMA InvariantHolds == Spec => []CreationInvariant
<1>1. Init => CreationInvariant
  BY InitKeeps
<1>2. CreationInvariant /\ [Next]_vars => CreationInvariant'
  BY NextKeeps
<1> QED
  BY <1>1, <1>2, PTL DEF Spec

(***************************************************************************)
(* A call's record and an order's row always have their form: a call never *)
(* ends without an answer, nor reserves for a request it has not read.     *)
(***************************************************************************)
THEOREM TypeCorrect == Spec => []TypeOK
<1>1. CreationInvariant => TypeOK
  BY DEF CreationInvariant
<1> QED
  BY <1>1, InvariantHolds, PTL

-----------------------------------------------------------------------------

(***************************************************************************)
(* The safety properties follow from the invariant.                        *)
(***************************************************************************)

LEMMA OneForAKey ==
    ASSUME CreationInvariant, NEW k, NEW o \in OrdersWith(k), NEW p \in OrdersWith(k)
    PROVE  o = p
<1>1. o \in Calls /\ Committed(o) /\ p \in Calls /\ Committed(p)
      /\ Content[orders[o].request].key = Content[orders[p].request].key
  BY DEF OrdersWith
<1>2. orders[o].request = call[o].request /\ orders[p].request = call[p].request
  BY <1>1 DEF CreationInvariant, CallOK, OrderOfRequest
<1> QED
  BY <1>1, <1>2 DEF CreationInvariant, OneOwner, Owns, KeyOf

LEMMA OneForAnIdentity ==
    ASSUME CreationInvariant, NEW o \in Calls, NEW r \in Valid,
           Committed(o), SameIdentity(orders[o].request, r)
    PROVE  o \in OrdersWith(Content[r].key)
<1>1. orders[o].request \in Valid
  BY RequestsAreValid DEF CreationInvariant
<1> QED
  BY <1>1, KeysAreIdentities DEF OrdersWith

\* Concurrent creates leave one order for an identity.
THEOREM OneOrder == Spec => []OneOrderPerKey
<1>1. CreationInvariant => OneOrderPerKey
  <2> SUFFICES ASSUME CreationInvariant, NEW c \in Calls, NEW d \in Calls,
                      Committed(c), Committed(d),
                      SameIdentity(orders[c].request, orders[d].request)
               PROVE  c = d
    BY DEF OneOrderPerKey
  <2>1. orders[d].request \in Valid
    BY RequestsAreValid DEF CreationInvariant
  <2>2. c \in OrdersWith(Content[orders[d].request].key)
    BY <2>1, OneForAnIdentity
  <2>3. d \in OrdersWith(Content[orders[d].request].key)
    BY DEF OrdersWith
  <2> QED
    BY <2>2, <2>3, OneForAKey
<1> QED
  BY <1>1, InvariantHolds, PTL

\* A committed order holds each of its lines at Warehouse.
THEOREM Reserved == Spec => []CommittedIsReserved
<1>1. CreationInvariant => CommittedIsReserved
  BY DEF CreationInvariant, CallOK, Reservations, OrderOfRequest, CommittedIsReserved
<1> QED
  BY <1>1, InvariantHolds, PTL

\* The events of an order are published once, in their order, after the commit.
THEOREM Announced == Spec => []AnnouncedOnce
<1>1. CreationInvariant => AnnouncedOnce
  BY DEF CreationInvariant, CallOK, Announcements, AnnouncedOnce
<1> QED
  BY <1>1, InvariantHolds, PTL

\* A create that ended without an order, and that no fault hit, holds nothing.
THEOREM NothingHeld == Spec => []FailedHoldsNothing
<1>1. CreationInvariant => FailedHoldsNothing
  BY DEF CreationInvariant, CallOK, Compensations, FailedHoldsNothing, At
<1> QED
  BY <1>1, InvariantHolds, PTL

\* The order a successful answer names.
LEMMA AnswerNames ==
    ASSUME CreationInvariant, NEW c \in Calls, Succeeded(c)
    PROVE  /\ call[c].request \in Valid
           /\ call[c].order \in OrdersWith(Content[call[c].request].key)
           /\ Ordered[orders[call[c].order].request] = Ordered[call[c].request]
<1>1. CallOK(c) /\ TypeOK /\ Progress(c) /\ Answers(c)
  BY DEF CreationInvariant, CallOK
<1>2. call[c].request \in Valid
  <2>1. call[c].answer \notin {"none", "rejected"}
    BY DEF Succeeded
  <2>2. call[c].at # "new"
    BY <1>1, <2>1 DEF Progress, At
  <2> QED
    BY <1>1, <2>1, <2>2, RequestKnown
<1>3. CASE call[c].answer = "created"
  <2>1. call[c].order = c /\ Committed(c)
    BY <1>1, <1>3 DEF Answers
  <2>2. orders[c].request = call[c].request
    BY <1>1, <2>1 DEF CallOK, OrderOfRequest
  <2> QED
    BY <1>2, <2>1, <2>2 DEF OrdersWith
<1>4. CASE call[c].answer = "replayed"
  BY <1>1, <1>2, <1>4 DEF Answers
<1> QED
  BY <1>3, <1>4 DEF Succeeded

(***************************************************************************)
(* Every successful answer names a committed order of the caller's         *)
(* identity that orders what it asked for, the same for all callers.       *)
(***************************************************************************)
THEOREM Agreement == Spec => []AnswersAgree
<1>1. CreationInvariant => AnswersAgree
  <2> SUFFICES ASSUME CreationInvariant, NEW c \in Calls, Succeeded(c)
               PROVE  LET o == call[c].order IN
                      /\ Committed(o)
                      /\ SameIdentity(orders[o].request, call[c].request)
                      /\ Ordered[orders[o].request] = Ordered[call[c].request]
                      /\ \A d \in Calls :
                            (Succeeded(d) /\ SameIdentity(call[d].request, call[c].request))
                                => call[d].order = o
    BY DEF AnswersAgree
  <2> DEFINE r == call[c].request
             o == call[c].order
  <2>1. /\ r \in Valid /\ o \in OrdersWith(Content[r].key)
        /\ Ordered[orders[o].request] = Ordered[r]
    BY AnswerNames
  <2>2. /\ o \in Calls /\ Committed(o)
        /\ Content[orders[o].request].key = Content[r].key
    BY <2>1 DEF OrdersWith
  <2>3. SameIdentity(orders[o].request, r)
    BY <2>1, <2>2, RequestsAreValid, KeysAreIdentities DEF CreationInvariant
  <2>4. ASSUME NEW d \in Calls, Succeeded(d), SameIdentity(call[d].request, r)
        PROVE  call[d].order = o
    <3>1. /\ call[d].request \in Valid
          /\ call[d].order \in OrdersWith(Content[call[d].request].key)
      BY <2>4, AnswerNames
    <3>2. Content[call[d].request].key = Content[r].key
      BY <2>1, <2>4, <3>1, KeysAreIdentities
    <3> QED
      BY <2>1, <3>1, <3>2, OneForAKey
  <2> QED
    BY <2>1, <2>2, <2>3, <2>4
<1> QED
  BY <1>1, InvariantHolds, PTL

-----------------------------------------------------------------------------

(***************************************************************************)
(* What a conflict can be about.                                           *)
(***************************************************************************)

LEMMA AbsentStays == LowerCase(Absent) = Absent
<1>1. /\ Absent \in [word : {""}, padded : BOOLEAN, upper : BOOLEAN, long : BOOLEAN]
      /\ Absent.upper = FALSE
  BY DEF Absent
<1> QED
  BY <1>1 DEF LowerCase

\* The subject is found from the words alone.
LEMMA SubjectsDecide ==
    ASSUME NEW r \in Valid, NEW s \in Valid, Subjects(Body[s]) = Subjects(Body[r])
    PROVE  Content[s].subject = Content[r].subject
<1> DEFINE Low(t) == LowerCase(OptionalString(t))
<1>1. ASSUME NEW t \in Text, t.word = ""
      PROVE  Low(t) = Absent
  BY <1>1, AbsentStays DEF OptionalString
<1>2. ASSUME NEW t \in Text, NEW u \in Text,
             t.word # "", u.word = t.word, u.long = t.long
      PROVE  Low(u) = Low(t)
  <2>1. OptionalString(t) = Trim(t) /\ OptionalString(u) = Trim(u)
    BY <1>2 DEF OptionalString
  <2>2. LowerCase(Trim(u)) = LowerCase(Trim(t))
    BY <1>2 DEF Text, Trim, LowerCase
  <2> QED
    BY <2>1, <2>2
<1>3. ASSUME NEW b \in CreateOrderRequestDto, NEW d \in CreateOrderRequestDto,
             Subjects(b) \subseteq Subjects(d)
      PROVE  Candidates(b) \subseteq Candidates(d)
  <2>1. \A f \in SubjectField : b.customer[f] \in Text /\ d.customer[f] \in Text
    BY DEF CreateOrderRequestDto
  <2>2. ASSUME NEW x \in Candidates(b)
        PROVE  x \in Candidates(d)
    <3>1. PICK f \in SubjectField : x = Low(b.customer[f]) /\ x # Absent
      BY DEF Candidates
    <3>2. b.customer[f].word # ""
      BY <1>1, <2>1, <3>1
    <3>3. <<b.customer[f].word, b.customer[f].long>> \in Subjects(d)
      BY <1>3, <3>2 DEF Subjects
    <3>4. PICK g \in SubjectField :
             d.customer[g].word = b.customer[f].word /\ d.customer[g].long = b.customer[f].long
      BY <3>3 DEF Subjects
    <3>5. Low(d.customer[g]) = x
      BY <1>2, <2>1, <3>1, <3>2, <3>4
    <3> QED
      BY <3>1, <3>5 DEF Candidates
  <2> QED
    BY <2>2
<1>4. Candidates(Body[s]) = Candidates(Body[r])
  <2>1. Body[s] \in CreateOrderRequestDto /\ Body[r] \in CreateOrderRequestDto
    BY BodyType
  <2>2. Candidates(Body[s]) \subseteq Candidates(Body[r])
    BY <1>3, <2>1
  <2>3. Candidates(Body[r]) \subseteq Candidates(Body[s])
    BY <1>3, <2>1
  <2> QED
    BY <2>2, <2>3
<1>5. Subject(Body[s]) = Subject(Body[r])
  BY <1>4 DEF Subject
<1>6. Content[s].subject = Subject(Body[s]) /\ Content[r].subject = Subject(Body[r])
  BY ContentOf
<1> QED
  BY <1>5, <1>6

\* A content is its key, its subject and the rest.
LEMMA PartsMakeContent ==
    ASSUME NEW r \in Valid, NEW s \in Valid,
           Content[s].key = Content[r].key, Content[s].subject = Content[r].subject,
           Described(s) = Described(r)
    PROVE  Content[s] = Content[r]
<1> DEFINE Rest == {"status", "subtotal", "shippingCost", "total", "currency", "paymentStatus",
                    "address", "bundles", "orderedAt", "items"}
           F == Rest \cup {"key", "subject"}
<1>1. ASSUME NEW q \in Valid
      PROVE  DOMAIN Content[q] = F /\ Content[q] = [f \in F |-> Content[q][f]]
  <2>1. Content[q] = Normalized(Body[q])
    BY BodyType
  <2>2. DOMAIN Normalized(Body[q]) = F
    BY DEF Normalized
  <2>3. Normalized(Body[q]) = [f \in F |-> Normalized(Body[q])[f]]
    BY DEF Normalized
  <2> QED
    BY <2>1, <2>2, <2>3
<1>2. ASSUME NEW f \in Rest
      PROVE  Content[s][f] = Content[r][f]
  <2>1. f \in DOMAIN Content[s] \ {"key", "subject"} /\ f \in DOMAIN Content[r] \ {"key", "subject"}
    BY <1>1
  <2>2. Described(s)[f] = Content[s][f] /\ Described(r)[f] = Content[r][f]
    BY <2>1 DEF Described
  <2> QED
    BY <2>2
<1>3. \A f \in F : Content[s][f] = Content[r][f]
  BY <1>2
<1> HIDE DEF F, Rest
<1>4. [f \in F |-> Content[s][f]] = [f \in F |-> Content[r][f]]
  BY <1>3
<1> QED
  BY <1>1, <1>4

\* A single line is loaded in one order only.
LEMMA OneLineLoads ==
    ASSUME NEW s \in Valid, Cardinality(Lines(s)) <= 1
    PROVE  Loaded(Content[s]) = {Content[s]}
<1> DEFINE n == Len(Body[s].items)
           items == Content[s].items
<1>1. n \in Nat /\ Lines(s) = 1 .. n /\ 1 \in Lines(s)
  BY LinesAre
<1>2. Cardinality(1 .. n) = n
  <2>1. 1 \in Int /\ n \in Int /\ 1 <= n
    BY <1>1
  <2> HIDE DEF n
  <2> QED
    BY <2>1, FS_Interval
<1>3. Lines(s) = {1}
  <2> HIDE DEF n
  <2>1. n = 1
    BY <1>1, <1>2
  <2> QED
    BY <1>1, <2>1
<1>4. DOMAIN items = {1}
  BY <1>3 DEF Lines
<1>5. Content[s] = [Content[s] EXCEPT !.items = items]
  <2>1. Content[s] = Normalized(Body[s])
    BY BodyType
  <2> QED
    BY <2>1 DEF Normalized
<1>6. items = [i \in {1} |-> items[i]]
  <2>1. items = Items(Body[s])
    BY ContentOf
  <2>2. items = [i \in DOMAIN items |-> items[i]]
    BY <2>1 DEF Items
  <2> QED
    BY <1>4, <2>2
<1> HIDE DEF items
<1>7. \A p \in [{1} -> {1}] : [i \in {1} |-> items[p[i]]] = items
  BY <1>6
<1>8. [i \in {1} |-> 1] \in [{1} -> {1}]
  OBVIOUS
<1>9. ASSUME NEW e
      PROVE  e \in Loaded(Content[s]) <=> e = Content[s]
  <2> DEFINE Made(p) == [Content[s] EXCEPT !.items = [i \in {1} |-> items[p[i]]]]
  <2>1. e \in Loaded(Content[s]) <=>
           \E p \in [{1} -> {1}] : (\A i, j \in {1} : p[i] = p[j] => i = j) /\ e = Made(p)
    BY <1>4 DEF Loaded, items
  <2>2. \A p \in [{1} -> {1}] : Made(p) = Content[s]
    BY <1>5, <1>7
  <2>3. \A i, j \in {1} : i = j
    OBVIOUS
  <2> HIDE DEF Made
  <2> QED
    BY <1>8, <2>1, <2>2, <2>3
<1> QED
  BY <1>9

(***************************************************************************)
(* A refusal as a conflict has a cause in the order or in what was asked,  *)
(* and never in the spelling of the identity or of the subject.            *)
(***************************************************************************)
THEOREM Refusals == Spec => []ConflictHasCause
<1>1. CreationInvariant => ConflictHasCause
  <2> SUFFICES ASSUME CreationInvariant, NEW c \in Calls, NEW o \in Calls,
                      call[c].answer = "conflict", Committed(o),
                      SameIdentity(orders[o].request, call[c].request),
                      ~orders[o].moved,
                      ~(Cardinality(Lines(orders[o].request)) > 1)
               PROVE  \/ Described(orders[o].request) # Described(call[c].request)
                      \/ Subjects(Body[orders[o].request]) # Subjects(Body[call[c].request])
    BY DEF ConflictHasCause
  <2> DEFINE r == call[c].request
             s == orders[o].request
  <2>1. CallOK(c) /\ TypeOK /\ Progress(c) /\ Answers(c)
    BY DEF CreationInvariant, CallOK
  <2>2. r \in Valid /\ s \in Valid
    <3>1. call[c].at # "new"
      BY <2>1 DEF Progress, At
    <3> QED
      BY <2>1, <3>1, RequestKnown, RequestsAreValid
  <2>3. PICK p \in OrdersWith(Content[r].key) :
           orders[p].moved \/ FALSE \in Compared[orders[p].request][r]
    BY <2>1 DEF Answers
  <2>4. o \in OrdersWith(Content[r].key)
    BY <2>2, OneForAnIdentity
  <2>5. FALSE \in Compared[s][r]
    <3>1. o = p
      BY <2>3, <2>4, OneForAKey
    <3> QED
      BY <2>3, <3>1
  <2>6. PICK e \in Loaded(Content[s]) : ~Matching(e, Content[r])
    BY <2>2, <2>5 DEF Compared
  <2>7. Cardinality(Lines(s)) <= 1
    <3>1. Cardinality(Lines(s)) \in Nat
      <4>1. Len(Body[s].items) \in Int /\ 1 \in Int /\ Lines(s) = 1 .. Len(Body[s].items)
        BY <2>2, LinesAre
      <4> QED
        BY <4>1, FS_Interval, FS_CardinalityType
    <3> QED
      BY <3>1
  <2>8. Content[s] # Content[r]
    BY <2>2, <2>6, <2>7, OneLineLoads DEF Matching
  <2>9. Content[s].key = Content[r].key
    BY <2>2, KeysAreIdentities
  <2> QED
    BY <2>2, <2>8, <2>9, SubjectsDecide, PartsMakeContent
<1> QED
  BY <1>1, InvariantHolds, PTL

-----------------------------------------------------------------------------

(***************************************************************************)
(* Order creation implements OrderRegister: every step is a step of the    *)
(* register, or changes nothing it shows.                                  *)
(***************************************************************************)

\* What the register shows of a call.
LEMMA ShownOf ==
    ASSUME CreationInvariant, NEW c \in Calls
    PROVE  /\ Answered[c][1] = call[c].answer
           /\ Register!Pending(c) <=> call[c].answer = "none"
           /\ call[c].request = NoRequest => Asked[c] = NoRequest
           /\ call[c].request \in Valid =>
                 /\ Asked[c] = Ask[call[c].request] /\ Asked[c] # NoRequest
                 /\ Asked[c] \in Asks
                 /\ Asked[c].key = Content[call[c].request].key
                 /\ Asked[c].ordered = Ordered[call[c].request]
<1>1. Answered[c] = <<call[c].answer, call[c].order>>
  BY DEF Answered
<1>2. NoRequest \notin Valid
  BY CreationAssumption DEF Valid
<1>3. ASSUME NEW r \in Valid
      PROVE  /\ Ask[r] \in Asks /\ Ask[r] # NoRequest
             /\ Ask[r].key = Content[r].key /\ Ask[r].ordered = Ordered[r]
  BY NothingAssumption DEF Asks, Ask
<1>4. Asked[c] = IF call[c].request = NoRequest THEN NoRequest ELSE Ask[call[c].request]
  BY DEF Asked
<1> QED
  BY <1>1, <1>2, <1>3, <1>4 DEF Register!Pending

LEMMA KeptOf ==
    ASSUME NEW r \in Valid
    PROVE  /\ Content[r].key \in Register!Keys
           /\ Kept[Content[r].key] = {[by |-> o, ordered |-> Ordered[orders[o].request]] :
                                         o \in OrdersWith(Content[r].key)}
<1>1. Ask[r] \in Asks /\ Ask[r].key = Content[r].key
  BY DEF Asks, Ask
<1>2. Content[r].key \in {a.key : a \in Asks}
  BY <1>1
<1> QED
  BY <1>2 DEF Kept, Register!Keys

\* The orders the register shows are those of the same calls and requests.
LEMMA KeptStays ==
    ASSUME \A o \in Calls : /\ Committed(o)' <=> Committed(o)
                            /\ orders'[o].request = orders[o].request
    PROVE  Kept' = Kept
<1>1. \A k : OrdersWith(k)' = OrdersWith(k)
  BY DEF OrdersWith
<1>2. ASSUME NEW k
      PROVE  {[by |-> o, ordered |-> Ordered[orders'[o].request]] : o \in OrdersWith(k)'}
               = {[by |-> o, ordered |-> Ordered[orders[o].request]] : o \in OrdersWith(k)}
  <2>1. \A o \in OrdersWith(k) : orders'[o].request = orders[o].request
    BY DEF OrdersWith
  <2> QED
    BY <1>1, <2>1
<1> QED
  BY <1>2 DEF Kept

LEMMA QuietStutters ==
    ASSUME Quiet
    PROVE  UNCHANGED Register!vars
<1>1. Kept' = Kept
  BY KeptStays DEF Quiet
<1>2. Asked' = Asked /\ Answered' = Answered
  BY DEF Quiet, Asked, Answered
<1> QED
  BY <1>1, <1>2 DEF Register!vars

\* A step that only changes what one call is answered.
LEMMA AnswerShows ==
    ASSUME NEW c \in Calls, NEW answer, NEW o,
           \A d \in Calls \ {c} : call'[d] = call[d],
           call'[c].request = call[c].request,
           call'[c].answer = answer, call'[c].order = o
    PROVE  Asked' = Asked /\ Answered' = [Answered EXCEPT ![c] = <<answer, o>>]
BY DEF Asked, Answered

LEMMA FailShows ==
    ASSUME CreationInvariant, NEW c \in Calls, call[c].answer = "none",
           call[c].request \in Valid,
           Asked' = Asked, Answered' = [Answered EXCEPT ![c] = <<"failed", NoCall>>],
           Kept' = Kept
    PROVE  Register!Next
<1>1. Answered' = [d \in Calls |-> IF d \in {c} THEN <<"failed", NoCall>> ELSE Answered[d]]
  BY DEF Answered
<1>2. \A d \in {c} : Register!Pending(d) /\ Asked[d] # NoRequest
  BY ShownOf
<1>3. Register!Fail({c})
  BY <1>1, <1>2 DEF Register!Fail
<1>4. {c} \in SUBSET Calls
  OBVIOUS
<1> QED
  BY <1>3, <1>4 DEF Register!Next

\* A call that reads a request: what the register shows of it afterwards.
LEMMA ReadShows ==
    ASSUME CreationInvariant, NEW c \in Calls, call[c].at = "new",
           NEW r \in Valid \cup {NoRequest}, NEW at, NEW answer, NEW o,
           Read(c, r, at, answer, o), UNCHANGED orders
    PROVE  /\ Kept' = Kept
           /\ Answered' = [Answered EXCEPT ![c] = <<answer, o>>]
           /\ answer = "none" /\ o = NoCall => Answered' = Answered
           /\ Register!Pending(c) /\ Asked[c] = NoRequest
           /\ r = NoRequest => Asked' = Asked
           /\ r \in Valid => Asked' = [Asked EXCEPT ![c] = Ask[r]]
<1> DEFINE j == [NewCall EXCEPT !.at = at, !.request = r, !.answer = answer, !.order = o]
<1>1. j.request = r /\ j.answer = answer /\ j.order = o
  BY DEF NewCall
<1> HIDE DEF j
<1>2. call \in [Calls -> Call] /\ Progress(c)
  BY DEF CreationInvariant, TypeOK, CallOK
<1>3. call[c].answer = "none" /\ call[c].request = NoRequest /\ call[c].order = NoCall
  BY <1>2 DEF Progress, At
<1>4. call'[c] = j /\ \A d \in Calls \ {c} : call'[d] = call[d]
  BY <1>2 DEF Read, j
<1>5. NoRequest \notin Valid
  BY CreationAssumption DEF Valid
<1>6. Kept' = Kept
  BY KeptStays DEF Committed
<1>7. Answered' = [Answered EXCEPT ![c] = <<answer, o>>]
  BY <1>1, <1>4 DEF Answered
<1>8. answer = "none" /\ o = NoCall => Answered' = Answered
  BY <1>1, <1>3, <1>4 DEF Answered
<1>9. /\ r = NoRequest => Asked' = Asked
      /\ r \in Valid => Asked' = [Asked EXCEPT ![c] = Ask[r]]
  BY <1>1, <1>3, <1>4, <1>5 DEF Asked
<1> QED
  BY <1>3, <1>6, <1>7, <1>8, <1>9, ShownOf

\* The register's part in answering a call as soon as its request is read.
LEMMA ConsultShows ==
    ASSUME CreationInvariant, NEW c \in Calls, call[c].at = "new", NEW r \in Valid,
           NEW answer, NEW o, Read(c, r, "done", answer, o), UNCHANGED orders,
           \/ /\ answer \in {"replayed", "valid"} /\ o \in OrdersWith(Content[r].key)
              /\ Ordered[orders[o].request] = Ordered[r]
           \/ answer = "conflict" /\ o = NoCall /\ OrdersWith(Content[r].key) # {}
           \/ answer = "valid" /\ o = NoCall /\ OrdersWith(Content[r].key) = {}
    PROVE  Register!Next
<1> DEFINE k == Content[r].key
           Entry(p) == [by |-> p, ordered |-> Ordered[orders[p].request]]
<1>1. /\ Kept' = Kept
      /\ Answered' = [Answered EXCEPT ![c] = <<answer, o>>]
      /\ Register!Pending(c) /\ Asked[c] = NoRequest
      /\ Asked' = [Asked EXCEPT ![c] = Ask[r]]
  BY ReadShows
<1>2. Ask[r] \in Asks /\ Ask[r].key = k /\ Ask[r].ordered = Ordered[r]
  BY DEF Ask, Asks
<1>3. Asked'[c] = Ask[r]
  BY <1>1 DEF Asked
<1>4. Register!Ask(c)
  BY <1>1, <1>2 DEF Register!Ask
<1>5. Kept[k] = {Entry(p) : p \in OrdersWith(k)}
  BY KeptOf
<1>6. Kept[Asked'[c].key] = Kept[k] /\ Asked'[c].ordered = Ordered[r]
  BY <1>2, <1>3
<1>7. Register!Reply(c, answer, o)
  BY <1>1 DEF Register!Reply
<1>8. CASE /\ answer \in {"replayed", "valid"} /\ o \in OrdersWith(k)
           /\ Ordered[orders[o].request] = Ordered[r]
  <2>1. Entry(o) \in Kept[k] /\ Entry(o).ordered = Ordered[r] /\ Entry(o).by = o
    BY <1>5, <1>8
  <2> HIDE DEF Entry
  <2>2. \E e \in Kept[Asked'[c].key] :
           /\ e.ordered = Asked'[c].ordered
           /\ Register!Reply(c, "replayed", e.by) \/ Register!Reply(c, "valid", e.by)
    BY <1>6, <1>7, <1>8, <2>1
  <2>3. Register!Consult(c)
    BY <1>1, <1>4, <2>2 DEF Register!Consult
  <2> QED
    BY <2>3 DEF Register!Next
<1>9. CASE answer = "conflict" /\ o = NoCall /\ OrdersWith(k) # {}
  <2>1. Kept[Asked'[c].key] # {}
    BY <1>5, <1>6, <1>9
  <2>2. Register!Consult(c)
    BY <1>1, <1>4, <1>7, <1>9, <2>1 DEF Register!Consult
  <2> QED
    BY <2>2 DEF Register!Next
<1>10. CASE answer = "valid" /\ o = NoCall /\ OrdersWith(k) = {}
  <2>1. Kept[Asked'[c].key] = {}
    BY <1>5, <1>6, <1>10
  <2>2. Register!Consult(c)
    BY <1>1, <1>4, <1>7, <1>10, <2>1 DEF Register!Consult
  <2> QED
    BY <2>2 DEF Register!Next
<1> QED
  BY <1>8, <1>9, <1>10

LEMMA LookupShows ==
    ASSUME CreationInvariant, NEW c \in Calls, Lookup(c) \/ ValidateCreate(c)
    PROVE  Register!Next
<1>1. call[c].at = "new" /\ UNCHANGED orders
  BY DEF Lookup, ValidateCreate
<1>2. ASSUME Read(c, NoRequest, "done", "rejected", NoCall)
      PROVE  Register!Next
  <2>1. /\ Kept' = Kept /\ Asked' = Asked /\ Register!Pending(c) /\ Asked[c] = NoRequest
        /\ Answered' = [Answered EXCEPT ![c] = <<"rejected", NoCall>>]
    BY <1>1, <1>2, ReadShows
  <2>2. Register!Reject(c)
    BY <2>1 DEF Register!Reject, Register!Reply
  <2> QED
    BY <2>2 DEF Register!Next
<1>3. ASSUME NEW r \in Valid, Read(c, r, "insert", "none", NoCall)
      PROVE  Register!Next
  <2>1. /\ Kept' = Kept /\ Answered' = Answered /\ Register!Pending(c)
        /\ Asked[c] = NoRequest /\ Asked' = [Asked EXCEPT ![c] = Ask[r]]
    BY <1>1, <1>3, ReadShows
  <2>2. Ask[r] \in Asks
    BY DEF Asks
  <2>3. Register!Begin(c)
    BY <2>1, <2>2 DEF Register!Begin, Register!Ask
  <2> QED
    BY <2>3 DEF Register!Next
<1>4. ASSUME NEW r \in Valid, OrdersWith(Content[r].key) = {},
             Read(c, r, "done", "valid", NoCall)
      PROVE  Register!Next
  BY <1>1, <1>4, ConsultShows
<1>5. ASSUME NEW r \in Valid, NEW o \in OrdersWith(Content[r].key),
             NEW same \in Compared[orders[o].request][r]
      PROVE  /\ MatchingReplay(orders[o].moved, same)
                  /\ (Read(c, r, "done", "replayed", o) \/ Read(c, r, "done", "valid", o))
                => Register!Next
             /\ Read(c, r, "done", "conflict", NoCall) => Register!Next
  <2>1. CASE MatchingReplay(orders[o].moved, same)
               /\ (Read(c, r, "done", "replayed", o) \/ Read(c, r, "done", "valid", o))
    <3>1. Ordered[orders[o].request] = Ordered[r]
      BY <2>1, ComparisonHolds
    <3> QED
      BY <1>1, <2>1, <3>1, ConsultShows
  <2>2. CASE Read(c, r, "done", "conflict", NoCall)
    BY <1>1, <2>2, ConsultShows
  <2> QED
    BY <2>1, <2>2
<1>6. CASE Lookup(c)
  BY <1>2, <1>3, <1>5, <1>6 DEF Lookup, Found
<1>7. CASE ValidateCreate(c)
  BY <1>2, <1>4, <1>5, <1>7 DEF ValidateCreate
<1> QED
  BY <1>6, <1>7

\* The calls that are under way are pending in the register, with a question.
LEMMA RunningShows ==
    ASSUME CreationInvariant, NEW c \in Calls, Running(c)
    PROVE  call[c].answer = "none" /\ call[c].request \in Valid
<1>1. TypeOK /\ Progress(c)
  BY DEF CreationInvariant, CallOK
<1>2. call[c].answer = "none" /\ call[c].at # "new"
  BY <1>1 DEF Progress, Running, At
<1> QED
  BY <1>1, <1>2, RequestKnown

LEMMA FailedShows ==
    ASSUME CreationInvariant, NEW c \in Calls, Rollback(c) \/ Insert(c)
    PROVE  [Register!Next]_(Register!vars)
<1>1. Running(c) /\ call \in [Calls -> Call]
  BY DEF Rollback, Insert, Running, CreationInvariant, TypeOK
<1>2. Kept' = Kept
  BY KeptStays DEF Rollback, Insert, Committed
<1>3. CASE Answer(c, "failed", NoCall)
  <2>1. Asked' = Asked /\ Answered' = [Answered EXCEPT ![c] = <<"failed", NoCall>>]
    BY <1>1, <1>3, AnswerChanges, AnswerShows
  <2> QED
    BY <1>1, <1>2, <2>1, RunningShows, FailShows
<1>4. CASE MoveTo(c, "handoff")
  <2>1. \A d \in Calls : /\ call'[d].request = call[d].request
                         /\ call'[d].answer = call[d].answer /\ call'[d].order = call[d].order
    BY <1>1, <1>4, MoveChanges
  <2>2. Asked' = Asked /\ Answered' = Answered
    BY <2>1 DEF Asked, Answered
  <2> QED
    BY <1>2, <2>2 DEF Register!vars
<1> QED
  BY <1>3, <1>4 DEF Rollback, Insert

LEMMA CommitShows ==
    ASSUME CreationInvariant, NEW c \in Calls, Commit(c)
    PROVE  Register!Next
<1> DEFINE r == call[c].request
           row == [request |-> r, moved |-> FALSE]
           entry == [by |-> c, ordered |-> Ordered[r]]
<1>0. PICK k : k = KeyOf(c)
  OBVIOUS
<1>1. Running(c) /\ r \in Valid /\ Register!Pending(c)
  <2>1. Running(c)
    BY DEF Commit, Running
  <2> QED
    BY <2>1, RunningShows, ShownOf
<1>2. /\ Asked[c] # NoRequest /\ Asked[c].key = k /\ Asked[c].ordered = Ordered[r]
      /\ k \in Register!Keys
  BY <1>0, <1>1, ShownOf, KeptOf DEF KeyOf
<1>3. /\ row \in Order /\ row # NoOrder /\ ~Committed(c)
      /\ \/ call'[c].order = c /\ call'[c].answer = "none" /\ orders' = [orders EXCEPT ![c] = row]
         \/ /\ call'[c].order = NoCall /\ call'[c].answer = "failed"
            /\ orders' = orders \/ orders' = [orders EXCEPT ![c] = row]
      /\ \A d \in Calls \ {c} : call'[d] = call[d]
      /\ call'[c].request = call[c].request
  BY CommitChanges
<1>4. Asked' = Asked
      /\ Answered' = [Answered EXCEPT ![c] = <<call'[c].answer, call'[c].order>>]
  BY <1>3, AnswerShows
<1>5. CASE orders' = orders
  <2>1. call'[c].answer = "failed" /\ call'[c].order = NoCall
    BY <1>3, <1>5 DEF Committed, CreationInvariant, TypeOK
  <2>2. Kept' = Kept
    BY <1>5, KeptStays DEF Committed
  <2> QED
    BY <1>1, <1>4, <2>1, <2>2, RunningShows, FailShows
<1>6. CASE orders' = [orders EXCEPT ![c] = row]
  <2>1. OrdersWith(k) = {}
    <3>1. ASSUME NEW o \in OrdersWith(k)
          PROVE  FALSE
      <4>1. o \in Calls /\ Committed(o) /\ Content[orders[o].request].key = k
        BY DEF OrdersWith
      <4>2. KeyOf(o) = k
        BY <4>1 DEF CreationInvariant, CallOK, OrderOfRequest, KeyOf
      <4>3. Owns(o) /\ Owns(c)
        BY <4>1 DEF Owns, InTransaction, Commit
      <4> QED
        BY <1>0, <1>3, <4>1, <4>2, <4>3 DEF CreationInvariant, OneOwner
    <3> QED
      BY <3>1
  <2>2. /\ \A d \in Calls \ {c} : orders'[d] = orders[d]
        /\ orders'[c] = row /\ row.request = r
    BY <1>6 DEF CreationInvariant, TypeOK
  <2>3. OrdersWith(k)' = {c}
    <3> HIDE DEF row
    <3>1. c \in OrdersWith(k)'
      BY <1>0, <1>3, <2>2 DEF OrdersWith, Committed, KeyOf
    <3>2. ASSUME NEW d \in Calls, d # c, d \in OrdersWith(k)'
          PROVE  FALSE
      <4>1. d \in OrdersWith(k)
        BY <2>2, <3>2 DEF OrdersWith, Committed
      <4> QED
        BY <2>1, <4>1
    <3>3. OrdersWith(k)' \subseteq Calls
      BY DEF OrdersWith
    <3> QED
      BY <3>1, <3>2, <3>3
  <2>4. \A q : q # k => OrdersWith(q)' = OrdersWith(q)
    <3> HIDE DEF row
    <3>1. Content[orders'[c].request].key = k
      BY <1>0, <2>2 DEF KeyOf
    <3> QED
      BY <1>3, <2>2, <3>1 DEF OrdersWith, Committed
  <2> DEFINE Entries(q) == {[by |-> o, ordered |-> Ordered[orders[o].request]] : o \in OrdersWith(q)}
             Later(q) == {[by |-> o, ordered |-> Ordered[orders'[o].request]] : o \in OrdersWith(q)'}
  <2>5. Kept = [q \in Register!Keys |-> Entries(q)] /\ Kept' = [q \in Register!Keys |-> Later(q)]
    BY DEF Kept, Register!Keys
  <2>6. Entries(k) = {} /\ Later(k) = {entry}
    BY <2>1, <2>2, <2>3
  <2>7. ASSUME NEW q, q # k
        PROVE  Later(q) = Entries(q)
    <3>1. c \notin OrdersWith(q)
      BY <1>3 DEF OrdersWith
    <3>2. \A o \in OrdersWith(q) : orders'[o].request = orders[o].request
      BY <2>2, <3>1 DEF OrdersWith
    <3> QED
      BY <2>4, <2>7, <3>2
  <2> HIDE DEF Entries, Later, entry, row
  <2>8. Kept[k] = {} /\ Kept' = [Kept EXCEPT ![k] = {entry}]
    BY <1>2, <2>5, <2>6, <2>7
  <2>9. Register!Reply(c, "none", c) \/ Register!Reply(c, "failed", NoCall)
    BY <1>3, <1>4 DEF Register!Reply
  <2>10. Register!Make(c)
    BY <1>1, <1>2, <1>4, <2>8, <2>9 DEF Register!Make, entry
  <2> QED
    BY <2>10 DEF Register!Next
<1> QED
  BY <1>3, <1>5, <1>6

LEMMA CreatedShows ==
    ASSUME CreationInvariant, NEW c \in Calls, PublishLifecycle(c)
    PROVE  Register!Next
<1>1. Running(c) /\ call \in [Calls -> Call] /\ CallOK(c)
  BY DEF PublishLifecycle, Running, CreationInvariant, TypeOK
<1>2. call[c].order = c /\ Committed(c) /\ orders[c].request = call[c].request
  BY <1>1 DEF CallOK, Progress, Reservations, OrderOfRequest, At, PublishLifecycle
<1>3. Answer(c, "created", c)
  BY <1>2 DEF PublishLifecycle
<1>4. Asked' = Asked /\ Answered' = [Answered EXCEPT ![c] = <<"created", c>>]
  BY <1>1, <1>3, AnswerChanges, AnswerShows
<1>5. Kept' = Kept
  BY KeptStays DEF PublishLifecycle, Committed
<1>6. call[c].request \in Valid /\ Register!Pending(c)
  BY <1>1, RunningShows, ShownOf
<1>7. c \in OrdersWith(KeyOf(c))
  BY <1>2 DEF OrdersWith, KeyOf
<1>8. /\ KeyOf(c) \in Register!Keys
      /\ [by |-> c, ordered |-> Ordered[orders[c].request]] \in Kept[KeyOf(c)]
  BY <1>6, <1>7, KeptOf DEF KeyOf
<1>9. Register!Made(c)
  BY <1>8 DEF Register!Made
<1>10. Register!Created(c)
  BY <1>4, <1>5, <1>6, <1>9 DEF Register!Created, Register!Reply
<1> QED
  BY <1>10 DEF Register!Next

LEMMA CrashShows ==
    ASSUME CreationInvariant, Crash
    PROVE  Register!Next
<1> DEFINE Lost == {c \in Calls : Running(c)}
           Dead(c) == [call[c] EXCEPT !.at = "done", !.answer = "failed",
                                      !.order = NoCall, !.lost = TRUE]
<1>1. Kept' = Kept
  <2>1. UNCHANGED orders
    BY DEF Crash
  <2> QED
    BY <2>1, KeptStays DEF Committed
<1>2. call' = [c \in Calls |-> IF Running(c) THEN Dead(c) ELSE call[c]]
  BY DEF Crash
<1>3. ASSUME NEW c \in Calls
      PROVE  /\ Dead(c).answer = "failed" /\ Dead(c).order = NoCall
             /\ Dead(c).request = call[c].request
  BY DEF CreationInvariant, TypeOK, Call
<1> HIDE DEF Dead
<1>4. Asked' = Asked
  BY <1>2, <1>3 DEF Asked
<1>5. Answered' = [c \in Calls |-> IF c \in Lost THEN <<"failed", NoCall>> ELSE Answered[c]]
  BY <1>2, <1>3 DEF Answered
<1>6. \A c \in Lost : Register!Pending(c) /\ Asked[c] # NoRequest
  BY RunningShows, ShownOf
<1>7. Register!Fail(Lost)
  BY <1>1, <1>4, <1>5, <1>6 DEF Register!Fail
<1>8. Lost \in SUBSET Calls
  OBVIOUS
<1> HIDE DEF Lost
<1> QED
  BY <1>7, <1>8 DEF Register!Next

LEMMA InitShows ==
    ASSUME Init
    PROVE  Register!Init
<1>1. \A k : OrdersWith(k) = {}
  BY DEF Init, OrdersWith, Committed
<1>2. Kept = [k \in Register!Keys |-> {}]
  BY <1>1 DEF Kept, Register!Keys
<1>3. \A c \in Calls : call[c] = NewCall
  BY DEF Init
<1>4. NewCall.request = NoRequest /\ NewCall.answer = "none" /\ NewCall.order = NoCall
  BY DEF NewCall
<1>5. Asked = [c \in Calls |-> NoRequest] /\ Answered = [c \in Calls |-> <<"none", NoCall>>]
  BY <1>3, <1>4 DEF Asked, Answered
<1> QED
  BY <1>2, <1>5 DEF Register!Init

(***************************************************************************)
(* The create endpoint implements the register of orders.                  *)
(***************************************************************************)
THEOREM Implements == Spec => RegisterKept
<1>1. Init => Register!Init
  BY InitShows
<1>2. CreationInvariant /\ [Next]_vars => [Register!Next]_(Register!vars)
  <2> SUFFICES ASSUME CreationInvariant, [Next]_vars
               PROVE  [Register!Next]_(Register!vars)
    OBVIOUS
  <2>1. CASE Crash
    BY <2>1, CrashShows
  <2>2. ASSUME NEW c \in Calls, Lookup(c) \/ ValidateCreate(c)
        PROVE  Register!Next
    BY <2>2, LookupShows
  <2>3. ASSUME NEW c \in Calls, Insert(c) \/ Rollback(c)
        PROVE  [Register!Next]_(Register!vars)
    BY <2>3, FailedShows
  <2>4. ASSUME NEW c \in Calls,
               Handoff(c) \/ Reserve(c) \/ Release(c) \/ PublishCreated(c) \/ Move(c)
        PROVE  UNCHANGED Register!vars
    <3>1. Quiet
      BY <2>4, HandoffStep, ReserveStep, ReleaseStep, PublishStep, MoveStep
    <3> QED
      BY <3>1, QuietStutters
  <2>5. ASSUME NEW c \in Calls, Commit(c) \/ PublishLifecycle(c)
        PROVE  Register!Next
    BY <2>5, CommitShows, CreatedShows
  <2>6. CASE UNCHANGED vars
    <3>1. Quiet
      BY <2>6 DEF vars, Quiet, Committed
    <3> QED
      BY <3>1, QuietStutters
  <2> QED
    BY <2>1, <2>2, <2>3, <2>4, <2>5, <2>6 DEF Next, Step
<1> QED
  BY <1>1, <1>2, InvariantHolds, PTL DEF Spec, RegisterKept, Register!Spec

=============================================================================
