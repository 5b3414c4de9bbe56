---------------------- MODULE PricingSuggestions_proofs ----------------------
(***************************************************************************)
(* Theorems about pricing suggestions, for any number of generations,      *)
(* reviews, rows, products and faults.                                     *)
(***************************************************************************)
EXTENDS PricingSuggestions, TLAPS

-----------------------------------------------------------------------------

Suggestion ==
    [product : Products, change : Int, current : Nat \ {0}, price : Int,
     status : {"pending", "approved", "rejected"}]

Generating ==
    [at : {"check"}, todo : SUBSET Products]
        \cup [at : {"ask"}, todo : SUBSET Products, product : Products]
        \cup [at : {"save"}, todo : SUBSET Products, product : Products,
              parsed : {p \in Payload : UsableSuggestion(p)}]

Reviewing ==
    [at : {"catalog", "approve", "reject", "publish"}, id : Suggestions, row : Suggestion]

TypeOK ==
    /\ table \in [Suggestions -> Suggestion \cup {NoRow}]
    /\ applied \subseteq Suggestions
    /\ announced \in [Suggestions -> Nat]
    /\ generator \in [Generators -> Generating \cup {Idle}]
    /\ reviewer \in [Reviewers -> Reviewing \cup {Idle}]
    /\ overlapped \subseteq Suggestions
    /\ faults \in Nat

At(r, places) == reviewer[r] # Idle /\ reviewer[r].at \in places

\* What a review knows of its row: the price never changes, and what goes on
\* to Catalog has passed the checks.
RowKnown(r) ==
    LET id == reviewer[r].id
        row == reviewer[r].row
    IN  /\ Stored(id)
        /\ row.status = "pending"
        /\ [row EXCEPT !.status = table[id].status] = table[id]
        /\ At(r, {"catalog", "approve", "publish"}) =>
              WithinLimit(row) /\ row.price > 0
        /\ At(r, {"approve", "publish"}) => id \in applied

\* Alone with its row, a review saves over the row it read.
RowKept(r) ==
    reviewer[r].id \notin overlapped =>
        /\ \A q \in Reviewers \ {r} : reviewer[q] # Idle => reviewer[q].id # reviewer[r].id
        /\ At(r, {"catalog", "approve", "reject"}) => table[reviewer[r].id] = reviewer[r].row

\* The price a row holds is the AI's but for half a cent.
Near(row) ==
    /\ 2 * row.price <= 2 * (row.current + row.change) + Cent
    /\ 2 * (row.current + row.change) <= 2 * row.price + Cent

RowsNear == \A s \in Suggestions : Stored(s) => Near(table[s])

ReviewInvariant ==
    /\ TypeOK
    /\ RowsNear
    /\ ApprovedIsApplied
    /\ \A s \in applied : Stored(s)
    /\ \A r \in Reviewers : reviewer[r] # Idle => RowKnown(r) /\ RowKept(r)

-----------------------------------------------------------------------------

\* The payload taken from an answer is one of it, and usable.
LEMMA PayloadTaken ==
    ASSUME NEW answer \in Answers, NEW parsed \in ParseAiSuggestion(answer)
    PROVE  parsed \in {p \in Payload : UsableSuggestion(p)}
<1> DEFINE payloads == <<answer.direct>> \o answer.texts
<1>1. answer.direct \in Payload /\ answer.texts \in Seq(Payload)
  BY PricingAssumption DEF Answer
<1>2. <<answer.direct>> \in Seq(Payload)
  BY <1>1
<1>3. payloads \in Seq(Payload)
  BY <1>1, <1>2
<1>4. PICK k \in DOMAIN payloads : UsableSuggestion(payloads[k]) /\ parsed = payloads[k]
  BY DEF ParseAiSuggestion
<1>5. payloads[k] \in Payload
  BY <1>3, <1>4
<1> QED
  BY <1>4, <1>5

\* Rounding to cents moves a price by half a cent at most.
LEMMA RoundedNear ==
    ASSUME NEW price \in Int
    PROVE  /\ Rounded(price) \in Int
           /\ 2 * Rounded(price) <= 2 * price + Cent
           /\ 2 * price <= 2 * Rounded(price) + Cent
<1> DEFINE cents == (2 * price + Cent) \div (2 * Cent)
<1>1. Cent \in Int /\ Cent > 0
  BY PricingAssumption
<1>2. /\ cents \in Int
      /\ 2 * Cent * cents <= 2 * price + Cent
      /\ 2 * price + Cent < 2 * Cent * cents + 2 * Cent
  BY <1>1
<1>3. Rounded(price) = Cent * cents
  BY DEF Rounded
<1> HIDE DEF cents
<1> QED
  BY <1>1, <1>2, <1>3

\* What an insert stores is a pending row, whatever the AI service answered.
LEMMA NewRow ==
    ASSUME NEW p \in Products, NEW current \in CurrentPrices, NEW parsed \in Payload
    PROVE  LET new == NewSuggestion(p, current, parsed)
           IN  new \in Suggestion /\ new.status = "pending" /\ Near(new)
<1>1. parsed.price \in Int /\ current \in Nat \ {0} /\ Cent \in Nat
  BY PricingAssumption DEF Payload
<1>2. /\ Rounded(parsed.price) \in Int
      /\ 2 * Rounded(parsed.price) <= 2 * parsed.price + Cent
      /\ 2 * parsed.price <= 2 * Rounded(parsed.price) + Cent
  BY <1>1, RoundedNear
<1> QED
  BY <1>1, <1>2 DEF NewSuggestion, Suggestion, Near

\* The places of handlers in flight, by what they hold.
LEMMA Places ==
    ASSUME TypeOK
    PROVE  /\ \A g \in Generators : generator[g] # Idle => generator[g] \in Generating
           /\ \A r \in Reviewers : reviewer[r] # Idle => reviewer[r] \in Reviewing
           /\ \A s \in Suggestions : Stored(s) => table[s] \in Suggestion
  BY DEF TypeOK, Stored

LEMMA InitHolds == Init => ReviewInvariant
  BY PricingAssumption DEF Init, ReviewInvariant, TypeOK, RowsNear, ApprovedIsApplied, Stored, NoRow

-----------------------------------------------------------------------------

\* A generation writes no row that is stored and touches no review.
LEMMA GenerationStep ==
    ASSUME TypeOK, NEW g \in Generators,
           Generate(g) \/ CheckExisting(g) \/ AskPrice(g) \/ SaveSuggestion(g)
    PROVE  /\ TypeOK'
           /\ UNCHANGED <<applied, announced, reviewer, overlapped>>
           /\ \A s \in Suggestions :
                 \/ table'[s] = table[s]
                 \/ /\ ~Stored(s) /\ table'[s] \in Suggestion
                    /\ table'[s].status = "pending" /\ Near(table'[s])
<1>1. CASE Generate(g)
  BY <1>1 DEF Generate, TypeOK, Generating
<1>2. CASE CheckExisting(g)
  <2>1. generator[g] \in Generating /\ generator[g].at = "check"
    BY <1>2, Places DEF CheckExisting, Idle
  <2>2. generator[g].todo \in SUBSET Products
    BY <2>1 DEF Generating
  <2> QED
    BY <1>2, <2>2 DEF CheckExisting, TypeOK, Generating
<1>3. CASE AskPrice(g)
  <2>1. generator[g] \in Generating /\ generator[g].at = "ask"
    BY <1>3, Places DEF AskPrice, Idle
  <2>2. generator[g].todo \in SUBSET Products /\ generator[g].product \in Products
    BY <2>1 DEF Generating
  <2>3. generator' \in [Generators -> Generating \cup {Idle}]
    <3>1. CASE generator' = [generator EXCEPT ![g] = [at |-> "check", todo |-> generator[g].todo]]
      BY <3>1, <2>2 DEF TypeOK, Generating
    <3>2. ASSUME NEW answer \in Answers, NEW parsed \in ParseAiSuggestion(answer),
                 generator' = [generator EXCEPT ![g] =
                     [at |-> "save", todo |-> generator[g].todo,
                      product |-> generator[g].product, parsed |-> parsed]]
          PROVE  generator' \in [Generators -> Generating \cup {Idle}]
      BY <3>2, <2>2, PayloadTaken DEF TypeOK, Generating
    <3> QED
      BY <1>3, <3>1, <3>2 DEF AskPrice
  <2> QED
    BY <1>3, <2>3 DEF AskPrice, TypeOK
<1>4. CASE SaveSuggestion(g)
  <2>1. generator[g] \in Generating /\ generator[g].at = "save"
    BY <1>4, Places DEF SaveSuggestion, Idle
  <2>2. /\ generator[g].todo \in SUBSET Products /\ generator[g].product \in Products
        /\ generator[g].parsed \in Payload
    BY <2>1 DEF Generating
  <2> DEFINE new(current) == NewSuggestion(generator[g].product, current, generator[g].parsed)
  <2>3. \A current \in CurrentPrices :
           new(current) \in Suggestion /\ new(current).status = "pending" /\ Near(new(current))
    BY <2>2, NewRow
  <2>4. \/ \E s \in Suggestions, current \in CurrentPrices :
              ~Stored(s) /\ table' = [table EXCEPT ![s] = new(current)]
        \/ table' = table
    BY <1>4 DEF SaveSuggestion
  <2> HIDE DEF new
  <2>5. generator' \in [Generators -> Generating \cup {Idle}] /\ faults' \in Nat
    BY <1>4, <2>2 DEF SaveSuggestion, Fault, TypeOK, Generating
  <2> QED
    BY <1>4, <2>3, <2>4, <2>5 DEF SaveSuggestion, TypeOK, Stored
<1> QED
  BY <1>1, <1>2, <1>3, <1>4

-----------------------------------------------------------------------------

\* A generation leaves everything a review knows as it was.
LEMMA GenerationKeeps ==
    ASSUME ReviewInvariant, NEW g \in Generators,
           Generate(g) \/ CheckExisting(g) \/ AskPrice(g) \/ SaveSuggestion(g)
    PROVE  ReviewInvariant'
<1>1. /\ TypeOK'
      /\ UNCHANGED <<applied, announced, reviewer, overlapped>>
      /\ \A s \in Suggestions :
            \/ table'[s] = table[s]
            \/ /\ ~Stored(s) /\ table'[s] \in Suggestion
               /\ table'[s].status = "pending" /\ Near(table'[s])
  BY GenerationStep DEF ReviewInvariant
<1>2. \A s \in Suggestions : Stored(s) => Stored(s)' /\ table'[s] = table[s]
  BY <1>1 DEF Stored
<1>5. RowsNear'
  BY <1>1 DEF RowsNear, Near, Stored, ReviewInvariant
<1>3. ApprovedIsApplied' /\ \A s \in applied' : Stored(s)'
  BY <1>1, <1>2 DEF ReviewInvariant, ApprovedIsApplied, TypeOK, Stored
<1>4. ASSUME NEW r \in Reviewers, reviewer'[r] # Idle
      PROVE  RowKnown(r)' /\ RowKept(r)'
  <2>1. RowKnown(r) /\ RowKept(r) /\ reviewer[r] \in Reviewing
    BY <1>1, <1>4, Places DEF ReviewInvariant
  <2>2. reviewer[r].id \in Suggestions
    BY <2>1 DEF Reviewing
  <2> QED
    BY <1>1, <1>2, <2>1, <2>2 DEF RowKnown, RowKept, At
<1> QED
  BY <1>1, <1>3, <1>4, <1>5 DEF ReviewInvariant

\* The review that reads a row knows it as it is.
LEMMA ReadKeeps ==
    ASSUME ReviewInvariant, NEW r \in Reviewers, NEW s \in Suggestions,
           ReadForApproval(r, s) \/ ReadForRejection(r, s)
    PROVE  ReviewInvariant'
<1>1. PICK at \in {"catalog", "reject"} :
          /\ Read(r, s, at)
          /\ at = "catalog" => WithinLimit(table[s]) /\ table[s].price > 0
  BY DEF ReadForApproval, ReadForRejection
<1>2. /\ reviewer[r] = Idle /\ table[s] \in Suggestion /\ Stored(s) /\ table[s].status = "pending"
      /\ reviewer' = [reviewer EXCEPT ![r] = [at |-> at, id |-> s, row |-> table[s]]]
      /\ overlapped' = IF \E q \in Reviewers : reviewer[q] # Idle /\ reviewer[q].id = s
                         THEN overlapped \cup {s} ELSE overlapped
      /\ UNCHANGED <<table, applied, announced, generator, faults>>
  BY <1>1, Places DEF Read, Reviewable, ReviewInvariant
<1>3. TypeOK'
  BY <1>2 DEF ReviewInvariant, TypeOK, Reviewing
<1>4. /\ reviewer'[r] # Idle /\ reviewer'[r].at = at /\ reviewer'[r].id = s
      /\ reviewer'[r].row = table[s]
      /\ \A q \in Reviewers \ {r} : reviewer'[q] = reviewer[q]
  BY <1>2 DEF Idle, ReviewInvariant, TypeOK
<1>5. RowKnown(r)' /\ RowKept(r)'
  <2>1. [table[s] EXCEPT !.status = table[s].status] = table[s]
    BY <1>2 DEF Suggestion
  <2>2. RowKnown(r)'
    BY <1>1, <1>2, <1>4, <2>1 DEF RowKnown, At, Stored
  <2>3. RowKept(r)'
    BY <1>2, <1>4 DEF RowKept
  <2> QED
    BY <2>2, <2>3
<1>6. ASSUME NEW q \in Reviewers \ {r}, reviewer'[q] # Idle
      PROVE  RowKnown(q)' /\ RowKept(q)'
  <2>1. RowKnown(q) /\ RowKept(q) /\ reviewer'[q] = reviewer[q]
    BY <1>4, <1>6 DEF ReviewInvariant
  <2>2. RowKnown(q)'
    BY <1>2, <2>1 DEF RowKnown, At, Stored
  <2>3. RowKept(q)'
    <3>1. ASSUME reviewer[q].id \notin overlapped'
          PROVE  reviewer[q].id \notin overlapped /\ reviewer[q].id # s
      BY <1>2, <1>6, <2>1, <3>1
    <3> QED
      BY <1>2, <1>4, <2>1, <3>1 DEF RowKept, At
  <2> QED
    BY <2>2, <2>3
<1>7. ApprovedIsApplied' /\ RowsNear' /\ \A t \in applied' : Stored(t)'
  BY <1>2 DEF ReviewInvariant, ApprovedIsApplied, AppliesWithinLimit, RowsNear, Near, Stored
<1> QED
  BY <1>3, <1>5, <1>6, <1>7 DEF ReviewInvariant

\* Catalog accepts a price only of a row that passed the checks.
LEMMA UpdateKeeps ==
    ASSUME ReviewInvariant, NEW r \in Reviewers, UpdateProductPrice(r)
    PROVE  ReviewInvariant'
<1>1. /\ reviewer[r] # Idle /\ reviewer[r] \in Reviewing /\ reviewer[r].at = "catalog"
      /\ RowKnown(r) /\ RowKept(r)
  BY Places DEF UpdateProductPrice, Idle, ReviewInvariant
<1> DEFINE id == reviewer[r].id
           row == reviewer[r].row
<1>2. id \in Suggestions /\ row \in Suggestion /\ Stored(id) /\ table[id] \in Suggestion
  BY <1>1, Places DEF Reviewing, RowKnown, ReviewInvariant
<1>3. table[id].price > 0 /\ AppliesWithinLimit(table[id])
  <2>1. /\ table[id].change = row.change /\ table[id].price = row.price
        /\ table[id].current = row.current
    BY <1>1, <1>2 DEF RowKnown, Suggestion
  <2>2. WithinLimit(row) /\ row.price > 0
    BY <1>1 DEF RowKnown, At
  <2>3. Near(table[id])
    BY <1>2 DEF ReviewInvariant, RowsNear
  <2>4. Cent \in Nat /\ row.change \in Int /\ row.current \in Nat /\ row.price \in Int
    BY <1>2, PricingAssumption DEF Suggestion
  <2> QED
    BY <2>1, <2>2, <2>3, <2>4 DEF WithinLimit, Near, AppliesWithinLimit
<1>4. /\ UNCHANGED <<table, announced, generator, overlapped>>
      /\ applied \subseteq applied' /\ applied' \subseteq applied \cup {id}
      /\ faults' \in Nat
      /\ \/ reviewer' = [reviewer EXCEPT ![r].at = "approve"] /\ id \in applied'
         \/ reviewer' = [reviewer EXCEPT ![r] = Idle]
  BY DEF UpdateProductPrice, UpdateFailed, End, Fault, ReviewInvariant, TypeOK
<1>5. TypeOK'
  <2>1. [reviewer[r] EXCEPT !.at = "approve"] \in Reviewing
    BY <1>1 DEF Reviewing
  <2> QED
    BY <1>2, <1>4, <2>1 DEF ReviewInvariant, TypeOK
<1>6. ApprovedIsApplied' /\ RowsNear' /\ \A t \in applied' : Stored(t)'
  BY <1>2, <1>3, <1>4
     DEF ReviewInvariant, ApprovedIsApplied, AppliesWithinLimit, RowsNear, Near, Stored
<1>7. ASSUME NEW q \in Reviewers, reviewer'[q] # Idle
      PROVE  RowKnown(q)' /\ RowKept(q)'
  <2>1. /\ reviewer[q] # Idle
        /\ reviewer'[q].id = reviewer[q].id /\ reviewer'[q].row = reviewer[q].row
        /\ \/ reviewer'[q].at = reviewer[q].at
           \/ q = r /\ reviewer'[q].at = "approve" /\ id \in applied'
    BY <1>1, <1>4, <1>7 DEF ReviewInvariant, TypeOK, Reviewing
  <2>2. RowKnown(q) /\ RowKept(q)
    BY <2>1 DEF ReviewInvariant
  <2>3. RowKnown(q)'
    BY <1>1, <1>4, <1>7, <2>1, <2>2 DEF RowKnown, At, Stored
  <2>4. \A p \in Reviewers : reviewer'[p] # Idle =>
            reviewer[p] # Idle /\ reviewer'[p].id = reviewer[p].id
    BY <1>1, <1>4 DEF ReviewInvariant, TypeOK, Reviewing
  <2>5. RowKept(q)'
    BY <1>1, <1>4, <1>7, <2>1, <2>2, <2>4 DEF RowKept, At
  <2> QED
    BY <2>3, <2>5
<1> QED
  BY <1>5, <1>6, <1>7 DEF ReviewInvariant

\* A decision changes the status of one row, and of one that was pending
\* unless reviews of it overlapped.
LEMMA DecisionStep ==
    ASSUME ReviewInvariant, NEW r \in Reviewers, SaveApproval(r) \/ SaveRejection(r)
    PROVE  /\ reviewer[r] # Idle /\ reviewer[r] \in Reviewing
           /\ UNCHANGED <<applied, announced, generator, overlapped>>
           /\ faults' \in Nat
           /\ \/ reviewer' = [reviewer EXCEPT ![r].at = "publish"] /\ reviewer[r].at = "approve"
              \/ reviewer' = [reviewer EXCEPT ![r] = Idle]
           /\ \/ table' = table /\ reviewer'[r] = Idle
              \/ \E status \in {"approved", "rejected"} :
                    /\ table' = [table EXCEPT ![reviewer[r].id] =
                                    [table[reviewer[r].id] EXCEPT !.status = status]]
                    /\ status = "approved" => reviewer[r].id \in applied
           /\ reviewer[r].id \notin overlapped => table[reviewer[r].id].status = "pending"
<1>1. /\ reviewer[r] # Idle /\ reviewer[r] \in Reviewing /\ reviewer[r].at \in {"approve", "reject"}
      /\ RowKnown(r) /\ RowKept(r)
  BY Places DEF SaveApproval, SaveRejection, SaveDecision, Idle, ReviewInvariant
<1>2. /\ reviewer[r].id \in Suggestions /\ reviewer[r].row \in Suggestion
      /\ table[reviewer[r].id] \in Suggestion
  BY <1>1, Places DEF Reviewing, RowKnown, ReviewInvariant
<1>3. \A status \in {"approved", "rejected"} :
         [reviewer[r].row EXCEPT !.status = status] = [table[reviewer[r].id] EXCEPT !.status = status]
  <2>1. [reviewer[r].row EXCEPT !.status = table[reviewer[r].id].status] = table[reviewer[r].id]
    BY <1>1 DEF RowKnown
  <2> QED
    BY <1>2, <2>1 DEF Suggestion
<1>4. reviewer[r].id \notin overlapped => table[reviewer[r].id].status = "pending"
  BY <1>1 DEF RowKnown, RowKept, At
<1>5. CASE SaveApproval(r)
  <2>1. reviewer[r].id \in applied
    BY <1>1, <1>5 DEF RowKnown, At, SaveApproval, SaveDecision
  <2> QED
    BY <1>1, <1>3, <1>4, <1>5, <2>1
    DEF SaveApproval, SaveDecision, End, Fault, ReviewInvariant, TypeOK
<1>6. CASE SaveRejection(r)
  BY <1>1, <1>3, <1>4, <1>6 DEF SaveRejection, SaveDecision, End, Fault, ReviewInvariant, TypeOK
<1> QED
  BY <1>5, <1>6

\* Saving a decision leaves the prices, and what other reviews know of them.
LEMMA DecisionKeeps ==
    ASSUME ReviewInvariant, NEW r \in Reviewers, SaveApproval(r) \/ SaveRejection(r)
    PROVE  ReviewInvariant'
<1> DEFINE id == reviewer[r].id
<1>1. /\ reviewer[r] # Idle /\ reviewer[r] \in Reviewing /\ RowKnown(r) /\ RowKept(r)
      /\ UNCHANGED <<applied, announced, generator, overlapped>> /\ faults' \in Nat
      /\ \/ reviewer' = [reviewer EXCEPT ![r].at = "publish"] /\ reviewer[r].at = "approve"
         \/ reviewer' = [reviewer EXCEPT ![r] = Idle]
  BY DecisionStep DEF ReviewInvariant
<1>2. id \in Suggestions /\ table[id] \in Suggestion /\ Stored(id)
  BY <1>1, Places DEF Reviewing, RowKnown, ReviewInvariant
<1>3. /\ table' \in [Suggestions -> Suggestion \cup {NoRow}]
      /\ \A s \in Suggestions \ {id} : table'[s] = table[s]
      /\ table'[id] \in Suggestion
      /\ [table'[id] EXCEPT !.status = table[id].status] = table[id]
      /\ table'[id].status = "approved" => id \in applied \/ table[id].status = "approved"
  <2>1. CASE table' = table
    BY <1>2, <2>1 DEF ReviewInvariant, TypeOK, Suggestion
  <2>2. ASSUME NEW status \in {"approved", "rejected"},
               table' = [table EXCEPT ![id] = [table[id] EXCEPT !.status = status]],
               status = "approved" => id \in applied
        PROVE  /\ table' \in [Suggestions -> Suggestion \cup {NoRow}]
               /\ \A s \in Suggestions \ {id} : table'[s] = table[s]
               /\ table'[id] \in Suggestion
               /\ [table'[id] EXCEPT !.status = table[id].status] = table[id]
               /\ table'[id].status = "approved" => id \in applied
    <3>1. [table[id] EXCEPT !.status = status] \in Suggestion
      BY <1>2 DEF Suggestion
    <3>2. [[table[id] EXCEPT !.status = status] EXCEPT !.status = table[id].status] = table[id]
      BY <1>2 DEF Suggestion
    <3>3. table'[id] = [table[id] EXCEPT !.status = status]
      BY <1>2, <2>2 DEF ReviewInvariant, TypeOK
    <3> QED
      BY <1>2, <2>2, <3>1, <3>2, <3>3 DEF ReviewInvariant, TypeOK, Suggestion
  <2> QED
    BY <2>1, <2>2, DecisionStep
<1>4. \A s \in Suggestions :
         Stored(s) => /\ Stored(s)' /\ table'[s].change = table[s].change
                      /\ table'[s].price = table[s].price
                      /\ table'[s].current = table[s].current
  BY <1>2, <1>3, Places DEF Stored, Suggestion, NoRow, ReviewInvariant
<1>5. TypeOK'
  <2>1. [reviewer[r] EXCEPT !.at = "publish"] \in Reviewing
    BY <1>1 DEF Reviewing
  <2> QED
    BY <1>1, <1>3, <2>1 DEF ReviewInvariant, TypeOK
<1>6. ApprovedIsApplied' /\ RowsNear' /\ \A t \in applied' : Stored(t)'
  <2>1. \A s \in Suggestions : table'[s].status = "approved" => s \in applied
    BY <1>2, <1>3 DEF ReviewInvariant, ApprovedIsApplied
  <2>2. \A s \in Suggestions : Stored(s)' => Stored(s)
    BY <1>2, <1>3 DEF Stored
  <2>3. RowsNear'
    BY <1>4, <2>2 DEF ReviewInvariant, RowsNear, Near
  <2>4. \A s \in applied : table'[s].price > 0 /\ AppliesWithinLimit(table[s])'
    BY <1>4 DEF ReviewInvariant, ApprovedIsApplied, AppliesWithinLimit, TypeOK
  <2> QED
    BY <1>1, <1>4, <2>1, <2>3, <2>4 DEF ReviewInvariant, ApprovedIsApplied, TypeOK
<1>7. ASSUME NEW q \in Reviewers, reviewer'[q] # Idle
      PROVE  RowKnown(q)' /\ RowKept(q)'
  <2>1. /\ reviewer[q] # Idle
        /\ reviewer'[q].id = reviewer[q].id /\ reviewer'[q].row = reviewer[q].row
        /\ \/ reviewer'[q].at = reviewer[q].at /\ q # r
           \/ q = r /\ reviewer'[q].at = "publish" /\ reviewer[q].at = "approve"
    BY <1>1, <1>7 DEF ReviewInvariant, TypeOK, Reviewing
  <2>2. RowKnown(q) /\ RowKept(q) /\ reviewer[q] \in Reviewing
    BY <2>1, Places DEF ReviewInvariant
  <2>3. reviewer[q].id \in Suggestions /\ reviewer[q].row \in Suggestion
    BY <2>2 DEF Reviewing
  <2>4. [reviewer[q].row EXCEPT !.status = table'[reviewer[q].id].status] = table'[reviewer[q].id]
    <3>1. [reviewer[q].row EXCEPT !.status = table[reviewer[q].id].status] = table[reviewer[q].id]
      BY <2>2 DEF RowKnown
    <3>2. CASE reviewer[q].id = id
      BY <1>2, <1>3, <2>3, <3>1, <3>2 DEF Suggestion
    <3>3. CASE reviewer[q].id # id
      BY <1>3, <2>3, <3>1, <3>3
    <3> QED
      BY <3>2, <3>3
  <2>5. RowKnown(q)'
    BY <1>1, <1>4, <1>7, <2>1, <2>2, <2>3, <2>4 DEF RowKnown, At
  <2>6. \A p \in Reviewers : reviewer'[p] # Idle =>
            reviewer[p] # Idle /\ reviewer'[p].id = reviewer[p].id
    BY <1>1 DEF ReviewInvariant, TypeOK, Reviewing
  <2>7. RowKept(q)'
    <3>1. reviewer[q].id \notin overlapped /\ q # r => reviewer[q].id # id
      BY <1>1, <2>2 DEF RowKept
    <3> QED
      BY <1>1, <1>3, <1>7, <2>1, <2>2, <2>3, <2>6, <3>1 DEF RowKept, At
  <2> QED
    BY <2>5, <2>7
<1> QED
  BY <1>5, <1>6, <1>7 DEF ReviewInvariant

LEMMA PublicationKeeps ==
    ASSUME ReviewInvariant, NEW r \in Reviewers, PublishPriceChanged(r)
    PROVE  ReviewInvariant'
<1>1. /\ reviewer[r] # Idle /\ reviewer[r] \in Reviewing /\ reviewer[r].id \in applied
      /\ reviewer[r].id \in Suggestions
  <2>1. reviewer[r] # Idle /\ reviewer[r] \in Reviewing /\ RowKnown(r) /\ reviewer[r].at = "publish"
    BY Places DEF PublishPriceChanged, ReviewInvariant, Idle
  <2> QED
    BY <2>1 DEF RowKnown, At, Reviewing
<1>2. TypeOK' /\ RowsNear' /\ ApprovedIsApplied' /\ \A t \in applied' : Stored(t)'
  BY <1>1 DEF PublishPriceChanged, End, ReviewInvariant, TypeOK, RowsNear, Near,
              ApprovedIsApplied, AppliesWithinLimit, Stored
<1>3. ASSUME NEW q \in Reviewers, reviewer'[q] # Idle
      PROVE  RowKnown(q)' /\ RowKept(q)'
  <2>1. /\ reviewer'[q] = reviewer[q] /\ RowKnown(q) /\ RowKept(q)
        /\ \A p \in Reviewers : reviewer'[p] \in {reviewer[p], Idle}
        /\ UNCHANGED <<table, applied, overlapped>>
    BY <1>3 DEF PublishPriceChanged, End, ReviewInvariant, TypeOK
  <2> QED
    BY <2>1 DEF RowKnown, RowKept, At, Stored
<1> QED
  BY <1>2, <1>3 DEF ReviewInvariant

LEMMA ReviewInvariantNext == ReviewInvariant /\ [Next]_vars => ReviewInvariant'
<1> SUFFICES ASSUME ReviewInvariant, [Next]_vars
             PROVE  ReviewInvariant'
  OBVIOUS
<1>1. CASE Crash
  BY <1>1 DEF Crash, Fault, ReviewInvariant, TypeOK, RowsNear, Near, ApprovedIsApplied,
              AppliesWithinLimit, Stored
<1>2. CASE UNCHANGED vars
  BY <1>2 DEF vars, ReviewInvariant, TypeOK, RowsNear, Near, ApprovedIsApplied,
              AppliesWithinLimit, Stored, RowKnown, RowKept, At
<1> QED
  BY <1>1, <1>2, GenerationKeeps, ReadKeeps, UpdateKeeps, DecisionKeeps, PublicationKeeps DEF Next

LEMMA ReviewInvariantHolds == Spec => []ReviewInvariant
  BY InitHolds, ReviewInvariantNext, PTL DEF Spec

(***************************************************************************)
(* The variables keep their types: a stored row has a whole price and one  *)
(* of three statuses, whatever the AI service answered.                    *)
(***************************************************************************)
THEOREM TypeCorrect == Spec => []TypeOK
<1>1. ReviewInvariant => TypeOK
  BY DEF ReviewInvariant
<1> QED
  BY <1>1, ReviewInvariantHolds, PTL

(***************************************************************************)
(* However reviews overlap and whatever fails, a row is approved or        *)
(* announced only when Catalog has accepted its price, and a price it has  *)
(* accepted is positive and within 30 percent of the current one, but for  *)
(* the half cent that rounding moves it after the limit's check, for any   *)
(* average, any price the AI service names and any size of a cent.         *)
(***************************************************************************)
THEOREM ApprovalsApplied == Spec => []ApprovedIsApplied
<1>1. ReviewInvariant => ApprovedIsApplied
  BY DEF ReviewInvariant
<1> QED
  BY <1>1, ReviewInvariantHolds, PTL

-----------------------------------------------------------------------------

\* What a step does to a row that is stored and not reviewed twice at once.
LEMMA RowStep ==
    ASSUME ReviewInvariant, [Next]_vars, NEW s \in Suggestions, Stored(s), s \notin overlapped,
           table'[s] # table[s]
    PROVE  table[s].status = "pending"
<1>1. ASSUME NEW g \in Generators,
             Generate(g) \/ CheckExisting(g) \/ AskPrice(g) \/ SaveSuggestion(g)
      PROVE  FALSE
  BY <1>1, GenerationStep DEF ReviewInvariant
<1>2. ASSUME NEW r \in Reviewers, SaveApproval(r) \/ SaveRejection(r)
      PROVE  table[s].status = "pending"
  BY <1>2, DecisionStep DEF ReviewInvariant, TypeOK
<1>3. ASSUME NEW r \in Reviewers, UpdateProductPrice(r) \/ PublishPriceChanged(r)
      PROVE  FALSE
  BY <1>3 DEF UpdateProductPrice, PublishPriceChanged
<1>4. ASSUME NEW r \in Reviewers, NEW t \in Suggestions,
             ReadForApproval(r, t) \/ ReadForRejection(r, t)
      PROVE  FALSE
  BY <1>4 DEF ReadForApproval, ReadForRejection, Read
<1>5. CASE Crash \/ UNCHANGED vars
  BY <1>5 DEF Crash, vars
<1> QED
  BY <1>1, <1>2, <1>3, <1>4, <1>5 DEF Next

(***************************************************************************)
(* A decision on a suggestion is final, unless reviews of it overlapped,   *)
(* with any number of reviews of other suggestions, generations, faults.   *)
(***************************************************************************)
THEOREM DecisionsFinal == Spec => DecisionsAreFinal
<1>1. ReviewInvariant /\ [Next]_vars =>
          [\A s \in Suggestions :
              (table[s].status \in {"approved", "rejected"} /\ s \notin overlapped)
                  => table'[s] = table[s]]_vars
  <2> SUFFICES ASSUME ReviewInvariant, [Next]_vars, NEW s \in Suggestions,
                      table[s].status \in {"approved", "rejected"}, s \notin overlapped
               PROVE  table'[s] = table[s]
    OBVIOUS
  <2>1. Stored(s)
    BY DEF Stored, NoRow
  <2> QED
    BY <2>1, RowStep
<1> QED
  BY <1>1, ReviewInvariantHolds, PTL DEF Spec, DecisionsAreFinal

-----------------------------------------------------------------------------

\* Pending or approved, and never under two reviews at once.
Open(s) == Stored(s) /\ table[s].status \in {"pending", "approved"} /\ s \notin overlapped

\* Between its check and its insert a generation may rely on the check.
CheckHolds ==
    \A g \in Generators :
        (generator[g] # Idle /\ generator[g].at \in {"ask", "save"}) =>
            \A s \in Suggestions : Open(s) => table[s].product # generator[g].product

OneGeneration == \A g, h \in Generators : g = h

\* No step of a review opens a row, and none gives it another product.
LEMMA NothingOpens ==
    ASSUME ReviewInvariant, [Next]_vars, NEW s \in Suggestions, Open(s)',
           ~\E g \in Generators : SaveSuggestion(g)
    PROVE  Open(s) /\ table'[s].product = table[s].product
<1>1. ASSUME NEW r \in Reviewers, SaveApproval(r) \/ SaveRejection(r)
      PROVE  Open(s) /\ table'[s].product = table[s].product
  <2>1. /\ overlapped' = overlapped /\ reviewer[r] \in Reviewing /\ Stored(reviewer[r].id)
        /\ \/ table' = table
           \/ \E status \in {"approved", "rejected"} :
                table' = [table EXCEPT ![reviewer[r].id] =
                              [table[reviewer[r].id] EXCEPT !.status = status]]
        /\ reviewer[r].id \notin overlapped => table[reviewer[r].id].status = "pending"
    BY <1>1, DecisionStep DEF ReviewInvariant, RowKnown
  <2>2. reviewer[r].id \in Suggestions
    BY <2>1 DEF Reviewing
  <2>3. table[reviewer[r].id] \in Suggestion
    BY <2>1, <2>2, Places DEF ReviewInvariant
  <2> QED
    BY <2>1, <2>2, <2>3 DEF Open, Stored, ReviewInvariant, TypeOK, Suggestion
<1>2. ASSUME NEW r \in Reviewers, UpdateProductPrice(r) \/ PublishPriceChanged(r)
      PROVE  UNCHANGED <<table, overlapped>>
  BY <1>2 DEF UpdateProductPrice, PublishPriceChanged
<1>3. ASSUME NEW r \in Reviewers, NEW t \in Suggestions,
             ReadForApproval(r, t) \/ ReadForRejection(r, t)
      PROVE  table' = table /\ overlapped \subseteq overlapped'
  BY <1>3 DEF ReadForApproval, ReadForRejection, Read
<1>4. ASSUME NEW g \in Generators, Generate(g) \/ CheckExisting(g) \/ AskPrice(g)
      PROVE  UNCHANGED <<table, overlapped>>
  BY <1>4 DEF Generate, CheckExisting, AskPrice
<1>5. CASE Crash \/ UNCHANGED vars
  BY <1>5 DEF Crash, vars, Open, Stored
<1>6. ASSUME table' = table, overlapped \subseteq overlapped'
      PROVE  Open(s) /\ table'[s].product = table[s].product
  BY <1>6 DEF Open, Stored
<1> QED
  BY <1>1, <1>2, <1>3, <1>4, <1>5, <1>6 DEF Next

LEMMA CheckNext ==
    ASSUME OneGeneration, ReviewInvariant, CheckHolds, OneOpenSuggestion, [Next]_vars
    PROVE  CheckHolds' /\ OneOpenSuggestion'
<1>1. ASSUME NEW g \in Generators, SaveSuggestion(g)
      PROVE  CheckHolds' /\ OneOpenSuggestion'
  <2>1. /\ overlapped' = overlapped /\ TypeOK'
        /\ generator[g] \in Generating /\ generator[g].at = "save" /\ generator[g] # Idle
        /\ generator'[g].at = "check"
    <3>1. overlapped' = overlapped /\ TypeOK'
      BY <1>1, GenerationStep DEF ReviewInvariant
    <3>2. generator[g] # Idle /\ generator[g].at = "save"
      BY <1>1 DEF SaveSuggestion, Idle
    <3>3. generator[g] \in Generating
      BY <3>2, Places DEF ReviewInvariant, TypeOK
    <3>4. generator'[g].at = "check"
      BY <1>1, <3>3 DEF SaveSuggestion, ReviewInvariant, TypeOK, Generating
    <3> QED
      BY <3>1, <3>2, <3>3, <3>4
  <2>2. CheckHolds'
    <3>1. \A h \in Generators : h = g
      BY DEF OneGeneration
    <3>2. \A h \in Generators : generator'[h].at = "check"
      BY <2>1, <3>1
    <3> QED
      BY <3>2 DEF CheckHolds
  <2>3. CASE table' = table
    <3>1. \A s, t \in Suggestions :
              Open(s) /\ Open(t) /\ table[s].product = table[t].product => s = t
      BY DEF OneOpenSuggestion, Open
    <3>2. \A s, t \in Suggestions :
              Open(s)' /\ Open(t)' /\ table'[s].product = table'[t].product => s = t
      BY <2>1, <2>3, <3>1 DEF Open, Stored
    <3> QED
      BY <2>2, <3>2 DEF OneOpenSuggestion, Open
  <2>4. ASSUME NEW s \in Suggestions, NEW current \in CurrentPrices, ~Stored(s),
               table' = [table EXCEPT ![s] =
                   NewSuggestion(generator[g].product, current, generator[g].parsed)]
        PROVE  OneOpenSuggestion'
    <3>1. \A t \in Suggestions : Open(t) => table[t].product # generator[g].product
      BY <2>1 DEF CheckHolds
    <3>2. table'[s].product = generator[g].product
      BY <2>4 DEF NewSuggestion, ReviewInvariant, TypeOK
    <3>3. \A t \in Suggestions \ {s} : table'[t] = table[t]
      BY <2>4 DEF ReviewInvariant, TypeOK
    <3>4. ASSUME NEW t \in Suggestions \ {s}, Stored(t)', t \notin overlapped',
                 table'[t].status \in {"pending", "approved"}
          PROVE  table'[t].product # table'[s].product
      <4>1. Open(t)
        BY <2>1, <3>3, <3>4 DEF Open, Stored
      <4>2. table[t].product # generator[g].product
        BY <3>1, <4>1
      <4> QED
        BY <3>2, <3>3, <4>2
    <3> QED
      BY <2>1, <3>3, <3>4 DEF OneOpenSuggestion, Stored
  <2> QED
    BY <1>1, <2>2, <2>3, <2>4 DEF SaveSuggestion
<1>2. ASSUME ~\E g \in Generators : SaveSuggestion(g)
      PROVE  CheckHolds' /\ OneOpenSuggestion'
  <2>1. \A s \in Suggestions : Open(s)' => Open(s) /\ table'[s].product = table[s].product
    BY <1>2, NothingOpens
  <2>2. OneOpenSuggestion'
    <3>1. \A s, t \in Suggestions :
              Open(s) /\ Open(t) /\ table[s].product = table[t].product => s = t
      BY DEF OneOpenSuggestion, Open
    <3>2. \A s, t \in Suggestions :
              Open(s)' /\ Open(t)' /\ table'[s].product = table'[t].product => s = t
      BY <2>1, <3>1
    <3> QED
      BY <3>2 DEF OneOpenSuggestion, Open
  <2>3. ASSUME NEW g \in Generators, generator'[g] # Idle, generator'[g].at \in {"ask", "save"}
        PROVE  \A s \in Suggestions : Open(s) => table[s].product # generator'[g].product
    <3>1. CASE CheckExisting(g) /\ generator'[g] # generator[g]
      BY <2>3, <3>1 DEF CheckExisting, HasOpenSuggestion, Open, ReviewInvariant, TypeOK
    <3>2. CASE AskPrice(g) /\ generator'[g] # generator[g]
      <4>1. generator[g].at = "ask" /\ generator[g] # Idle
        BY <3>2 DEF AskPrice, Idle
      <4>2. generator'[g].product = generator[g].product
        BY <2>3, <3>2 DEF AskPrice, ReviewInvariant, TypeOK
      <4> QED
        BY <4>1, <4>2 DEF CheckHolds
    <3>3. CASE generator'[g] = generator[g]
      BY <2>3, <3>3 DEF CheckHolds
    <3>4. CASE Generate(g) \/ Crash
      BY <2>3, <3>4 DEF Generate, Crash, ReviewInvariant, TypeOK, Idle
    <3>5. generator'[g] = generator[g] \/ Generate(g) \/ CheckExisting(g) \/ AskPrice(g) \/ Crash
      BY <1>2 DEF Next, vars, OneGeneration, ReadForApproval, ReadForRejection, Read,
                  UpdateProductPrice, SaveApproval, SaveRejection, SaveDecision, PublishPriceChanged
    <3> QED
      BY <3>1, <3>2, <3>3, <3>4, <3>5
  <2>4. CheckHolds'
    BY <2>1, <2>3 DEF CheckHolds
  <2> QED
    BY <2>2, <2>4
<1> QED
  BY <1>1, <1>2

(***************************************************************************)
(* When generations do not overlap, a product has one open suggestion at   *)
(* most, unless two reviews of one overlapped, however many there are.     *)
(***************************************************************************)
THEOREM OneOpen ==
    ASSUME OneGeneration
    PROVE  Spec => []OneOpenSuggestion
<1>1. Init => CheckHolds /\ OneOpenSuggestion
  BY DEF Init, CheckHolds, OneOpenSuggestion, Stored
<1>2. ReviewInvariant /\ CheckHolds /\ OneOpenSuggestion /\ [Next]_vars
          => CheckHolds' /\ OneOpenSuggestion'
  BY CheckNext
<1> QED
  BY <1>1, <1>2, ReviewInvariantHolds, PTL DEF Spec

=============================================================================
