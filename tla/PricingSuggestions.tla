-------------------------- MODULE PricingSuggestions --------------------------
(***************************************************************************)
(* PricingService: a generation asks the AI service for a price for every  *)
(* product without an open suggestion; administrators approve or reject    *)
(* the pending ones.  An approval writes the price to Catalog, saves the   *)
(* row it read, and publishes pricing.price_changed.  Requests interleave  *)
(* at every await; nothing locks a row between its read and its save.      *)
(*                                                                         *)
(* Prices are whole numbers of a unit of which a cent has Cent: averages   *)
(* and the AI's prices have more decimals than the two of the table.       *)
(***************************************************************************)
EXTENDS Integers, Sequences

CONSTANTS
    Products,       \* products of order_items with a positive price
    Suggestions,    \* ids of price_suggestion rows (the bound on rows)
    Generators,     \* concurrent POST generate requests
    Reviewers,      \* concurrent PATCH approve and reject requests
    Answers,        \* what the AI service answers
    CurrentPrices,  \* averages of the prices a product was ordered at
    Cent,           \* the units of a cent
    MaxFaults       \* bound: lost answers, failed saves and crashes

\* A price as JSON gives it, 0 if it is no number, and whether a rationale is text.
Payload == [price : Int, rationale : BOOLEAN]

\* The body itself, and the JSON in its text, content, result and response.
Answer == [direct : Payload, texts : Seq(Payload)]

ASSUME PricingAssumption ==
    /\ Answers \subseteq Answer
    /\ CurrentPrices \subseteq Nat \ {0}
    /\ Cent \in Nat \ {0}
    /\ MaxFaults \in Nat

VARIABLES
    table,      \* the rows of price_suggestion
    applied,    \* the suggestions Catalog has accepted the price of
    announced,  \* how often each suggestion was published
    generator,
    reviewer,
    overlapped, \* history: the suggestions two reviews of which overlapped
    faults

vars == <<table, applied, announced, generator, reviewer, overlapped, faults>>

NoRow == [status |-> "absent"]

Stored(s) == table[s] # NoRow

Idle == [at |-> "idle"]

Init ==
    /\ table = [s \in Suggestions |-> NoRow]
    /\ applied = {}
    /\ announced = [s \in Suggestions |-> 0]
    /\ generator = [g \in Generators |-> Idle]
    /\ reviewer = [r \in Reviewers |-> Idle]
    /\ overlapped = {}
    /\ faults = 0

Fault == faults < MaxFaults /\ faults' = faults + 1

-----------------------------------------------------------------------------

\* generateSuggestions: loadCandidateProducts.
Generate(g) ==
    /\ generator[g] = Idle
    /\ generator' = [generator EXCEPT ![g] = [at |-> "check", todo |-> Products]]
    /\ UNCHANGED <<table, applied, announced, reviewer, overlapped, faults>>

\* Mutant: an approved suggestion does not stop a new one.
HasPendingSuggestion(p) ==
    \E s \in Suggestions : Stored(s) /\ table[s].product = p /\ table[s].status = "pending"

HasOpenSuggestion(p) ==
    \E s \in Suggestions :
        Stored(s) /\ table[s].product = p /\ table[s].status \in {"pending", "approved"}

\* The next product: skipped, or the AI service is asked.
CheckExisting(g) ==
    /\ generator[g].at = "check"
    /\ LET todo == generator[g].todo IN
       \/ todo = {} /\ generator' = [generator EXCEPT ![g] = Idle]
       \/ \E p \in todo :
             generator' = [generator EXCEPT ![g] =
                 IF HasOpenSuggestion(p)
                   THEN [at |-> "check", todo |-> todo \ {p}]
                   ELSE [at |-> "ask", todo |-> todo \ {p}, product |-> p]]
    /\ UNCHANGED <<table, applied, announced, reviewer, overlapped, faults>>

\* tryParseSuggestionPayload
UsableSuggestion(payload) == payload.price > 0 /\ payload.rationale

\* parseAiSuggestion: the first usable payload, if there is one.
ParseAiSuggestion(answer) ==
    LET payloads == <<answer.direct>> \o answer.texts
    IN  {payloads[i] : i \in {k \in DOMAIN payloads :
            /\ UsableSuggestion(payloads[k])
            /\ \A j \in 1 .. k - 1 : ~UsableSuggestion(payloads[j])}}

\* An error or an answer without a usable payload skips the product.
AskPrice(g) ==
    /\ generator[g].at = "ask"
    /\ \/ generator' = [generator EXCEPT ![g] = [at |-> "check", todo |-> generator[g].todo]]
       \/ \E answer \in Answers : \E parsed \in ParseAiSuggestion(answer) :
             generator' = [generator EXCEPT ![g] =
                 [at |-> "save", todo |-> generator[g].todo,
                  product |-> generator[g].product, parsed |-> parsed]]
    /\ UNCHANGED <<table, applied, announced, reviewer, overlapped, faults>>

\* A column of two decimals rounds half a cent away from zero.
Rounded(price) == Cent * ((2 * price + Cent) \div (2 * Cent))

\* The change, kept exactly and in proportion to the current price, is that
\* of the price the AI service named, before the price column rounds it.
NewSuggestion(p, current, parsed) ==
    [product |-> p, status |-> "pending", price |-> Rounded(parsed.price),
     change |-> parsed.price - current, current |-> current]

\* A new row, or the insert fails and the product is skipped.  The current
\* price was read when the generation began: orders have moved it since.
SaveSuggestion(g) ==
    /\ generator[g].at = "save"
    /\ \/ /\ \E s \in Suggestions, current \in CurrentPrices :
                /\ ~Stored(s)
                /\ table' = [table EXCEPT ![s] =
                       NewSuggestion(generator[g].product, current, generator[g].parsed)]
          /\ UNCHANGED faults
       \/ Fault /\ UNCHANGED table
    /\ generator' = [generator EXCEPT ![g] = [at |-> "check", todo |-> generator[g].todo]]
    /\ UNCHANGED <<applied, announced, reviewer, overlapped>>

-----------------------------------------------------------------------------

\* Mutant: a suggestion that was decided is decided again.
ReviewableAgain(row) == row.status # "approved"

Reviewable(row) == row.status = "pending"

\* Math.abs(changePercent) > 30 is refused.
WithinLimit(row) ==
    100 * row.change <= 30 * row.current /\ -100 * row.change <= 30 * row.current

\* A request reads its suggestion; refused ones change nothing.
Read(r, s, at) ==
    /\ reviewer[r] = Idle
    /\ Stored(s)
    /\ Reviewable(table[s])
    /\ reviewer' = [reviewer EXCEPT ![r] = [at |-> at, id |-> s, row |-> table[s]]]
    /\ overlapped' = IF \E q \in Reviewers : reviewer[q] # Idle /\ reviewer[q].id = s
                       THEN overlapped \cup {s} ELSE overlapped
    /\ UNCHANGED <<table, applied, announced, generator, faults>>

ReadForApproval(r, s) ==
    /\ Stored(s)
    /\ WithinLimit(table[s])
    /\ table[s].price > 0   \* or it is an invalid suggestedPrice
    /\ Read(r, s, "catalog")

ReadForRejection(r, s) == Read(r, s, "reject")

End(r) == reviewer' = [reviewer EXCEPT ![r] = Idle]

\* Mutant: a failed Catalog request is swallowed.
UpdateFailedSwallowed(r) == reviewer' = [reviewer EXCEPT ![r].at = "approve"]

\* updateProductPrice throws: the approval ends, the row stays as it is.
UpdateFailed(r) == End(r)

\* Catalog accepts the price or refuses it; an answer later than the timeout
\* is a failure although Catalog has accepted.
UpdateProductPrice(r) ==
    /\ reviewer[r].at = "catalog"
    /\ \/ /\ applied' = applied \cup {reviewer[r].id}
          /\ reviewer' = [reviewer EXCEPT ![r].at = "approve"]
          /\ UNCHANGED faults
       \/ UpdateFailed(r) /\ UNCHANGED <<applied, faults>>
       \/ /\ Fault
          /\ applied' = applied \cup {reviewer[r].id}
          /\ UpdateFailed(r)
    /\ UNCHANGED <<table, announced, generator, overlapped>>

\* The row as the request read it is saved with the decision.
SaveDecision(r, at, status, next) ==
    /\ reviewer[r].at = at
    /\ \/ /\ table' = [table EXCEPT ![reviewer[r].id] = [reviewer[r].row EXCEPT !.status = status]]
          /\ next
          /\ UNCHANGED faults
       \/ Fault /\ End(r) /\ UNCHANGED table
    /\ UNCHANGED <<applied, announced, generator, overlapped>>

SaveApproval(r) ==
    SaveDecision(r, "approve", "approved", reviewer' = [reviewer EXCEPT ![r].at = "publish"])

SaveRejection(r) == SaveDecision(r, "reject", "rejected", End(r))

\* publishPricingPriceChanged
PublishPriceChanged(r) ==
    /\ reviewer[r].at = "publish"
    /\ announced' = [announced EXCEPT ![reviewer[r].id] = @ + 1]
    /\ End(r)
    /\ UNCHANGED <<table, applied, generator, overlapped, faults>>

\* The process dies with its requests.
Crash ==
    /\ Fault
    /\ generator' = [g \in Generators |-> Idle]
    /\ reviewer' = [r \in Reviewers |-> Idle]
    /\ UNCHANGED <<table, applied, announced, overlapped>>

Next ==
    \/ \E g \in Generators :
          Generate(g) \/ CheckExisting(g) \/ AskPrice(g) \/ SaveSuggestion(g)
    \/ \E r \in Reviewers, s \in Suggestions : ReadForApproval(r, s) \/ ReadForRejection(r, s)
    \/ \E r \in Reviewers :
          UpdateProductPrice(r) \/ SaveApproval(r) \/ SaveRejection(r) \/ PublishPriceChanged(r)
    \/ Crash

Spec == Init /\ [][Next]_vars

-----------------------------------------------------------------------------

\* What applying a row's price changes lies within 30 percent of the current
\* price, but for the half cent by which the row may have rounded the price.
AppliesWithinLimit(row) ==
    /\ 200 * (row.price - row.current) <= 60 * row.current + 100 * Cent
    /\ 200 * (row.current - row.price) <= 60 * row.current + 100 * Cent

(***************************************************************************)
(* A suggestion is shown approved, and pricing.price_changed is published  *)
(* for it, only after Catalog has accepted its price, however reviews      *)
(* overlap and whatever fails; and a price Catalog has accepted is         *)
(* positive and changes the product's by no more than 30 percent, up or    *)
(* down, and half a cent (ORD-INV-006), whatever the AI service answered.  *)
(* The half cent is real: the limit is checked on the price as the AI      *)
(* service named it, and the price as the table rounds it is applied.      *)
(***************************************************************************)
ApprovedIsApplied ==
    \A s \in Suggestions :
        /\ (table[s].status = "approved" \/ announced[s] > 0) => s \in applied
        /\ s \in applied => table[s].price > 0 /\ AppliesWithinLimit(table[s])

(***************************************************************************)
(* A decision is final, unless two reviews of the suggestion overlapped.   *)
(***************************************************************************)
DecisionsAreFinal ==
    [][\A s \in Suggestions :
          (table[s].status \in {"approved", "rejected"} /\ s \notin overlapped)
              => table'[s] = table[s]]_vars

(***************************************************************************)
(* With one generation at a time, a product has at most one suggestion     *)
(* pending or approved, unless two reviews of one of them overlapped.      *)
(***************************************************************************)
OneOpenSuggestion ==
    \A s, t \in Suggestions :
        (/\ Stored(s) /\ Stored(t)
         /\ table[s].product = table[t].product
         /\ {table[s].status, table[t].status} \subseteq {"pending", "approved"}
         /\ {s, t} \cap overlapped = {})
            => s = t

-----------------------------------------------------------------------------

(***************************************************************************)
(* verify-pricing-safety.js has a second approval of a suggestion          *)
(* rejected: a suggestion's price change is published once.                *)
(***************************************************************************)
ApprovedOnce == \A s \in Suggestions : announced[s] <= 1

=============================================================================
