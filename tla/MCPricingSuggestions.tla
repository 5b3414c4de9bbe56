------------------------ MODULE MCPricingSuggestions ------------------------
(***************************************************************************)
(* Small instances of PricingSuggestions for TLC: changes on both sides of *)
(* the limit, two reviews that may overlap, rows for a second generation.  *)
(***************************************************************************)
EXTENDS PricingSuggestions, TLC

Suggested(price) == [price |-> price, rationale |-> TRUE]

Useless == [price |-> 0, rationale |-> FALSE]

Direct(payload) == [direct |-> payload, texts |-> <<>>]

\* In thousandths: an average no row holds exactly, and one below a cent.
MCCurrentPrices == {10005, 5}

\* The limit met and missed by one, up and down, once by a price in a text
\* behind a free one and one without a rationale; met by a price the table
\* rounds beyond it, and by one it rounds to nothing; nothing of use.
MCAnswers ==
    {Direct(Suggested(price)) : price \in {13006, 13007, 7003, 4}}
        \cup {Direct(Useless),
              [direct |-> [price |-> 11000, rationale |-> FALSE],
               texts |-> <<Useless, Suggested(0), Suggested(7004)>>]}

\* A bounded rise, for the run that needs no refusal.
MCBounded == {Direct(Suggested(12000))}

\* Reviewers and rows are not told apart by name.
MCSymmetry == Permutations(Reviewers) \cup Permutations(Suggestions)

=============================================================================
