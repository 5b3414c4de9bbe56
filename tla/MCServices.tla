----------------------------- MODULE MCServices -----------------------------
(***************************************************************************)
(* The instance of PricingSuggestions, and of four services beside it: the *)
(* logger, the reporter of the Warehouse credential, the fulfilment        *)
(* handoff and the replay for Marketing.  They share no state, so one is   *)
(* explored while the others have not begun.                               *)
(***************************************************************************)
EXTENDS MCPricingSuggestions, CredentialSelfReport, LoggerService, FulfillmentHandoff,
        AffinityReplay

MCEnvironments ==
    [token : TokenClass, ingest : {TRUE}, enabled : {TRUE}] \cup
    {[token |-> "dated", ingest |-> i, enabled |-> ~i] : i \in BOOLEAN}

\* With MaxText = 3 the last but one is cut inside the value it holds.
MCTexts ==
    {<<>>, <<"word">>, <<"head", "tail">>, <<"word", "head", "tail", "word">>, <<"key", "word">>,
     <<"word", "word", "head", "tail">>, <<"word", "break", "key", "word">>}

Text(path, t) == [path |-> path, kind |-> "text", of |-> t]

Number(path) == [path |-> path, kind |-> "number", of |-> <<>>]

Empty(path) == [path |-> path, kind |-> "empty", of |-> <<>>]

Field(key, at) == [in |-> "object", key |-> key, at |-> at]

Item(key, at) == [in |-> "list", key |-> key, at |-> at]

\* Every leaf there may be at a path.
Leaves(path) == {Text(path, t) : t \in MCTexts \ {<<>>}} \cup {Number(path), Empty(path)}

Private(path) == Text(path, <<"private", "private">>)

\* Values as deep as the limits and deeper, private ones under sensitive names.
MCMetadata ==
    {{}} \cup
    {{leaf, Private(<<Field("customer", 2)>>), Text(<<Field("correlationId", 3)>>, <<"word">>)} :
        leaf \in Leaves(<<Field("correlation_id", 1)>>)} \cup
    {{Text(<<Field("correlationId", 1)>>, t), Private(<<Field("order", 2), Field("token", 1), Item("token", 1)>>)} :
        t \in MCTexts} \cup
    {{leaf, Number(<<Field("lines", 1), Item("lines", 2)>>), Number(<<Field("lines", 1), Item("lines", 3)>>)} :
        leaf \in Leaves(<<Field("lines", 1), Item("lines", 1)>>)} \cup
    {{leaf} : leaf \in Leaves(<<Field("order", 1), Field("notes", 2), Item("notes", 1)>>)} \cup
    {{leaf} : leaf \in Leaves(<<Field("order", 1), Field("note", 3)>>)}

MCAuditRecords ==
    {{Text(<<Field("operation", 1)>>, <<"word">>), Text(<<Field("reasonCode", 2)>>, t),
      Text(<<Field("resourceId", 3)>>, u), Private(<<Field("payment", 4)>>)} : t, u \in MCTexts}

MCContexts == {<<>>, <<"word">>, <<"PaymentsService">>, <<"word", "word", "word">>, <<"break">>}

PaidLineOf(product, warehouse, quantity) ==
    [product |-> product, warehouse |-> warehouse, quantity |-> quantity]

Paid(lines) ==
    [lines |-> lines, shippingMethod |-> "given", enabled |-> TRUE,
     address |-> [street |-> "given", city |-> "given", postalCode |-> "given", country |-> "name"]]

Shirt == PaidLineOf("shirt", "prague", 1)

\* Lines alike, alike but for the quantity, different, none, without warehouse.
MCPaidOrders ==
    {Paid(<<Shirt>>), Paid(<<Shirt, Shirt>>), Paid(<<Shirt, PaidLineOf("shirt", "prague", 2)>>),
     Paid(<<Shirt, PaidLineOf("shirt", "brno", 1), Shirt>>), Paid(<<>>),
     Paid(<<Shirt, PaidLineOf("shirt", "", 1)>>),
     [Paid(<<Shirt>>) EXCEPT !.enabled = FALSE],
     [Paid(<<Shirt>>) EXCEPT !.shippingMethod = "broken"],
     [Paid(<<Shirt>>) EXCEPT !.address.country = "accented"]}

MCStrayReservations ==
    <<[order |-> "other", product |-> "shirt", warehouse |-> "prague", quantity |-> 1,
       status |-> "fulfilled"]>>

ReplayLine(product, quantity) == [product |-> product, quantity |-> quantity]

Bought(status, paid, channel, dated, lines) ==
    [status |-> status, paid |-> paid, channel |-> channel, dated |-> dated, lines |-> lines]

TwoProducts == <<ReplayLine("shirt", 1), ReplayLine("cap", 1)>>

\* Paid or not, of one product or two, one dated before an earlier one.
MCReplayOrders ==
    {Bought("confirmed", TRUE, "flipflop", 0, TwoProducts),
     Bought("delivered", TRUE, "allegro", 1, TwoProducts),
     Bought("pending", FALSE, "flipflop", 0, TwoProducts),
     Bought("confirmed", TRUE, "flipflop", 0, <<ReplayLine("shirt", 2), ReplayLine("shirt", 1)>>),
     Bought("confirmed", TRUE, "flipflop", 2, <<ReplayLine("shirt", 1), ReplayLine("cap", 0)>>)}

AskFor(role, channel, from, to, limited, limit) ==
    [role |-> role, channel |-> channel, from |-> from, to |-> to, limited |-> limited,
     limit |-> limit]

MCReplayRequests ==
    {AskFor("internal:marketing:service", c, f, t, l, n) :
        c \in {"", "flipflop"}, f \in {0, 2}, t \in {0, 2}, l \in {TRUE}, n \in {0, 1, 7}} \cup
    {AskFor("internal:marketing:service", "", 0, 0, FALSE, 0),
     AskFor("internal:marketing:service", "unsupported", 0, 0, FALSE, 0),
     AskFor("internal:marketing:service", "", 3, 2, FALSE, 0),
     AskFor("internal:marketing:service", "", -1, 2, FALSE, 0),
     AskFor("internal:catalog:service", "", 0, 0, FALSE, 0)}

MCInit == Init /\ ReportInit /\ LogInit /\ HandoffInit /\ ReplayInit

\* One of the initial states of the other services is enough for each.
QuietReport ==
    /\ ReportInit
    /\ environment = [token |-> "dated", ingest |-> TRUE, enabled |-> TRUE]
    /\ principal = "good"

QuietLog == LogInit /\ ~central

QuietHandoff == HandoffInit /\ paidOrder = Paid(<<Shirt>>)

MCNext ==
    \/ QuietReport /\ QuietLog /\ QuietHandoff /\ ReplayInit /\ Next
          /\ UNCHANGED <<reportVars, logVars, handoffVars, replayVars>>
    \/ Init /\ QuietLog /\ QuietHandoff /\ ReplayInit /\ ReportNext
          /\ UNCHANGED <<vars, logVars, handoffVars, replayVars>>
    \/ Init /\ QuietReport /\ QuietHandoff /\ ReplayInit /\ LogNext
          /\ UNCHANGED <<vars, reportVars, handoffVars, replayVars>>
    \/ Init /\ QuietReport /\ QuietLog /\ ReplayInit /\ HandoffNext
          /\ UNCHANGED <<vars, reportVars, logVars, replayVars>>
    \/ Init /\ QuietReport /\ QuietLog /\ QuietHandoff /\ ReplayNext
          /\ UNCHANGED <<vars, reportVars, logVars, handoffVars>>

MCSpec == MCInit /\ [][MCNext]_<<vars, reportVars, logVars, handoffVars, replayVars>>

\* Runs are not told apart by name either.
MCServicesSymmetry == MCSymmetry \cup Permutations(Runs)

=============================================================================
