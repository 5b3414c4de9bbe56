------------------------- MODULE CreateOrderRequest -------------------------
(***************************************************************************)
(* The body of POST /api/orders: what normalizeCreateOrderRequest rejects, *)
(* the order it makes of the rest, the idempotency key, and the comparison *)
(* of a request with the order stored under its key.                       *)
(*                                                                         *)
(* A text is a word with what the normalisation takes away, blanks around  *)
(* it and upper case; a long one is longer than its field may be.  Absent, *)
(* null and the empty string are treated alike everywhere.  Amounts come   *)
(* in thousandths and are stored in hundredths; the binary rounding of a   *)
(* half is left out.  The billing address is made as the shipping address; *)
(* the tax as the shipping cost; the payment and shipping methods, the     *)
(* notes and the titles as the payment status; all are left out.           *)
(***************************************************************************)
EXTENDS Integers, Sequences, FiniteSets

CONSTANTS
    Uuids,          \* the words that have the form of a UUID
    Currencies,     \* the words of three letters
    NoNumber,       \* undefined where a number is expected
    NotANumber      \* anything Number() makes no finite number of

Absent == [word |-> "", padded |-> FALSE, upper |-> FALSE, long |-> FALSE]

Text == [word : STRING, padded : BOOLEAN, upper : BOOLEAN, long : BOOLEAN]

Number == Int \cup {NoNumber, NotANumber}

Trim(t) == [t EXCEPT !.padded = FALSE]

LowerCase(t) == [t EXCEPT !.upper = FALSE]

\* JavaScript's a || b: a blank string is given, an empty one is not.
FirstGiven(a, b) == IF a = Absent THEN b ELSE a

IsString(t) == t.word # "" /\ ~t.long

\* undefined for anything blank; no length is checked.
OptionalString(t) == IF t.word = "" THEN Absent ELSE Trim(t)

IsMoney(n) == n \notin {NoNumber, NotANumber} /\ n >= 0

\* Math.round(n * 100) / 100
Cents(n) == (n + 5) \div 10

OrZero(n) == IF n = NoNumber THEN 0 ELSE n

IsQuantity(n) == n \notin {NoNumber, NotANumber} /\ n > 0

IsUuid(t) == IsString(t) /\ t.word \in Uuids

-----------------------------------------------------------------------------

(***************************************************************************)
(* The body, and what its parts may hold.                                  *)
(***************************************************************************)

SubjectField == {"authSubject", "authUserId", "subject", "sub"}

AddressField == {"name", "street", "city", "postalCode", "country", "companyName",
                 "companyId", "taxId", "vatId", "email"}

LeadField == {"leadId", "source", "campaignId"}

CreateOrderAddressDto == [AddressField -> Text]

CreateOrderItemDto ==
    [product : Text, quantity : Number, unitPrice : Number, totalPrice : Number, warehouse : Text]

\* given: the object is there.
CreateOrderTotalsDto ==
    [given : BOOLEAN, subtotal : Number, shippingCost : Number, total : Number, currency : Text]

CreateOrderLeadAttributionDto == [unknownKeys : BOOLEAN, named : [LeadField -> Text]]

\* policy and source stand for the policy references and serverTotalSource.
CreateOrderBundleEvidenceDto ==
    [unknownKeys : BOOLEAN, version : STRING, bundleId : Text, products : Seq(Text),
     policy : {"none", "given", "malformed"}, source : {"none", "given", "malformed"}]

\* flat are the totals beside the objects, payment is payment.status.
CreateOrderRequestDto ==
    [unknownKeys : BOOLEAN, version : STRING, channel : Text, externalOrderId : Text,
     channelAccountId : Text, lead : CreateOrderLeadAttributionDto,
     bundles : Seq(CreateOrderBundleEvidenceDto), orderedAt : {"none", "given", "invalid"},
     status : Text, customer : [SubjectField -> Text], address : CreateOrderAddressDto,
     items : Seq(CreateOrderItemDto), totals : CreateOrderTotalsDto,
     flat : CreateOrderTotalsDto, payment : Text, paymentStatus : Text]

-----------------------------------------------------------------------------

\* ALLOWED_CHANNELS
Channel == {"flipflop", "allegro", "aukro", "bazos", "heureka", "cliplot"}

IsLine(l) ==
    /\ IsQuantity(l.quantity)
    /\ IsMoney(l.unitPrice)
    /\ l.totalPrice # NoNumber => IsMoney(l.totalPrice)
    /\ IsString(l.product)

Line(l) ==
    [product |-> Trim(l.product), quantity |-> l.quantity, unitPrice |-> Cents(l.unitPrice),
     totalPrice |-> IF l.totalPrice = NoNumber THEN l.quantity * Cents(l.unitPrice)
                    ELSE Cents(l.totalPrice),
     warehouse |-> OptionalString(l.warehouse)]

Items(r) == [i \in DOMAIN r.items |-> Line(r.items[i])]

ProductsOf(r) == {Trim(r.items[i].product) : i \in DOMAIN r.items}

\* The Auth subjects a customer object names, as they are compared.
Candidates(r) ==
    {LowerCase(OptionalString(r.customer[f])) : f \in SubjectField} \ {Absent}

IsCustomer(r) == Cardinality(Candidates(r)) <= 1 /\ \A s \in Candidates(r) : s.word \in Uuids

\* Mutant: authSubject is taken as it was written.
SubjectAsWritten(r) == OptionalString(r.customer["authSubject"])

Subject(r) == IF Candidates(r) = {} THEN Absent ELSE CHOOSE s \in Candidates(r) : TRUE

Address(a) == [f \in DOMAIN a |-> OptionalString(a[f])]

IsBundle(b, products) ==
    /\ ~b.unknownKeys
    /\ b.version = "catalog.bundle.v1"
    /\ IsUuid(b.bundleId)
    /\ Len(b.products) \in 2 .. 10
    /\ \A i \in DOMAIN b.products : IsString(b.products[i])
    /\ Cardinality({Trim(b.products[i]) : i \in DOMAIN b.products}) = Len(b.products)
    /\ {Trim(b.products[i]) : i \in DOMAIN b.products} = products
    /\ b.policy # "malformed"
    /\ b.source # "malformed"

AreBundles(r) ==
    /\ Len(r.bundles) <= 10
    /\ \A i \in DOMAIN r.bundles : IsBundle(r.bundles[i], ProductsOf(r))

Bundle(b) ==
    [bundleId |-> LowerCase(Trim(b.bundleId)), policy |-> b.policy, source |-> b.source,
     products |-> {Trim(b.products[i]) : i \in DOMAIN b.products}]

\* normalizeAttributionString: a blank one is none at all.
IsLead(lead) ==
    /\ ~lead.unknownKeys
    /\ \A f \in LeadField : OptionalString(lead.named[f]) = Absent \/ ~lead.named[f].long

\* The nested totals, or the flat fields when there are none: never a mixture.
Totals(r) == IF r.totals.given THEN r.totals ELSE r.flat

AreTotals(t) ==
    /\ IsMoney(t.subtotal)
    /\ IsMoney(OrZero(t.shippingCost))
    /\ IsMoney(t.total)
    /\ IsString(t.currency)
    /\ t.currency.word \in Currencies

Status(r) == OptionalString(r.status)

IsInitialStatus(t) == t = Absent \/ (t.word \in {"pending", "confirmed"} /\ ~t.upper)

\* Every key of the body is one of ALLOWED_CREATE_KEYS.
HasAllowedKeysOnly(r) == ~r.unknownKeys

\* Every check that throws a BadRequestException.
Accepted(r) ==
    /\ HasAllowedKeysOnly(r)
    /\ r.version \in {"none", "orders.create.v1"}
    /\ IsString(r.channel)
    /\ r.channel.word \in Channel
    /\ IsString(r.externalOrderId)
    /\ IsInitialStatus(Status(r))
    /\ AreTotals(Totals(r))
    /\ r.items # <<>>
    /\ \A i \in DOMAIN r.items : IsLine(r.items[i])
    /\ r.orderedAt # "invalid"
    /\ IsCustomer(r)
    /\ AreBundles(r)
    /\ IsLead(r.lead)

\* Mutant: the channel keeps its spelling.
KeyAsWritten(r) ==
    [channel |-> Trim(r.channel), externalOrderId |-> Trim(r.externalOrderId),
     channelAccountId |-> OptionalString(r.channelAccountId)]

\* getCreateOrderIdempotencyKey
Key(r) ==
    [channel |-> LowerCase(Trim(r.channel)), externalOrderId |-> Trim(r.externalOrderId),
     channelAccountId |-> OptionalString(r.channelAccountId)]

\* The order that is stored; the lead attribution only goes into the event.
Normalized(r) ==
    [key |-> Key(r),
     status |-> IF Status(r) = Absent THEN "pending" ELSE Status(r).word,
     subtotal |-> Cents(Totals(r).subtotal),
     shippingCost |-> Cents(OrZero(Totals(r).shippingCost)),
     total |-> Cents(Totals(r).total),
     currency |-> LowerCase(Trim(Totals(r).currency)),
     paymentStatus |-> OptionalString(FirstGiven(r.payment, r.paymentStatus)),
     subject |-> Subject(r),
     address |-> Address(r.address),
     bundles |-> [i \in DOMAIN r.bundles |-> Bundle(r.bundles[i])],
     orderedAt |-> r.orderedAt,
     items |-> Items(r)]

-----------------------------------------------------------------------------

\* The orders a query may load a row as: its join of the lines has no ORDER BY.
Loaded(order) ==
    LET lines == DOMAIN order.items
        orders == {p \in [lines -> lines] : \A i, j \in lines : p[i] = p[j] => i = j}
    IN  {[order EXCEPT !.items = [i \in lines |-> order.items[p[i]]]] : p \in orders}

\* isMatchingCreateOrderReplay: every field, and the lines one by one in the
\* order in which they were loaded.
Matching(existing, order) == existing = order

=============================================================================
