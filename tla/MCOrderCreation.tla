--------------------------- MODULE MCOrderCreation ---------------------------
(***************************************************************************)
(* Small instances of OrderCreation for TLC: three calls are two           *)
(* concurrent creates and a retry, two lines make a partial reservation    *)
(* and two orders in which they are loaded.                                *)
(***************************************************************************)
EXTENDS OrderCreation

T(word) == [word |-> word, padded |-> FALSE, upper |-> FALSE, long |-> FALSE]

Spelled(word) == [word |-> word, padded |-> TRUE, upper |-> TRUE, long |-> FALSE]

Blank == [Absent EXCEPT !.padded = TRUE]

MCUuids == {"u1", "u2", "b1"}

MCCurrencies == {"czk"}

LineOf(product) ==
    [product |-> T(product), quantity |-> 1, unitPrice |-> 10005, totalPrice |-> NoNumber,
     warehouse |-> T("w1")]

NoTotals ==
    [given |-> FALSE, subtotal |-> NoNumber, shippingCost |-> NoNumber, total |-> NoNumber,
     currency |-> Absent]

OneLine ==
    [unknownKeys |-> FALSE, version |-> "orders.create.v1", channel |-> T("flipflop"),
     externalOrderId |-> T("e1"), channelAccountId |-> Absent, status |-> Absent,
     totals |-> [given |-> TRUE, subtotal |-> 10010, shippingCost |-> NoNumber,
                 total |-> 10010, currency |-> Spelled("czk")],
     flat |-> NoTotals, payment |-> Absent, paymentStatus |-> T("paid"),
     customer |-> [f \in SubjectField |-> IF f = "authUserId" THEN T("u1") ELSE Absent],
     address |-> [f \in AddressField |-> IF f = "city" THEN T("brno") ELSE Absent],
     items |-> <<LineOf("p1")>>, bundles |-> <<>>, orderedAt |-> "none",
     lead |-> [unknownKeys |-> FALSE, named |-> [f \in LeadField |-> Absent]]]

\* The same order: other spelling, flat totals, explicit defaults.
Respelled ==
    [OneLine EXCEPT
        !.version = "none", !.channel = Spelled("flipflop"),
        !.externalOrderId.padded = TRUE, !.channelAccountId = Blank, !.status = T("pending"),
        !.totals = NoTotals,
        !.flat = [given |-> TRUE, subtotal |-> 10005, shippingCost |-> 0, total |-> 10014,
                  currency |-> T("czk")],
        !.payment = T("paid"), !.paymentStatus = T("other"),
        !.lead.named["source"] = T("s1"),
        !.customer = [f \in SubjectField |-> IF f = "authUserId" THEN Absent ELSE Spelled("u1")],
        !.items = <<[LineOf("p1") EXCEPT !.unitPrice = 10010, !.totalPrice = 10010]>>]

BundleOf(products) ==
    [unknownKeys |-> FALSE, version |-> "catalog.bundle.v1", bundleId |-> Spelled("b1"),
     products |-> products, policy |-> "none", source |-> "none"]

TwoLines ==
    [OneLine EXCEPT !.items = <<LineOf("p1"), LineOf("p2")>>,
                    !.bundles = <<BundleOf(<<T("p2"), T("p1")>>)>>]

Swapped == [TwoLines EXCEPT !.items = <<LineOf("p2"), LineOf("p1")>>]

\* Another order: identifiers are compared in the case given.
OtherIdentity ==
    [OneLine EXCEPT !.externalOrderId.upper = TRUE,
                    !.items = <<[LineOf("p1") EXCEPT !.warehouse = Blank]>>]

\* The last ten are refused.
Bodies ==
    [one |-> OneLine, respelled |-> Respelled, two |-> TwoLines, swapped |-> Swapped,
     otherIdentity |-> OtherIdentity,
     status |-> [OneLine EXCEPT !.status = T("shipped")],
     noChannel |-> [OneLine EXCEPT !.channel = Absent],
     longId |-> [OneLine EXCEPT !.externalOrderId.long = TRUE],
     mixedTotals |-> [OneLine EXCEPT !.totals.total = NoNumber, !.flat.total = 10010],
     noItems |-> [OneLine EXCEPT !.items = <<>>],
     zeroItems |-> [OneLine EXCEPT !.items = <<[LineOf("p1") EXCEPT !.quantity = 0]>>],
     twoSubjects |-> [OneLine EXCEPT !.customer["sub"] = T("u2")],
     otherProducts |-> [TwoLines EXCEPT !.bundles = <<BundleOf(<<T("p1"), T("p3")>>)>>],
     twiceAProduct |-> [TwoLines EXCEPT !.bundles = <<BundleOf(<<T("p1"), T("p1")>>)>>],
     badLead |-> [OneLine EXCEPT !.lead.named["source"] = [T("s1") EXCEPT !.long = TRUE]]]

AllNames == DOMAIN Bodies

OneName == {"one"}

OneBody == [one |-> OneLine]
=============================================================================
