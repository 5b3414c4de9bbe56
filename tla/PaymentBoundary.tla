--------------------------- MODULE PaymentBoundary ---------------------------
(***************************************************************************)
(* What Orders promises Payments and Warehouse about one order: a payment  *)
(* reference may be replaced until the order is paid; paid is final; stock *)
(* is consumed only for a paid order, in one attempt; and the order is     *)
(* announced as paid once, after that attempt.  OrderProcessing implements *)
(* it as long as requests on the order do not overlap.                     *)
(***************************************************************************)
EXTENDS Naturals

CONSTANTS Items, References, NoReference

VARIABLES
    paid,       \* has the order been recorded as paid?
    reference,  \* the payment it is recorded under
    consumed,   \* the items whose stock the warehouse has consumed
    told        \* has the paid event been handed over?

boundary == <<paid, reference, consumed, told>>

Init ==
    /\ paid \in BOOLEAN
    /\ reference = NoReference
    /\ consumed = {}
    /\ told = FALSE

\* A channel may create the order as paid, with no reference yet.
RecordReference(r) ==
    /\ ~paid \/ reference = NoReference
    /\ reference' = r
    /\ paid' \in {paid, TRUE}
    /\ UNCHANGED <<consumed, told>>

Consume(taken) ==
    /\ paid
    /\ ~told
    /\ consumed = {}
    /\ consumed' = taken
    /\ UNCHANGED <<paid, reference, told>>

Announce ==
    /\ paid
    /\ ~told
    /\ told' = TRUE
    /\ UNCHANGED <<paid, reference, consumed>>

Next ==
    \/ \E r \in References : RecordReference(r)
    \/ \E taken \in SUBSET Items : Consume(taken)
    \/ Announce

Spec == Init /\ [][Next]_boundary

=============================================================================
