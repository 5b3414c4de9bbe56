-------------------------- MODULE MCOrderProcessing --------------------------
(***************************************************************************)
(* Small instances of OrderProcessing for TLC.  Approvals are one complete *)
(* approval per idempotency key, one without a key and an incomplete one:  *)
(* the code tells no others apart once the pattern checks are done.        *)
(***************************************************************************)
EXTENDS OrderProcessing, TLC

MCApprovals ==
    {FullApproval(k) : k \in IdempotencyKeys \cup {NoKey}}
        \cup {[FullApproval(NoKey) EXCEPT !.handled = {"payment", "warehouse"}]}

MCOneApproval == {FullApproval(NoKey)}

MCPaymentRequests == {"pending", "completed", "failed", "cancelled", "refunded"}

MCStatusRequests == OrderStatus \cup {"refund_like"}

\* A report for every status a stage projects to.
MCReports ==
    {"requested", "collecting", "handed_to_delivery", "delivered", "cancelled"}

\* Sound for the runs that check invariants only: no handler is named.
HandlerSymmetry == Permutations(Handlers)

=============================================================================
