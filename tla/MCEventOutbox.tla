---------------------------- MODULE MCEventOutbox ----------------------------
(***************************************************************************)
(* A small instance of EventOutbox and OutboxReadiness for TLC: two order  *)
(* events make a batch of one leave a row behind; one fault is fewer than  *)
(* the two attempts.                                                       *)
(***************************************************************************)
EXTENDS OutboxReadiness

Unsent == {e \in OrderEvents : Stored(e) /\ sent[e] = 0}

\* Bounds on readiness: it is asked while one event is stored and none is a
\* pricing event, and the outbox stands still once the answer is certain.
AskedForOne ==
    /\ Unsent # {}
    /\ Cardinality({e \in OrderEvents : Stored(e)}) = 1

WithoutPricing == \A e \in PricingEvents : publisher[e] = "new"

Certain == check.at = "answered" \/ "some" \in {check.pending, check.failed}

MCNext ==
    /\ ReadinessNext
    /\ check' # check => (check.at = "idle" => AskedForOne /\ WithoutPricing)
    /\ check.at = "count" => WithoutPricing'
    /\ Certain => UNCHANGED vars

MCSpec == ReadinessInit /\ [][MCNext]_readinessVars /\ Fairness

=============================================================================
