--------------------------- MODULE OutboxReadiness ---------------------------
(***************************************************************************)
(* OrderEventsService.getOutboxReadiness beside the outbox: a request for  *)
(* GET /health/order-events counts the pending and the failed rows with    *)
(* two queries in parallel, then looks at this.channel.  Publishing calls  *)
(* and the retry pass go on between the queries.  A request changes        *)
(* nothing but the text of the last error, which nothing but the answer    *)
(* reads, so that one at a time stands for any number.                     *)
(***************************************************************************)
EXTENDS EventOutbox

VARIABLE check  \* the request for readiness, or its last answer

readinessVars == <<outbox, sent, publisher, retry, channel, broker, running, faults, check>>

\* How many rows a query counted, as far as the answer asks.
Count == {"unread", "none", "some"}

Answer == {"none", "ready", "degraded"}

(***************************************************************************)
(* "asked" (history) are the events stored when the request arrived, and   *)
(* "slipped" (history) those whose rows were pending when the failed rows  *)
(* were counted and failed when the pending rows were.                     *)
(***************************************************************************)
Unasked == [at |-> "idle", asked |-> {}, slipped |-> {}, pending |-> "unread",
            failed |-> "unread", answer |-> "none"]

-----------------------------------------------------------------------------

ReadinessInit == Init /\ check = Unasked

AskReadiness ==
    /\ running
    /\ check.at = "idle"
    /\ check' = [Unasked EXCEPT !.at = "count", !.asked = {e \in OrderEvents : Stored(e)}]

\* Mutant: the failed rows are not counted.
RowsOfPending(status) ==
    {e \in OrderEvents : Stored(e) /\ outbox[e].status = status /\ status = "pending"}

RowsOf(status) == {e \in OrderEvents : Stored(e) /\ outbox[e].status = status}

Counted(status) == IF RowsOf(status) = {} THEN "none" ELSE "some"

CountPending ==
    /\ check.at = "count"
    /\ check.pending = "unread"
    /\ check' = [check EXCEPT !.pending = Counted("pending"),
                              !.slipped = @ \cap RowsOf("failed")]

CountFailed ==
    /\ check.at = "count"
    /\ check.failed = "unread"
    /\ check' = [check EXCEPT !.failed = Counted("failed"),
                              !.slipped = IF check.pending = "unread" THEN RowsOf("pending")
                                                                      ELSE {}]

\* The answer that promises nothing.
Degraded == [Unasked EXCEPT !.at = "answered", !.answer = "degraded"]

\* A query fails: Promise.all rejects and neither count is known.
CountingFails ==
    /\ check.at = "count"
    /\ "unread" \in {check.pending, check.failed}
    /\ check' = Degraded

\* Both counts are there, and this.channel is read now.
AnswerReadiness ==
    /\ check.at = "count"
    /\ "unread" \notin {check.pending, check.failed}
    /\ check' = IF channel # "none" /\ check.pending = "none" /\ check.failed = "none"
                  THEN [check EXCEPT !.at = "answered", !.answer = "ready"]
                  ELSE Degraded

EndReadiness ==
    /\ check.at = "answered"
    /\ check' = Unasked

ReadinessStep ==
    \/ AskReadiness
    \/ CountPending
    \/ CountFailed
    \/ CountingFails
    \/ AnswerReadiness
    \/ EndReadiness

\* A request dies with the process.
ReadinessNext ==
    \/ Next /\ check' = IF running' THEN check ELSE Unasked
    \/ ReadinessStep /\ UNCHANGED vars

ReadinessSpec == ReadinessInit /\ [][ReadinessNext]_readinessVars

-----------------------------------------------------------------------------

(***************************************************************************)
(* When GET /health/order-events says "ready", every event that was stored *)
(* when it was asked has been written to the channel, whatever the         *)
(* publishing calls and the retry pass did between the two counts and the  *)
(* look at the channel: none hides in a failed row, a stale copy or a lost *)
(* update.  The one exception is the row the parallel counts miss: one     *)
(* whose attempt fails after the failed rows were counted and before the   *)
(* pending rows are.                                                       *)
(***************************************************************************)
ReadyMeansSent ==
    check.answer = "ready" =>
        \A e \in check.asked : sent[e] > 0 \/ e \in check.slipped

=============================================================================
