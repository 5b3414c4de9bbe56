----------------------------- MODULE EventOutbox -----------------------------
(***************************************************************************)
(* OrderEventsService: an order event is stored in order_event_outbox,     *)
(* then written to the RabbitMQ channel, then its row is updated with the  *)
(* outcome; a timer retries the rows that are not published.  Publishing   *)
(* calls and the retry run interleave at every await, and each updates the *)
(* copy of the row it read.  One action is one stretch between two awaits. *)
(*                                                                         *)
(* The channel has no publisher confirms: "sent" is what the code can      *)
(* know, that the event was written to the channel; a write may return     *)
(* false (a full buffer), and the event is sent all the same.              *)
(***************************************************************************)
EXTENDS Naturals, FiniteSets

CONSTANTS
    OrderEvents,    \* events for orders.events
    PricingEvents,  \* events for pricing.events, which bypass the outbox
    BatchSize,      \* ORDER_EVENT_OUTBOX_RETRY_BATCH_SIZE
    MaxAttempts,    \* ORDER_EVENT_OUTBOX_MAX_ATTEMPTS
    Refuses,        \* may a write find the channel's buffer full?
    MaxFaults       \* bound: broker losses, crashes and database errors

ASSUME OutboxAssumption ==
    /\ OrderEvents \cap PricingEvents = {}
    /\ IsFiniteSet(OrderEvents)
    /\ BatchSize \in Nat \ {0}
    /\ MaxAttempts \in Nat \ {0}
    /\ Refuses \in BOOLEAN
    /\ MaxFaults \in Nat

VARIABLES
    outbox,     \* the committed rows of order_event_outbox
    sent,       \* how often each event was written to a channel
    publisher,  \* the publish call for each event
    retry,      \* the retry pass: outboxRetryInProgress unless "idle"
    channel,    \* this.channel: absent, usable, or closed by the broker
    broker,     \* does the broker accept connections?
    running,    \* is the process up?
    faults

vars == <<outbox, sent, publisher, retry, channel, broker, running, faults>>

Events == OrderEvents \cup PricingEvents

Outcome == {"accepted", "refused", "threw"}

Row == [status : {"pending", "published", "failed"}, attempts : Nat, created : Nat]

NoRow == [status |-> "absent"]

Stored(e) == outbox[e] # NoRow

Copy == [event : OrderEvents, row : Row]

NoCopy == [event |-> "none"]

-----------------------------------------------------------------------------

Init ==
    /\ outbox = [e \in OrderEvents |-> NoRow]
    /\ sent = [e \in Events |-> 0]
    /\ publisher = [e \in Events |-> "new"]
    /\ retry = [at |-> "idle", batch |-> {}, current |-> NoCopy, outcome |-> "accepted"]
    /\ channel = "none"
    /\ broker = TRUE
    /\ running = TRUE
    /\ faults = 0

Fault == faults < MaxFaults /\ faults' = faults + 1

\* channel.publish returns, or throws on a channel the broker has closed.
Write(e, outcome) ==
    \/ /\ channel = "open"
       /\ outcome = "accepted" \/ (Refuses /\ outcome = "refused")
       /\ sent' = [sent EXCEPT ![e] = @ + 1]
       /\ UNCHANGED channel
    \/ /\ channel = "broken"
       /\ outcome = "threw"
       /\ channel' = "none"
       /\ UNCHANGED sent

\* Mutant: only an accepted write counts as an attempt.
MarkedUncounted(row, outcome) ==
    [row EXCEPT !.attempts = IF outcome = "accepted" THEN @ + 1 ELSE @,
                !.status = IF outcome = "accepted" THEN "published" ELSE "failed"]

\* markOutboxPublished and markOutboxFailed, on the caller's copy of the row.
Marked(row, outcome) ==
    [row EXCEPT !.attempts = @ + 1,
                !.status = IF outcome = "accepted" THEN "published" ELSE "failed"]

-----------------------------------------------------------------------------

\* recordOutboxEvent: the insert commits, or fails and the failure is swallowed.
Record(e) ==
    /\ running
    /\ publisher[e] = "new"
    /\ e \in OrderEvents
    /\ \/ /\ outbox' = [outbox EXCEPT ![e] =
                           [status |-> "pending", attempts |-> 0,
                            created |-> Cardinality({f \in OrderEvents : Stored(f)})]]
          /\ publisher' = [publisher EXCEPT ![e] = "stored"]
          /\ UNCHANGED faults
       \/ /\ Fault
          /\ publisher' = [publisher EXCEPT ![e] = "unstored"]
          /\ UNCHANGED outbox
    /\ UNCHANGED <<sent, retry, channel, broker, running>>

ReadyToSend(e) ==
    \/ publisher[e] \in {"stored", "unstored"}
    \/ e \in PricingEvents /\ publisher[e] = "new"

\* publish, from the check of this.channel to the next await.
Send(e) ==
    /\ running
    /\ ReadyToSend(e)
    /\ \/ /\ channel = "none"
          /\ publisher' = [publisher EXCEPT ![e] = "done"]
          /\ UNCHANGED <<sent, channel>>
       \/ \E outcome \in Outcome :
             /\ Write(e, outcome)
             /\ publisher' = [publisher EXCEPT ![e] =
                                 IF publisher[e] = "stored" THEN outcome ELSE "done"]
    /\ UNCHANGED <<outbox, retry, broker, running, faults>>

\* The row as the call inserted it is written back with the outcome.
Mark(e) ==
    /\ publisher[e] \in Outcome
    /\ \/ /\ outbox' = [outbox EXCEPT ![e] =
                           Marked([@ EXCEPT !.status = "pending", !.attempts = 0], publisher[e])]
          /\ UNCHANGED faults
       \/ Fault /\ UNCHANGED outbox
    /\ publisher' = [publisher EXCEPT ![e] = "done"]
    /\ UNCHANGED <<sent, retry, channel, broker, running>>

-----------------------------------------------------------------------------

\* Mutant: only rows an attempt has failed for are retried.
RetryableFailed(e) ==
    /\ Stored(e)
    /\ outbox[e].status = "failed"
    /\ outbox[e].attempts < MaxAttempts

\* Mutant: the last attempt is never made.
RetryableOnceLess(e) ==
    /\ Stored(e)
    /\ outbox[e].status \in {"pending", "failed"}
    /\ outbox[e].attempts + 1 < MaxAttempts

\* Mutant: one attempt too many.
RetryableOnceMore(e) ==
    /\ Stored(e)
    /\ outbox[e].status \in {"pending", "failed"}
    /\ outbox[e].attempts <= MaxAttempts

Retryable(e) ==
    /\ Stored(e)
    /\ outbox[e].status \in {"pending", "failed"}
    /\ outbox[e].attempts < MaxAttempts

\* The oldest rows flushPendingOutbox takes.
Batch ==
    LET rows == {e \in OrderEvents : Retryable(e)}
        older(e) == {f \in rows : outbox[f].created < outbox[e].created}
    IN  {[event |-> e, row |-> outbox[e]] : e \in {f \in rows : Cardinality(older(f)) < BatchSize}}

Idle == [at |-> "idle", batch |-> {}, current |-> NoCopy, outcome |-> "accepted"]

\* The loop over the rows up to its next await; without a channel it runs out.
Proceed(batch) ==
    \/ /\ batch = {} \/ channel = "none"
       /\ retry' = Idle
       /\ UNCHANGED <<sent, channel>>
    \/ \E copy \in batch, outcome \in Outcome :
          /\ \A other \in batch : copy.row.created <= other.row.created
          /\ Write(copy.event, outcome)
          /\ retry' = [at |-> "mark", batch |-> batch \ {copy}, current |-> copy,
                       outcome |-> outcome]

\* The timer fires (or the module starts); a pass in progress is not doubled.
Tick ==
    /\ running
    /\ retry.at = "idle"
    /\ retry' = [Idle EXCEPT !.at = IF channel = "none" THEN "connect" ELSE "find"]
    /\ UNCHANGED <<outbox, sent, publisher, channel, broker, running, faults>>

\* this.channel is assigned before the exchanges are asserted.
Connect ==
    /\ retry.at = "connect"
    /\ IF broker
         THEN channel' = "open" /\ retry' = [retry EXCEPT !.at = "assert"]
         ELSE channel' = "none" /\ retry' = Idle
    /\ UNCHANGED <<outbox, sent, publisher, broker, running, faults>>

AssertExchanges ==
    /\ retry.at = "assert"
    /\ IF channel = "open"
         THEN retry' = [retry EXCEPT !.at = "find"] /\ UNCHANGED channel
         ELSE retry' = Idle /\ channel' = "none"
    /\ UNCHANGED <<outbox, sent, publisher, broker, running, faults>>

FindRows ==
    /\ retry.at = "find"
    /\ \/ Proceed(Batch) /\ UNCHANGED faults
       \/ Fault /\ retry' = Idle /\ UNCHANGED <<sent, channel>>
    /\ UNCHANGED <<outbox, publisher, broker, running>>

\* The row as the pass read it is written back with the outcome.
RetryMark ==
    /\ retry.at = "mark"
    /\ \/ /\ outbox' = [outbox EXCEPT ![retry.current.event] =
                           Marked(retry.current.row, retry.outcome)]
          /\ UNCHANGED faults
       \/ Fault /\ UNCHANGED outbox
    /\ Proceed(retry.batch)
    /\ UNCHANGED <<publisher, broker, running>>

-----------------------------------------------------------------------------

\* The broker closes the connection; the code is not listening for it.
BrokerDown ==
    /\ broker
    /\ Fault
    /\ broker' = FALSE
    /\ channel' = IF channel = "open" THEN "broken" ELSE channel
    /\ UNCHANGED <<outbox, sent, publisher, retry, running>>

BrokerUp ==
    /\ ~broker
    /\ broker' = TRUE
    /\ UNCHANGED <<outbox, sent, publisher, retry, channel, running, faults>>

\* Shutdown or crash: calls and the retry pass in progress are gone.
Stop ==
    /\ running
    /\ Fault
    /\ running' = FALSE
    /\ channel' = "none"
    /\ retry' = Idle
    /\ publisher' = [e \in Events |-> IF publisher[e] = "new" THEN "new" ELSE "done"]
    /\ UNCHANGED <<outbox, sent, broker>>

Start ==
    /\ ~running
    /\ running' = TRUE
    /\ UNCHANGED <<outbox, sent, publisher, retry, channel, broker, faults>>

Next ==
    \/ \E e \in OrderEvents : Record(e) \/ Mark(e)
    \/ \E e \in Events : Send(e)
    \/ Tick
    \/ Connect
    \/ AssertExchanges
    \/ FindRows
    \/ RetryMark
    \/ BrokerDown
    \/ BrokerUp
    \/ Stop
    \/ Start

Spec == Init /\ [][Next]_vars

(***************************************************************************)
(* The event loop runs every continuation and the timer; the database      *)
(* answers; a broker outage ends and the pod is restarted.  No request has *)
(* to arrive: Record is not fair.                                          *)
(***************************************************************************)
Fairness ==
    /\ \A e \in Events : WF_vars(Send(e))
    /\ \A e \in OrderEvents : WF_vars(Mark(e))
    /\ WF_vars(Tick)
    /\ WF_vars(Connect)
    /\ WF_vars(AssertExchanges)
    /\ WF_vars(FindRows)
    /\ WF_vars(RetryMark)
    /\ WF_vars(BrokerUp)
    /\ WF_vars(Start)

FairSpec == Spec /\ Fairness

-----------------------------------------------------------------------------

\* The types of the variables; a row in a retry pass is a row of the table.
TypeOK ==
    /\ outbox \in [OrderEvents -> Row \cup {NoRow}]
    /\ sent \in [Events -> Nat]
    /\ publisher \in [Events -> {"new", "stored", "unstored", "done"} \cup Outcome]
    /\ retry \in [at : {"idle", "connect", "assert", "find", "mark"}, batch : SUBSET Copy,
                  current : Copy \cup {NoCopy}, outcome : Outcome]
    /\ retry.at = "mark" => retry.current # NoCopy
    /\ channel \in {"none", "open", "broken"}
    /\ broker \in BOOLEAN
    /\ running \in BOOLEAN
    /\ faults \in Nat

(***************************************************************************)
(* The attempts a row counts never exceed the maximum, although two copies *)
(* of it may be written back by a publish call and a retry.                *)
(***************************************************************************)
AttemptsBounded == \A e \in OrderEvents : Stored(e) => outbox[e].attempts <= MaxAttempts

(***************************************************************************)
(* Copies of an event are bounded: although the retry pass sends rows whose *)
(* first publication is still being marked, and each writes back a copy    *)
(* that forgets the other's attempts, an order event is written to the     *)
(* channel at most twice as often as attempts are allowed, and once more   *)
(* for every fault.  A pricing event is written once at most.              *)
(***************************************************************************)
DuplicatesBounded ==
    /\ \A e \in OrderEvents : sent[e] <= 2 * MaxAttempts + faults
    /\ \A e \in PricingEvents : sent[e] <= 1

(***************************************************************************)
(* Every stored event is written to the channel in the end, through broker *)
(* losses, crashes and database errors fewer than the maximal attempts.    *)
(***************************************************************************)
StoredIsSent == \A e \in OrderEvents : Stored(e) ~> sent[e] > 0

(***************************************************************************)
(* Every stored row ends published, or failed with its attempts used up:   *)
(* no row stays in the retry set for ever or behind a full batch.          *)
(***************************************************************************)
Settled(e) ==
    Stored(e) /\ (outbox[e].status = "published" \/ outbox[e].attempts >= MaxAttempts)

OutboxDrains == \A e \in OrderEvents : Stored(e) ~> Settled(e)

=============================================================================
