--------------------------- MODULE EventOutbox_proofs ---------------------------
(***************************************************************************)
(* Theorems about EventOutbox and OutboxReadiness for any number of        *)
(* events, any batch size, any maximal number of attempts and any number   *)
(* of faults, with TLAPS.                                                  *)
(***************************************************************************)
EXTENDS OutboxReadiness, FiniteSetTheorems, TLAPS

-----------------------------------------------------------------------------

\* A call that has its row to send or to update was made for a stored event.
PublisherStored ==
    \A e \in Events : publisher[e] \in {"stored"} \cup Outcome
                          => e \in OrderEvents /\ Stored(e)

\* What a retry pass holds was still to be retried when the pass read it.
CopiesRetryable ==
    /\ \A copy \in retry.batch : copy.row.attempts < MaxAttempts
    /\ retry.at = "mark" => /\ retry.current.row.attempts < MaxAttempts
                            /\ retry.current \in Copy

\* An attempt that was accepted, recorded already or not, has sent its event.
AcceptedIsSent ==
    /\ \A e \in OrderEvents : outbox[e].status = "published" => sent[e] > 0
    /\ \A e \in OrderEvents : publisher[e] = "accepted" => sent[e] > 0
    /\ retry.at = "mark" /\ retry.outcome = "accepted" => sent[retry.current.event] > 0

OutboxInvariant ==
    /\ TypeOK
    /\ PublisherStored
    /\ CopiesRetryable
    /\ AttemptsBounded
    /\ AcceptedIsSent

-----------------------------------------------------------------------------

\* The absent row is not a row: a row has one of three statuses.
LEMMA NoRowIsNoRow == NoRow \notin Row
BY DEF NoRow, Row

\* Marking a row counts one attempt and gives it the outcome's status.
LEMMA MarkedRow ==
    ASSUME NEW r \in Row, NEW outcome \in Outcome
    PROVE  /\ Marked(r, outcome) \in Row
           /\ Marked(r, outcome).attempts = r.attempts + 1
           /\ Marked(r, outcome).status = "published" => outcome = "accepted"
<1> DEFINE status == IF outcome = "accepted" THEN "published" ELSE "failed"
           counted == [r EXCEPT !.attempts = @ + 1]
<1>1. Marked(r, outcome) = [counted EXCEPT !.status = status]
  BY DEF Marked
<1>2. status \in {"published", "failed"} /\ (status = "published" => outcome = "accepted")
  OBVIOUS
<1>3. counted \in Row /\ counted.attempts = r.attempts + 1
  BY DEF Row
<1> HIDE DEF status, counted
<1> QED
  BY <1>1, <1>2, <1>3 DEF Row

\* The rows stored so far are finitely many.
LEMMA StoredCount == Cardinality({f \in OrderEvents : Stored(f)}) \in Nat
<1>1. {f \in OrderEvents : Stored(f)} \subseteq OrderEvents
  OBVIOUS
<1>2. IsFiniteSet({f \in OrderEvents : Stored(f)})
  BY <1>1, FS_Subset, OutboxAssumption
<1> QED
  BY <1>2, FS_CardinalityType

\* Writing to the channel only adds to what was sent; accepted means written.
LEMMA WriteSends ==
    ASSUME TypeOK, NEW e \in Events, NEW outcome \in Outcome, Write(e, outcome)
    PROVE  /\ sent' \in [Events -> Nat]
           /\ channel' \in {"none", "open", "broken"}
           /\ \A f \in Events : sent'[f] >= sent[f]
           /\ outcome = "accepted" => sent'[e] > 0
BY DEF TypeOK, Write

\* The batch holds copies of rows that are still to be retried.
LEMMA BatchRetryable ==
    ASSUME TypeOK
    PROVE  Batch \subseteq {copy \in Copy : copy.row.attempts < MaxAttempts}
<1> SUFFICES ASSUME NEW e \in OrderEvents, Retryable(e)
             PROVE  [event |-> e, row |-> outbox[e]] \in
                        {copy \in Copy : copy.row.attempts < MaxAttempts}
  BY DEF Batch
<1>1. outbox[e] \in Row
  BY DEF TypeOK, Retryable, Stored
<1> QED
  BY <1>1 DEF Copy, Retryable

\* What the proofs need of a retry pass and of the channel it writes to.
RetryOK ==
    /\ retry \in [at : {"idle", "connect", "assert", "find", "mark"}, batch : SUBSET Copy,
                  current : Copy \cup {NoCopy}, outcome : Outcome]
    /\ retry.at = "mark" => retry.current # NoCopy
    /\ CopiesRetryable
    /\ retry.at = "mark" /\ retry.outcome = "accepted" => sent[retry.current.event] > 0

\* What is sent stays sent, however a step ends.
OnlySends ==
    /\ sent' \in [Events -> Nat]
    /\ channel' \in {"none", "open", "broken"}
    /\ \A f \in Events : sent'[f] >= sent[f]

\* The loop of a retry pass keeps its copies and only adds to what was sent.
LEMMA ProceedKeeps ==
    ASSUME TypeOK, NEW batch \in SUBSET {copy \in Copy : copy.row.attempts < MaxAttempts},
           Proceed(batch)
    PROVE  OnlySends /\ RetryOK'
<1>1. CASE retry' = Idle /\ UNCHANGED <<sent, channel>>
  BY <1>1 DEF Idle, TypeOK, Outcome, RetryOK, OnlySends, CopiesRetryable
<1>2. ASSUME NEW copy \in batch, NEW outcome \in Outcome, Write(copy.event, outcome),
             retry' = [at |-> "mark", batch |-> batch \ {copy}, current |-> copy,
                       outcome |-> outcome]
      PROVE  OnlySends /\ RetryOK'
  <2>1. copy.event \in Events
    BY DEF Copy, Events
  <2>2. copy # NoCopy
    BY DEF Copy, NoCopy
  <2>3. OnlySends /\ (outcome = "accepted" => sent'[copy.event] > 0)
    BY <1>2, <2>1, WriteSends DEF OnlySends
  <2> QED
    BY <1>2, <2>2, <2>3 DEF RetryOK, CopiesRetryable
<1> QED
  BY <1>1, <1>2 DEF Proceed

-----------------------------------------------------------------------------

LEMMA InitInvariant == Init => OutboxInvariant
BY OutboxAssumption, NoRowIsNoRow
   DEF Init, OutboxInvariant, TypeOK, PublisherStored, CopiesRetryable, AttemptsBounded,
       AcceptedIsSent, Stored, NoRow, Outcome, Events

LEMMA RetryOfInvariant == OutboxInvariant => RetryOK
BY DEF OutboxInvariant, TypeOK, RetryOK, AcceptedIsSent

\* The invariant after a step that touches a retry pass and sent, not the rows.
LEMMA RetryStep ==
    ASSUME OutboxInvariant, OnlySends, RetryOK', UNCHANGED <<outbox, publisher, broker, running>>,
           faults' \in Nat
    PROVE  OutboxInvariant'
<1>1. TypeOK'
  BY DEF OutboxInvariant, TypeOK, RetryOK, OnlySends
<1>2. PublisherStored' /\ AttemptsBounded'
  BY DEF OutboxInvariant, PublisherStored, AttemptsBounded, Stored
<1>3. AcceptedIsSent'
  <2>1. \A e \in OrderEvents : sent[e] \in Nat /\ sent'[e] \in Nat /\ sent'[e] >= sent[e]
    BY DEF OutboxInvariant, TypeOK, OnlySends, Events
  <2> QED
    BY <2>1 DEF OutboxInvariant, AcceptedIsSent, RetryOK
<1> QED
  BY <1>1, <1>2, <1>3 DEF OutboxInvariant, RetryOK

LEMMA StepInvariant == OutboxInvariant /\ [Next]_vars => OutboxInvariant'
<1> SUFFICES ASSUME OutboxInvariant, [Next]_vars
             PROVE  OutboxInvariant'
  OBVIOUS
<1> USE OutboxAssumption
<1>0. /\ TypeOK
      /\ RetryOK
      /\ \A e \in OrderEvents : e \in Events
  BY RetryOfInvariant DEF OutboxInvariant, Events
<1>f. Fault => faults' \in Nat
  BY <1>0 DEF Fault, TypeOK
<1>k. UNCHANGED <<sent, channel>> => OnlySends
  BY <1>0 DEF OnlySends, TypeOK
<1>1. ASSUME NEW e \in OrderEvents, Record(e)
      PROVE  OutboxInvariant'
  <2> DEFINE new == [status |-> "pending", attempts |-> 0,
                     created |-> Cardinality({f \in OrderEvents : Stored(f)})]
  <2>1. new \in Row /\ new.attempts = 0 /\ new.status = "pending" /\ new # NoRow
    BY StoredCount DEF Row, NoRow
  <2> HIDE DEF new
  <2>2. CASE outbox' = [outbox EXCEPT ![e] = new] /\ publisher' = [publisher EXCEPT ![e] = "stored"]
             /\ UNCHANGED faults
    <3>1. TypeOK'
      BY <1>0, <1>1, <2>1, <2>2 DEF Record, TypeOK
    <3>2. PublisherStored' /\ AttemptsBounded'
      BY <1>0, <1>1, <2>1, <2>2
         DEF Record, TypeOK, OutboxInvariant, PublisherStored, AttemptsBounded, Stored, Outcome
    <3>3. AcceptedIsSent' /\ CopiesRetryable'
      BY <1>0, <1>1, <2>1, <2>2
         DEF Record, TypeOK, OutboxInvariant, AcceptedIsSent, CopiesRetryable
    <3> QED
      BY <3>1, <3>2, <3>3 DEF OutboxInvariant
  <2>3. CASE Fault /\ publisher' = [publisher EXCEPT ![e] = "unstored"] /\ UNCHANGED outbox
    BY <1>0, <1>f, <1>1, <2>3
       DEF Record, OutboxInvariant, TypeOK, PublisherStored, CopiesRetryable, AttemptsBounded,
           AcceptedIsSent, Stored, Outcome
  <2> QED
    BY <1>1, <2>2, <2>3 DEF Record, new
<1>2. ASSUME NEW e \in OrderEvents, Mark(e)
      PROVE  OutboxInvariant'
  <2> DEFINE old == [outbox[e] EXCEPT !.status = "pending", !.attempts = 0]
             new == Marked(old, publisher[e])
  <2>1. old \in Row /\ old.attempts = 0 /\ publisher[e] \in Outcome
    <3>1. outbox[e] \in Row /\ publisher[e] \in Outcome
      BY <1>0, <1>2 DEF Mark, OutboxInvariant, PublisherStored, Stored, TypeOK
    <3> QED
      BY <3>1 DEF Row
  <2>2. new \in Row /\ new.attempts = 1 /\ (new.status = "published" => publisher[e] = "accepted")
    <3> HIDE DEF old
    <3> QED
      BY <2>1, MarkedRow
  <2>3. publisher[e] = "accepted" => sent[e] > 0
    BY DEF OutboxInvariant, AcceptedIsSent
  <2>4. \/ outbox' = [outbox EXCEPT ![e] = new] /\ UNCHANGED faults
        \/ Fault /\ UNCHANGED outbox
    BY <1>2 DEF Mark
  <2> HIDE DEF new
  <2>5. TypeOK'
    BY <1>0, <1>f, <1>2, <2>2, <2>4 DEF Mark, TypeOK
  <2>6. PublisherStored' /\ AttemptsBounded'
    BY <1>0, <1>2, <2>2, <2>4, NoRowIsNoRow
       DEF Mark, TypeOK, OutboxInvariant, PublisherStored, AttemptsBounded, Stored, Outcome
  <2>7. AcceptedIsSent' /\ CopiesRetryable'
    BY <1>0, <1>2, <2>2, <2>3, <2>4
       DEF Mark, TypeOK, OutboxInvariant, AcceptedIsSent, CopiesRetryable
  <2> QED
    BY <2>5, <2>6, <2>7 DEF OutboxInvariant
<1>3. ASSUME NEW e \in Events, Send(e)
      PROVE  OutboxInvariant'
  <2>1. CASE channel = "none" /\ publisher' = [publisher EXCEPT ![e] = "done"]
             /\ UNCHANGED <<sent, channel>>
    BY <1>0, <1>3, <2>1
       DEF Send, OutboxInvariant, TypeOK, PublisherStored, CopiesRetryable, AttemptsBounded,
           AcceptedIsSent, Stored, Outcome
  <2>2. ASSUME NEW outcome \in Outcome, Write(e, outcome),
               publisher' = [publisher EXCEPT ![e] =
                                 IF publisher[e] = "stored" THEN outcome ELSE "done"]
        PROVE  OutboxInvariant'
    <3>1. OnlySends /\ (outcome = "accepted" => sent'[e] > 0)
      BY <1>0, <2>2, WriteSends DEF OnlySends
    <3>2. TypeOK'
      BY <1>0, <1>3, <2>2, <3>1 DEF Send, TypeOK, OnlySends
    <3>3. PublisherStored' /\ AttemptsBounded' /\ CopiesRetryable'
      BY <1>0, <1>3, <2>2
         DEF Send, TypeOK, OutboxInvariant, PublisherStored, AttemptsBounded, CopiesRetryable,
             Stored, Outcome
    <3>4. \A f \in Events : sent[f] \in Nat /\ sent'[f] \in Nat /\ sent'[f] >= sent[f]
      BY <1>0, <3>1 DEF TypeOK, OnlySends
    <3>5. retry.at = "mark" => retry.current.event \in Events
      BY <1>0 DEF RetryOK, CopiesRetryable, Copy
    <3>6. AcceptedIsSent'
      BY <1>0, <1>3, <2>2, <3>1, <3>4, <3>5
         DEF Send, TypeOK, OutboxInvariant, AcceptedIsSent
    <3> QED
      BY <3>2, <3>3, <3>6 DEF OutboxInvariant
  <2> QED
    BY <1>3, <2>1, <2>2 DEF Send
<1>4. CASE Tick \/ Connect \/ AssertExchanges
  <2>1. OnlySends
    BY <1>0, <1>4 DEF Tick, Connect, AssertExchanges, OnlySends, TypeOK
  <2>2. RetryOK'
    BY <1>0, <1>4
       DEF Tick, Connect, AssertExchanges, Idle, RetryOK, CopiesRetryable, Outcome
  <2>3. UNCHANGED <<outbox, publisher, broker, running, faults>>
    BY <1>4 DEF Tick, Connect, AssertExchanges
  <2> QED
    BY <1>0, <2>1, <2>2, <2>3, RetryStep DEF TypeOK
<1>5. CASE FindRows
  <2>1. CASE Proceed(Batch) /\ UNCHANGED faults
    BY <1>0, <1>5, <2>1, BatchRetryable, ProceedKeeps, RetryStep DEF FindRows, TypeOK
  <2>2. CASE Fault /\ retry' = Idle /\ UNCHANGED <<sent, channel>>
    <3>1. RetryOK'
      BY <2>2 DEF Idle, RetryOK, CopiesRetryable, Outcome
    <3> QED
      BY <1>5, <1>f, <1>k, <2>2, <3>1, RetryStep DEF FindRows
  <2> QED
    BY <1>5, <2>1, <2>2 DEF FindRows
<1>6. CASE RetryMark
  <2> DEFINE e == retry.current.event
             new == Marked(retry.current.row, retry.outcome)
  <2>1. /\ retry.current \in Copy
        /\ retry.current.row.attempts < MaxAttempts
        /\ e \in OrderEvents
        /\ retry.current.row \in Row
        /\ retry.outcome = "accepted" => sent[e] > 0
    BY <1>0, <1>6 DEF RetryMark, RetryOK, CopiesRetryable, Copy
  <2>2. /\ new \in Row
        /\ new.attempts <= MaxAttempts
        /\ new.status = "published" => sent[e] > 0
    <3>1. retry.current.row.attempts \in Nat
      BY <2>1 DEF Row
    <3> QED
      BY <1>0, <2>1, <3>1, MarkedRow DEF RetryOK
  <2>3. OnlySends /\ RetryOK'
    <3>1. retry.batch \in SUBSET {copy \in Copy : copy.row.attempts < MaxAttempts}
      BY <1>0 DEF RetryOK, CopiesRetryable
    <3> QED
      BY <1>0, <1>6, <3>1, ProceedKeeps DEF RetryMark
  <2>4. \/ outbox' = [outbox EXCEPT ![e] = new] /\ UNCHANGED faults
        \/ Fault /\ UNCHANGED outbox
    BY <1>6 DEF RetryMark
  <2>5. UNCHANGED <<publisher, broker, running>>
    BY <1>6 DEF RetryMark
  <2> HIDE DEF new, e
  <2>6. TypeOK'
    BY <1>0, <1>f, <2>1, <2>2, <2>3, <2>4, <2>5 DEF TypeOK, RetryOK, OnlySends
  <2>7. PublisherStored' /\ AttemptsBounded'
    BY <1>0, <2>1, <2>2, <2>4, <2>5, NoRowIsNoRow
       DEF TypeOK, OutboxInvariant, PublisherStored, AttemptsBounded, Stored
  <2>8. AcceptedIsSent'
    <3>1. \A f \in OrderEvents : sent[f] \in Nat /\ sent'[f] \in Nat /\ sent'[f] >= sent[f]
      BY <1>0, <2>3 DEF TypeOK, OnlySends
    <3> QED
      BY <1>0, <2>1, <2>2, <2>3, <2>4, <2>5, <3>1
         DEF TypeOK, OutboxInvariant, AcceptedIsSent, RetryOK
  <2> QED
    BY <2>3, <2>6, <2>7, <2>8 DEF OutboxInvariant, RetryOK
<1>7. CASE BrokerDown \/ BrokerUp \/ Start
  BY <1>0, <1>f, <1>7
     DEF BrokerDown, BrokerUp, Start, OutboxInvariant, TypeOK, PublisherStored, CopiesRetryable,
         AttemptsBounded, AcceptedIsSent, Stored
<1>8. CASE Stop
  BY <1>0, <1>f, <1>8
     DEF Stop, Idle, OutboxInvariant, TypeOK, PublisherStored, CopiesRetryable, AttemptsBounded,
         AcceptedIsSent, Stored, Outcome
<1>9. CASE UNCHANGED vars
  BY <1>9
     DEF vars, OutboxInvariant, TypeOK, PublisherStored, CopiesRetryable, AttemptsBounded,
         AcceptedIsSent, Stored
<1> QED
  BY <1>1, <1>2, <1>3, <1>4, <1>5, <1>6, <1>7, <1>8, <1>9 DEF Next

\* The strengthening that makes the invariants of EventOutbox inductive.
LEMMA InvariantHolds == Spec => []OutboxInvariant
BY InitInvariant, StepInvariant, PTL DEF Spec

-----------------------------------------------------------------------------

(***************************************************************************)
(* Type correctness: whatever fails in between, the table, the publishing  *)
(* calls and the retry pass of OrderEventsService keep their types.        *)
(***************************************************************************)
THEOREM TypeCorrect == Spec => []TypeOK
<1>1. OutboxInvariant => TypeOK
  BY DEF OutboxInvariant
<1> QED
  BY <1>1, InvariantHolds, PTL

(***************************************************************************)
(* No row ever counts more attempts than ORDER_EVENT_OUTBOX_MAX_ATTEMPTS,  *)
(* although publish and the retry pass write back copies of their own.     *)
(***************************************************************************)
THEOREM AttemptsSafe == Spec => []AttemptsBounded
<1>1. OutboxInvariant => AttemptsBounded
  BY DEF OutboxInvariant
<1> QED
  BY <1>1, InvariantHolds, PTL

-----------------------------------------------------------------------------

(***************************************************************************)
(* How often an event is written.  Each retry counts an attempt, but the   *)
(* publisher writes its own copy back, on which nothing was counted, and a *)
(* retry that read the row before does the same.  n is how often an event  *)
(* was written, p where its publisher is, a the attempts its row counts, k *)
(* those of a copy, r is 1 between a retry's write and its mark, f is the  *)
(* number of faults, each of which may lose one mark.                      *)
(***************************************************************************)

Within(p, n, a, r, f) ==
    /\ p \in {"new", "unstored"} => n = 0
    /\ p = "stored" => n <= a + r + f
    /\ p \in Outcome => n <= 1 + a + r + f
    /\ p = "done" => n <= MaxAttempts + a + r + f

\* A copy is behind its row only once the publisher has marked the row.
CopyWithin(p, k, n, a, r, f) ==
    /\ p \in {"stored"} \cup Outcome => k = a
    /\ a <= k \/ n <= 1 + k + r + f

Attempts(e) == IF Stored(e) THEN outbox[e].attempts ELSE 0

Marking(e) == IF retry.at = "mark" /\ retry.current.event = e THEN 1 ELSE 0

Held == retry.batch \cup (IF retry.at = "mark" THEN {retry.current} ELSE {})

CopyCounts(copy) ==
    /\ Stored(copy.event)
    /\ CopyWithin(publisher[copy.event], copy.row.attempts, sent[copy.event],
                  Attempts(copy.event), Marking(copy.event), faults)

CountInvariant ==
    /\ \A e \in OrderEvents :
          /\ publisher[e] \in {"new", "unstored"} => ~Stored(e)
          /\ Within(publisher[e], sent[e], Attempts(e), Marking(e), faults)
    /\ \A e \in PricingEvents :
          IF publisher[e] = "new" THEN sent[e] = 0 ELSE publisher[e] = "done" /\ sent[e] <= 1
    /\ \A copy \in Held : CopyCounts(copy)
    /\ \A copy, other \in Held : copy.event = other.event => copy = other
    /\ IF retry.at = "mark" THEN retry.current \notin retry.batch ELSE retry.batch = {}

\* What a step may do to these numbers: one line per action.
LEMMA Counting ==
    ASSUME NEW p, NEW n \in Nat, NEW a \in 0 .. MaxAttempts, NEW r \in {0, 1}, NEW f \in Nat,
           Within(p, n, a, r, f)
    PROVE  /\ r = 1 => Within(p, n, a, 0, f + 1)
           /\ Within(p, n, a, r, f + 1)
           /\ p \in Outcome => Within("done", n, a, r, f) /\ Within("done", n, 1, r, f)
           /\ p = "stored" => \A o \in Outcome : Within(o, n, a, r, f) /\ Within(o, n + 1, a, r, f)
           /\ p \in {"stored", "unstored", "done"} \cup Outcome => Within("done", n, a, 0, f + 1)
           /\ p \in {"stored", "unstored"} => Within("done", n + 1, a, r, f) /\ Within("done", n, a, r, f)
BY OutboxAssumption DEF Within, Outcome

LEMMA CopyCounting ==
    ASSUME NEW p, NEW n \in Nat, NEW a \in 0 .. MaxAttempts, NEW r \in {0, 1}, NEW f \in Nat,
           NEW k \in Nat, Within(p, n, a, r, f), CopyWithin(p, k, n, a, r, f),
           p \notin {"new", "unstored"}
    PROVE  /\ CopyWithin(p, k, n, a, r, f + 1)
           /\ p \in Outcome => CopyWithin("done", k, n, a, r, f) /\ CopyWithin("done", k, n, 1, r, f)
           /\ p = "stored" => \A o \in Outcome : /\ CopyWithin(o, k, n, a, r, f)
                                                /\ CopyWithin(o, k, n + 1, a, r, f)
           /\ r = 1 => Within(p, n, k + 1, 0, f)
BY OutboxAssumption DEF Within, CopyWithin, Outcome

\* A retry has written a copy, or has thrown.
LEMMA CopyWritten ==
    ASSUME NEW p, NEW n \in Nat, NEW m \in {n, n + 1}, NEW a \in 0 .. MaxAttempts, NEW f \in Nat,
           NEW k \in Nat, Within(p, n, a, 0, f), CopyWithin(p, k, n, a, 0, f),
           p \notin {"new", "unstored"}
    PROVE  Within(p, m, a, 1, f) /\ CopyWithin(p, k, m, a, 1, f)
BY OutboxAssumption DEF Within, CopyWithin, Outcome

\* What the numbers are, of events and of copies.
LEMMA Numbers ==
    ASSUME OutboxInvariant, CountInvariant
    PROVE  /\ faults \in Nat
           /\ \A e \in OrderEvents :
                 /\ e \in Events /\ sent[e] \in Nat
                 /\ Attempts(e) \in 0 .. MaxAttempts /\ Marking(e) \in {0, 1}
                 /\ publisher[e] \in {"new", "stored", "unstored", "done"} \cup Outcome
           /\ \A copy \in Held :
                 /\ copy \in Copy /\ copy.event \in OrderEvents /\ copy.row.attempts \in Nat
                 /\ publisher[copy.event] \notin {"new", "unstored"}
<1>1. ASSUME NEW e \in OrderEvents
      PROVE  /\ e \in Events /\ sent[e] \in Nat
             /\ Attempts(e) \in 0 .. MaxAttempts /\ Marking(e) \in {0, 1}
             /\ publisher[e] \in {"new", "stored", "unstored", "done"} \cup Outcome
  <2>1. e \in Events
    BY DEF Events
  <2>2. Stored(e) => outbox[e].attempts \in 0 .. MaxAttempts
    BY OutboxAssumption DEF OutboxInvariant, TypeOK, Row, Stored, AttemptsBounded
  <2> QED
    BY <2>1, <2>2, OutboxAssumption DEF OutboxInvariant, TypeOK, Attempts, Marking
<1>2. ASSUME NEW copy \in Held
      PROVE  /\ copy \in Copy /\ copy.event \in OrderEvents /\ copy.row.attempts \in Nat
             /\ publisher[copy.event] \notin {"new", "unstored"}
  <2>1. copy \in Copy
    BY DEF OutboxInvariant, TypeOK, CopiesRetryable, Held
  <2>2. copy.event \in OrderEvents /\ copy.row.attempts \in Nat
    BY <2>1 DEF Copy, Row
  <2>3. Stored(copy.event)
    BY DEF CountInvariant, CopyCounts
  <2> QED
    BY <2>1, <2>2, <2>3 DEF CountInvariant
<1> QED
  BY <1>1, <1>2 DEF OutboxInvariant, TypeOK

\* The pricing events' part of the invariant.
PricingOnce ==
    \A e \in PricingEvents :
        IF publisher[e] = "new" THEN sent[e] = 0 ELSE publisher[e] = "done" /\ sent[e] <= 1

\* The loop goes on after the mark of one copy, if any, is out of the way.
LEMMA ProceedCounts ==
    ASSUME TypeOK, faults' \in Nat, NEW batch \in SUBSET Copy, Proceed(batch), UNCHANGED publisher,
           PricingOnce,
           \A e \in OrderEvents :
              /\ publisher[e] \in {"new", "unstored"} => ~Stored(e)'
              /\ Attempts(e)' \in 0 .. MaxAttempts
              /\ Within(publisher[e], sent[e], Attempts(e)', 0, faults'),
           \A copy \in batch :
              /\ Stored(copy.event)'
              /\ CopyWithin(publisher[copy.event], copy.row.attempts, sent[copy.event],
                            Attempts(copy.event)', 0, faults'),
           \A copy, other \in batch : copy.event = other.event => copy = other
    PROVE  CountInvariant'
<1>0. \A e \in OrderEvents : sent[e] \in Nat /\ e \in Events
  BY DEF TypeOK, Events
<1>1. CASE retry' = Idle /\ UNCHANGED sent
  <2>1. Held' = {} /\ \A e \in OrderEvents : Marking(e)' = 0
    BY <1>1 DEF Held, Idle, Marking
  <2> QED
    BY <1>1, <2>1 DEF CountInvariant, Idle, PricingOnce
<1>2. ASSUME NEW copy \in batch, NEW outcome \in Outcome, Write(copy.event, outcome),
             retry' = [at |-> "mark", batch |-> batch \ {copy}, current |-> copy,
                       outcome |-> outcome]
      PROVE  CountInvariant'
  <2>1. Held' = batch /\ retry'.at = "mark" /\ retry'.current \notin retry'.batch
    BY <1>2 DEF Held
  <2>2. \A e \in OrderEvents : Marking(e)' = IF e = copy.event THEN 1 ELSE 0
    BY <1>2 DEF Marking
  <2>3. copy \in Copy /\ copy.event \in OrderEvents /\ copy.event \in Events
    BY DEF Copy, Events
  <2>4. /\ \A e \in Events \ {copy.event} : sent'[e] = sent[e]
        /\ sent'[copy.event] \in {sent[copy.event], sent[copy.event] + 1}
    BY <1>2, <2>3 DEF Write, TypeOK
  <2>5. ASSUME NEW e \in OrderEvents
        PROVE  /\ publisher'[e] \in {"new", "unstored"} => ~Stored(e)'
               /\ Within(publisher'[e], sent'[e], Attempts(e)', Marking(e)', faults')
               /\ \A other \in batch : other.event = e =>
                     CopyWithin(publisher'[e], other.row.attempts, sent'[e], Attempts(e)',
                                Marking(e)', faults')
    <3>1. CASE e # copy.event
      <4>1. Marking(e)' = 0 /\ sent'[e] = sent[e] /\ publisher'[e] = publisher[e]
        BY <1>0, <2>2, <2>4, <3>1
      <4>2. /\ publisher[e] \in {"new", "unstored"} => ~Stored(e)'
            /\ Within(publisher[e], sent[e], Attempts(e)', 0, faults')
            /\ \A other \in batch : other.event = e =>
                  CopyWithin(publisher[e], other.row.attempts, sent[e], Attempts(e)', 0, faults')
        OBVIOUS
      <4> HIDE DEF Attempts
      <4> QED
        BY <4>1, <4>2
    <3>2. CASE e = copy.event
      <4>1. Marking(e)' = 1 /\ sent'[e] \in {sent[e], sent[e] + 1} /\ publisher'[e] = publisher[e]
        BY <2>2, <2>4, <3>2
      <4>2. copy.row.attempts \in Nat
        BY <2>3 DEF Copy, Row
      <4>3. publisher[e] \notin {"new", "unstored"}
        BY <3>2
      <4>4. /\ Within(publisher[e], sent[e], Attempts(e)', 0, faults')
            /\ CopyWithin(publisher[e], copy.row.attempts, sent[e], Attempts(e)', 0, faults')
        BY <3>2
      <4>5. /\ Within(publisher[e], sent'[e], Attempts(e)', 1, faults')
            /\ CopyWithin(publisher[e], copy.row.attempts, sent'[e], Attempts(e)', 1, faults')
        <5>1. Attempts(e)' \in 0 .. MaxAttempts /\ sent[e] \in Nat
          BY <1>0
        <5> QED
          BY <4>1, <4>2, <4>3, <4>4, <5>1, CopyWritten
      <4>6. \A other \in batch : other.event = e => other = copy
        BY <3>2
      <4> QED
        BY <4>1, <4>3, <4>5, <4>6
    <3> QED
      BY <3>1, <3>2
  <2>6. \A other \in Held' : CopyCounts(other)'
    BY <2>1, <2>5 DEF CopyCounts, Copy
  <2>7. PricingOnce'
    <3>1. \A e \in PricingEvents : e \in Events /\ e # copy.event
      BY <2>3, OutboxAssumption DEF Events
    <3> QED
      BY <2>4, <3>1 DEF PricingOnce
  <2> QED
    BY <2>1, <2>5, <2>6, <2>7 DEF CountInvariant, PricingOnce
<1> QED
  BY <1>1, <1>2 DEF Proceed

LEMMA CountInit == Init => CountInvariant
BY OutboxAssumption
   DEF Init, CountInvariant, Within, Held, Stored, Outcome, Events, Attempts, Marking, NoRow

\* A step of the publisher of one event, which leaves the retry pass alone.
LEMMA PublisherCounts ==
    ASSUME OutboxInvariant, CountInvariant, UNCHANGED retry, faults' \in Nat, faults' >= faults,
           PricingOnce', NEW e \in OrderEvents,
           \A f \in OrderEvents \ {e} :
              /\ publisher'[f] = publisher[f] /\ sent'[f] = sent[f] /\ outbox'[f] = outbox[f],
           Stored(e) => Stored(e)',
           publisher'[e] \in {"new", "unstored"} => ~Stored(e)',
           Within(publisher'[e], sent'[e], Attempts(e)', Marking(e), faults'),
           \A copy \in Held : copy.event = e =>
              CopyWithin(publisher'[e], copy.row.attempts, sent'[e], Attempts(e)', Marking(e), faults')
    PROVE  CountInvariant'
<1>1. Held' = Held /\ \A f \in OrderEvents : Marking(f)' = Marking(f)
  BY DEF Held, Marking
<1>2. ASSUME NEW f \in OrderEvents \ {e}
      PROVE  /\ Stored(f)' = Stored(f) /\ Attempts(f)' = Attempts(f)
             /\ Within(publisher'[f], sent'[f], Attempts(f)', Marking(f)', faults')
             /\ \A copy \in Held : copy.event = f =>
                   CopyWithin(publisher'[f], copy.row.attempts, sent'[f], Attempts(f)',
                              Marking(f)', faults')
  <2>1. /\ sent'[f] = sent[f] /\ publisher'[f] = publisher[f] /\ Marking(f)' = Marking(f)
        /\ Stored(f)' = Stored(f) /\ Attempts(f)' = Attempts(f)
    BY <1>1 DEF Stored, Attempts
  <2>2. /\ faults \in Nat /\ sent[f] \in Nat /\ Attempts(f) \in 0 .. MaxAttempts
        /\ Marking(f) \in {0, 1}
        /\ \A copy \in Held : copy.row.attempts \in Nat
    BY Numbers
  <2>3. Within(publisher[f], sent[f], Attempts(f), Marking(f), faults)
    BY DEF CountInvariant
  <2>4. Within(publisher[f], sent[f], Attempts(f), Marking(f), faults')
    BY <2>2, <2>3, OutboxAssumption DEF Within
  <2>5. ASSUME NEW copy \in Held, copy.event = f
        PROVE  CopyWithin(publisher[f], copy.row.attempts, sent[f], Attempts(f), Marking(f), faults')
    <3>1. CopyWithin(publisher[f], copy.row.attempts, sent[f], Attempts(f), Marking(f), faults)
      BY <2>5 DEF CountInvariant, CopyCounts
    <3>2. copy.row.attempts \in Nat
      BY <2>2
    <3> QED
      BY <2>2, <3>1, <3>2 DEF CopyWithin
  <2> QED
    BY <2>1, <2>4, <2>5
<1>3. \A copy \in Held : copy.event \in OrderEvents /\ Stored(copy.event)
  BY Numbers DEF CountInvariant, CopyCounts
<1>4. \A copy \in Held : CopyCounts(copy)'
  <2> SUFFICES ASSUME NEW copy \in Held
               PROVE  CopyCounts(copy)'
    OBVIOUS
  <2>1. CASE copy.event = e
    BY <1>1, <1>3, <2>1 DEF CopyCounts
  <2>2. CASE copy.event # e
    BY <1>2, <1>3, <2>2 DEF CopyCounts
  <2> QED
    BY <2>1, <2>2
<1>5. \A f \in OrderEvents :
         /\ publisher'[f] \in {"new", "unstored"} => ~Stored(f)'
         /\ Within(publisher'[f], sent'[f], Attempts(f)', Marking(f)', faults')
  BY <1>1, <1>2 DEF CountInvariant
<1> QED
  BY <1>1, <1>4, <1>5 DEF CountInvariant, PricingOnce

LEMMA RecordCounts ==
    ASSUME OutboxInvariant, CountInvariant, NEW e \in OrderEvents, Record(e)
    PROVE  CountInvariant'
<1>1. /\ ~Stored(e) /\ Attempts(e) = 0 /\ sent[e] = 0 /\ publisher[e] = "new"
      /\ \A copy \in Held : copy.event # e
  BY Numbers DEF CountInvariant, Record, Attempts, Within, CopyCounts
<1>2. /\ faults \in Nat /\ faults' \in Nat /\ faults' >= faults
      /\ UNCHANGED <<retry, sent>> /\ sent'[e] = 0
  BY <1>1, Numbers DEF Record, Fault
<1>3. /\ publisher'[e] \in {"stored", "unstored"}
      /\ \A f \in Events \ {e} : publisher'[f] = publisher[f]
      /\ \A f \in OrderEvents \ {e} : outbox'[f] = outbox[f]
      /\ publisher'[e] = "unstored" => ~Stored(e)'
      /\ Attempts(e)' = 0
  <2>1. e \in Events /\ TypeOK
    BY DEF Events, OutboxInvariant
  <2> QED
    BY <1>1, <2>1 DEF Record, TypeOK, Stored, Attempts, NoRow
<1>4. PricingOnce'
  <2>1. \A f \in PricingEvents : f \in Events /\ f # e
    BY OutboxAssumption DEF Events
  <2> QED
    BY <1>2, <1>3, <2>1 DEF CountInvariant, PricingOnce
<1>5. Within(publisher'[e], sent'[e], Attempts(e)', Marking(e), faults')
  BY <1>2, <1>3, Numbers DEF Within, Outcome
<1> QED
  <2>1. \A f \in OrderEvents \ {e} : f \in Events
    BY DEF Events
  <2> QED
    BY <1>1, <1>2, <1>3, <1>4, <1>5, <2>1, PublisherCounts

LEMMA MarkCounts ==
    ASSUME OutboxInvariant, CountInvariant, NEW e \in OrderEvents, Mark(e)
    PROVE  CountInvariant'
<1>1. /\ publisher[e] \in Outcome
      /\ Within(publisher[e], sent[e], Attempts(e), Marking(e), faults)
      /\ \A copy \in Held : copy.event = e =>
            CopyWithin(publisher[e], copy.row.attempts, sent[e], Attempts(e), Marking(e), faults)
  BY DEF Mark, CountInvariant, CopyCounts
<1>2. /\ Stored(e) /\ outbox[e] \in Row /\ e \in Events /\ TypeOK
  BY <1>1 DEF Events, OutboxInvariant, PublisherStored, Stored, TypeOK
<1>3. /\ faults \in Nat /\ faults' \in Nat
      /\ UNCHANGED <<retry, sent>>
      /\ publisher'[e] = "done" /\ \A f \in Events \ {e} : publisher'[f] = publisher[f]
      /\ \A f \in OrderEvents \ {e} : outbox'[f] = outbox[f]
  BY <1>2, Numbers DEF Mark, Fault, TypeOK
<1>4. \/ outbox'[e].attempts = 1 /\ outbox'[e] # NoRow /\ faults' = faults
      \/ outbox'[e] = outbox[e] /\ faults' = faults + 1
  <2>1. CASE Fault /\ UNCHANGED outbox
    BY <2>1 DEF Fault
  <2>2. CASE /\ outbox' = [outbox EXCEPT ![e] =
                  Marked([@ EXCEPT !.status = "pending", !.attempts = 0], publisher[e])]
             /\ UNCHANGED faults
    <3> DEFINE old == [outbox[e] EXCEPT !.status = "pending", !.attempts = 0]
    <3>1. old \in Row /\ old.attempts = 0
      BY <1>2 DEF Row
    <3>2. outbox'[e] = Marked(old, publisher[e])
      BY <1>2, <2>2 DEF TypeOK
    <3> HIDE DEF old
    <3> QED
      BY <1>1, <2>2, <3>1, <3>2, MarkedRow, NoRowIsNoRow
  <2> QED
    BY <2>1, <2>2 DEF Mark
<1>5. /\ Stored(e)'
      /\ \/ Attempts(e)' = 1 /\ faults' = faults
         \/ Attempts(e)' = Attempts(e) /\ faults' = faults + 1
  <2>1. Stored(e)' /\ Attempts(e)' = outbox'[e].attempts /\ Attempts(e) = outbox[e].attempts
    BY <1>2, <1>4 DEF Stored, Attempts
  <2> QED
    BY <1>4, <2>1
<1>6. PricingOnce'
  <2>1. \A f \in PricingEvents : f \in Events /\ f # e
    BY OutboxAssumption DEF Events
  <2> QED
    BY <1>3, <2>1 DEF CountInvariant, PricingOnce
<1>7. /\ Within("done", sent[e], Attempts(e)', Marking(e), faults')
      /\ \A copy \in Held : copy.event = e =>
            CopyWithin("done", copy.row.attempts, sent[e], Attempts(e)', Marking(e), faults')
  <2>1. /\ sent[e] \in Nat /\ Attempts(e) \in 0 .. MaxAttempts /\ Marking(e) \in {0, 1}
        /\ \A copy \in Held : copy.row.attempts \in Nat
    BY Numbers
  <2> HIDE DEF Attempts, Marking
  <2> DEFINE a == Attempts(e)
             b == Attempts(e)'
  <2>2. \/ b = 1 /\ faults' = faults
        \/ b = a /\ faults' = faults + 1
    BY <1>5
  <2>3. a \in 0 .. MaxAttempts /\ Within(publisher[e], sent[e], a, Marking(e), faults)
    BY <1>1, <2>1
  <2>4. \A copy \in Held : copy.event = e =>
            CopyWithin(publisher[e], copy.row.attempts, sent[e], a, Marking(e), faults)
    BY <1>1
  <2> HIDE DEF a, b
  <2>5. Within("done", sent[e], b, Marking(e), faults')
    BY <1>1, <1>3, <2>1, <2>2, <2>3, OutboxAssumption DEF Within, Outcome
  <2>6. ASSUME NEW copy \in Held, copy.event = e
        PROVE  CopyWithin("done", copy.row.attempts, sent[e], b, Marking(e), faults')
    <3>1. CopyWithin(publisher[e], copy.row.attempts, sent[e], a, Marking(e), faults)
      BY <2>4, <2>6
    <3>2. copy.row.attempts \in Nat
      BY <2>1
    <3> QED
      BY <1>1, <1>3, <2>1, <2>2, <2>3, <3>1, <3>2, OutboxAssumption DEF Within, CopyWithin, Outcome
  <2> QED
    BY <2>5, <2>6 DEF b
<1> QED
  <2>1. \A f \in OrderEvents \ {e} : f \in Events
    BY DEF Events
  <2>2. faults' >= faults /\ sent'[e] = sent[e]
    BY <1>3, <1>5
  <2> QED
    BY <1>3, <1>5, <1>6, <1>7, <2>1, <2>2, PublisherCounts

LEMMA SendCounts ==
    ASSUME OutboxInvariant, CountInvariant, NEW e \in Events, Send(e)
    PROVE  CountInvariant'
<1>1. TypeOK /\ UNCHANGED <<outbox, retry, faults>> /\ faults \in Nat
  BY Numbers DEF OutboxInvariant, Send
<1>2. /\ sent[e] \in Nat /\ sent'[e] \in {sent[e], sent[e] + 1}
      /\ \A f \in Events \ {e} : sent'[f] = sent[f]
  BY <1>1 DEF Send, Write, TypeOK
<1>3. /\ \A f \in Events \ {e} : publisher'[f] = publisher[f]
      /\ publisher'[e] \in IF publisher[e] = "stored" THEN Outcome \cup {"done"} ELSE {"done"}
      /\ publisher[e] = "stored" /\ publisher'[e] = "done" => sent'[e] = sent[e]
  BY <1>1 DEF Send, TypeOK, Outcome
<1>4. PricingOnce'
  <2> SUFFICES ASSUME NEW f \in PricingEvents
               PROVE  IF publisher'[f] = "new" THEN sent'[f] = 0
                      ELSE publisher'[f] = "done" /\ sent'[f] <= 1
    BY DEF PricingOnce
  <2>1. f \in Events /\ (IF publisher[f] = "new" THEN sent[f] = 0
                         ELSE publisher[f] = "done" /\ sent[f] <= 1)
    BY DEF Events, CountInvariant
  <2>2. CASE f # e
    BY <1>2, <1>3, <2>1, <2>2
  <2>3. CASE f = e
    <3>1. publisher[e] = "new"
      BY <2>1, <2>3 DEF Send, ReadyToSend
    <3> QED
      BY <1>2, <1>3, <2>1, <2>3, <3>1
  <2> QED
    BY <2>2, <2>3
<1>5. CASE e \in OrderEvents
  <2>1. /\ publisher[e] \in {"stored", "unstored"}
        /\ Within(publisher[e], sent[e], Attempts(e), Marking(e), faults)
    BY <1>5, OutboxAssumption DEF Send, ReadyToSend, CountInvariant
  <2>2. /\ Attempts(e) \in 0 .. MaxAttempts /\ Marking(e) \in {0, 1}
        /\ Stored(e)' = Stored(e) /\ Attempts(e)' = Attempts(e)
    BY <1>1, <1>5, Numbers DEF Stored, Attempts
  <2> HIDE DEF Attempts, Marking, Stored
  <2>3. Within(publisher'[e], sent'[e], Attempts(e), Marking(e), faults)
    BY <1>1, <1>2, <1>3, <2>1, <2>2, Counting DEF Outcome
  <2>4. ASSUME NEW copy \in Held, copy.event = e
        PROVE  CopyWithin(publisher'[e], copy.row.attempts, sent'[e], Attempts(e), Marking(e), faults)
    <3>1. /\ copy.row.attempts \in Nat /\ publisher[e] = "stored"
          /\ CopyWithin(publisher[e], copy.row.attempts, sent[e], Attempts(e), Marking(e), faults)
      BY <2>1, <2>4, Numbers DEF CountInvariant, CopyCounts
    <3> QED
      BY <1>1, <1>2, <1>3, <2>2, <3>1 DEF CopyWithin, Outcome
  <2>5. publisher'[e] \notin {"new", "unstored"}
    BY <1>3 DEF Outcome
  <2>6. \A f \in OrderEvents \ {e} :
           publisher'[f] = publisher[f] /\ sent'[f] = sent[f] /\ outbox'[f] = outbox[f]
    BY <1>1, <1>2, <1>3 DEF Events
  <2> QED
    BY <1>1, <1>4, <1>5, <2>2, <2>3, <2>4, <2>5, <2>6, PublisherCounts
<1>6. CASE e \notin OrderEvents
  <2>1. \A f \in OrderEvents :
           /\ publisher'[f] = publisher[f] /\ sent'[f] = sent[f]
           /\ Stored(f)' = Stored(f) /\ Attempts(f)' = Attempts(f) /\ Marking(f)' = Marking(f)
    BY <1>1, <1>2, <1>3, <1>6 DEF Events, Stored, Attempts, Marking
  <2>2. Held' = Held /\ \A copy \in Held : copy.event \in OrderEvents
    BY <1>1, Numbers DEF Held
  <2> HIDE DEF Attempts, Marking, Stored
  <2> QED
    BY <1>1, <1>4, <2>1, <2>2 DEF CountInvariant, CopyCounts, PricingOnce
<1> QED
  BY <1>5, <1>6

\* A batch is made of one copy each of rows as they are.
LEMMA BatchIsRead ==
    ASSUME NEW copy \in Batch
    PROVE  /\ copy.event \in OrderEvents /\ copy.row = outbox[copy.event] /\ Stored(copy.event)
           /\ copy = [event |-> copy.event, row |-> outbox[copy.event]]
<1>1. PICK e \in {f \in OrderEvents : Retryable(f)} : copy = [event |-> e, row |-> outbox[e]]
  BY DEF Batch
<1>2. Stored(e)
  BY <1>1 DEF Retryable
<1> QED
  BY <1>1, <1>2

LEMMA FindCounts ==
    ASSUME OutboxInvariant, CountInvariant, FindRows
    PROVE  CountInvariant'
<1>1. /\ TypeOK /\ UNCHANGED <<outbox, publisher>> /\ retry.at = "find" /\ faults' \in Nat
      /\ faults' >= faults
  BY Numbers DEF OutboxInvariant, FindRows, Fault
<1>2. \A e \in OrderEvents :
         /\ Stored(e)' = Stored(e) /\ Attempts(e)' = Attempts(e) /\ Marking(e) = 0
         /\ publisher[e] \in {"new", "unstored"} => ~Stored(e)'
         /\ Attempts(e)' \in 0 .. MaxAttempts
         /\ Within(publisher[e], sent[e], Attempts(e)', 0, faults)
  <2>1. \A e \in OrderEvents : Stored(e)' = Stored(e) /\ Attempts(e)' = Attempts(e) /\ Marking(e) = 0
    BY <1>1 DEF Stored, Attempts, Marking
  <2> HIDE DEF Stored, Attempts
  <2> QED
    BY <2>1, Numbers DEF CountInvariant
<1>3. PricingOnce
  BY DEF CountInvariant, PricingOnce
<1>4. CASE Proceed(Batch) /\ UNCHANGED faults
  <2>1. Batch \in SUBSET Copy
    BY <1>1, BatchRetryable
  <2>2. ASSUME NEW copy \in Batch
        PROVE  /\ Stored(copy.event)'
               /\ CopyWithin(publisher[copy.event], copy.row.attempts, sent[copy.event],
                             Attempts(copy.event)', 0, faults')
    <3>1. copy.event \in OrderEvents /\ copy.row = outbox[copy.event] /\ Stored(copy.event)
      BY BatchIsRead
    <3>2. copy.row.attempts = Attempts(copy.event) /\ Attempts(copy.event) \in Nat
      BY <1>2, <3>1 DEF Attempts
    <3> HIDE DEF Attempts, Stored
    <3> QED
      BY <1>2, <3>1, <3>2 DEF CopyWithin
  <2>3. \A copy, other \in Batch : copy.event = other.event => copy = other
    BY BatchIsRead
  <2> HIDE DEF Attempts, Stored
  <2>4. \A e \in OrderEvents : /\ publisher[e] \in {"new", "unstored"} => ~Stored(e)'
                               /\ Attempts(e)' \in 0 .. MaxAttempts
                               /\ Within(publisher[e], sent[e], Attempts(e)', 0, faults')
    BY <1>2, <1>4
  <2> QED
    BY <1>1, <1>3, <1>4, <2>1, <2>2, <2>3, <2>4, ProceedCounts
<1>5. CASE Fault /\ retry' = Idle /\ UNCHANGED <<sent, channel>>
  <2>1. Held' = {} /\ \A e \in OrderEvents : Marking(e)' = 0
    BY <1>5 DEF Held, Idle, Marking
  <2>2. \A e \in OrderEvents : Within(publisher[e], sent[e], Attempts(e)', 0, faults')
    <3> SUFFICES ASSUME NEW e \in OrderEvents
                 PROVE  Within(publisher[e], sent[e], Attempts(e)', 0, faults')
      OBVIOUS
    <3> DEFINE a == Attempts(e)'
    <3>1. faults \in Nat /\ sent[e] \in Nat
      BY Numbers
    <3>2. a \in 0 .. MaxAttempts /\ Within(publisher[e], sent[e], a, 0, faults)
      BY <1>2
    <3> HIDE DEF a
    <3>3. Within(publisher[e], sent[e], a, 0, faults')
      BY <1>1, <3>1, <3>2, OutboxAssumption DEF Within
    <3> QED
      BY <3>3 DEF a
  <2> QED
    BY <1>1, <1>2, <1>3, <1>5, <2>1, <2>2 DEF CountInvariant, PricingOnce, Idle
<1> QED
  BY <1>4, <1>5 DEF FindRows

LEMMA RetryMarkCounts ==
    ASSUME OutboxInvariant, CountInvariant, RetryMark
    PROVE  CountInvariant'
<1>0. PICK c : c = retry.current
  OBVIOUS
<1> DEFINE row == Marked(c.row, retry.outcome)
<1>1. /\ TypeOK /\ UNCHANGED publisher /\ retry.at = "mark"
      /\ c \in Copy /\ c.event \in OrderEvents /\ c.row \in Row /\ c.row.attempts < MaxAttempts
      /\ retry.batch \in SUBSET Copy /\ retry.outcome \in Outcome
      /\ Proceed(retry.batch) /\ PricingOnce
  BY <1>0 DEF OutboxInvariant, RetryMark, TypeOK, CopiesRetryable, Copy, CountInvariant, PricingOnce
<1>2. \/ outbox' = [outbox EXCEPT ![c.event] = row] /\ faults' = faults
      \/ outbox' = outbox /\ faults' = faults + 1
  BY <1>0 DEF RetryMark, Fault
<1>3. row \in Row /\ row.attempts = c.row.attempts + 1 /\ row # NoRow /\ c.row.attempts \in Nat
  BY <1>1, MarkedRow, NoRowIsNoRow DEF Row
<1> HIDE DEF row
<1>4. /\ faults \in Nat /\ faults' \in Nat /\ faults' >= faults
      /\ \A e \in OrderEvents : sent[e] \in Nat /\ Attempts(e) \in 0 .. MaxAttempts
  BY <1>2, Numbers
<1>5. c \in Held /\ \A copy \in retry.batch : copy \in Held /\ copy.event # c.event
  BY <1>0, <1>1 DEF Held, CountInvariant
<1>6. ASSUME NEW e \in OrderEvents, e # c.event
      PROVE  Stored(e)' = Stored(e) /\ Attempts(e)' = Attempts(e) /\ Marking(e) = 0
  <2>1. outbox'[e] = outbox[e]
    BY <1>1, <1>2, <1>6 DEF TypeOK
  <2> QED
    BY <1>0, <1>6, <2>1 DEF Stored, Attempts, Marking
<1>7. /\ Stored(c.event) /\ Stored(c.event)' /\ Marking(c.event) = 1
      /\ \/ Attempts(c.event)' = c.row.attempts + 1 /\ faults' = faults
         \/ Attempts(c.event)' = Attempts(c.event) /\ faults' = faults + 1
  <2>1. Stored(c.event) /\ Marking(c.event) = 1
    BY <1>0, <1>1, <1>5 DEF CountInvariant, CopyCounts, Marking
  <2>2. CASE outbox' = [outbox EXCEPT ![c.event] = row] /\ faults' = faults
    <3>1. outbox'[c.event] = row
      BY <1>1, <2>2 DEF TypeOK
    <3> QED
      BY <1>3, <2>1, <2>2, <3>1 DEF Stored, Attempts
  <2>3. CASE outbox' = outbox /\ faults' = faults + 1
    BY <2>1, <2>3 DEF Stored, Attempts
  <2> QED
    BY <1>2, <2>1, <2>2, <2>3
<1>8. ASSUME NEW e \in OrderEvents
      PROVE  /\ publisher[e] \in {"new", "unstored"} => ~Stored(e)'
             /\ Attempts(e)' \in 0 .. MaxAttempts
             /\ Within(publisher[e], sent[e], Attempts(e)', 0, faults')
  <2>1. /\ publisher[e] \in {"new", "unstored"} => ~Stored(e)
        /\ Within(publisher[e], sent[e], Attempts(e), Marking(e), faults)
    BY DEF CountInvariant
  <2>2. sent[e] \in Nat /\ Attempts(e) \in 0 .. MaxAttempts
    BY <1>4
  <2>3. CASE e # c.event
    <3> DEFINE a == Attempts(e)
    <3>1. Within(publisher[e], sent[e], a, 0, faults) /\ a \in 0 .. MaxAttempts
      BY <1>6, <2>1, <2>2, <2>3
    <3> HIDE DEF a
    <3>2. Within(publisher[e], sent[e], a, 0, faults')
      BY <1>4, <2>2, <3>1, OutboxAssumption DEF Within
    <3> QED
      BY <1>6, <2>1, <2>3, <3>1, <3>2 DEF a
  <2>4. CASE e = c.event
    <3> DEFINE a == Attempts(e)
               b == Attempts(e)'
    <3>1. /\ Within(publisher[e], sent[e], a, 1, faults) /\ a \in 0 .. MaxAttempts
          /\ \/ b = c.row.attempts + 1 /\ faults' = faults
             \/ b = a /\ faults' = faults + 1
      BY <1>7, <2>1, <2>2, <2>4
    <3>2. CopyWithin(publisher[e], c.row.attempts, sent[e], a, 1, faults)
      BY <1>5, <1>7, <2>4 DEF CountInvariant, CopyCounts
    <3>3. publisher[e] \notin {"new", "unstored"}
      BY <1>7, <2>1, <2>4
    <3> HIDE DEF a, b
    <3>4. CASE b = c.row.attempts + 1 /\ faults' = faults
      <4>1. Within(publisher[e], sent[e], c.row.attempts + 1, 0, faults)
        BY <1>3, <1>4, <2>2, <3>1, <3>2, <3>3, CopyCounting
      <4>2. c.row.attempts + 1 \in 0 .. MaxAttempts
        BY <1>1, <1>3, OutboxAssumption
      <4> QED
        BY <3>3, <3>4, <4>1, <4>2 DEF b
    <3>5. CASE b = a /\ faults' = faults + 1
      <4>1. Within(publisher[e], sent[e], a, 0, faults + 1)
        BY <1>4, <2>2, <3>1, OutboxAssumption DEF Within
      <4> QED
        BY <3>1, <3>3, <3>5, <4>1 DEF b
    <3> QED
      BY <3>1, <3>4, <3>5
  <2> QED
    BY <2>3, <2>4
<1>9. ASSUME NEW copy \in retry.batch
      PROVE  /\ Stored(copy.event)'
             /\ CopyWithin(publisher[copy.event], copy.row.attempts, sent[copy.event],
                           Attempts(copy.event)', 0, faults')
  <2>1. /\ copy.event \in OrderEvents /\ copy.event # c.event /\ Stored(copy.event)
        /\ copy.row.attempts \in Nat
        /\ CopyWithin(publisher[copy.event], copy.row.attempts, sent[copy.event],
                      Attempts(copy.event), Marking(copy.event), faults)
    BY <1>5, Numbers DEF CountInvariant, CopyCounts
  <2> DEFINE a == Attempts(copy.event)
  <2>2. /\ a \in 0 .. MaxAttempts /\ a = Attempts(copy.event)' /\ Stored(copy.event)'
        /\ CopyWithin(publisher[copy.event], copy.row.attempts, sent[copy.event], a, 0, faults)
    BY <1>4, <1>6, <2>1
  <2> HIDE DEF a
  <2>3. CopyWithin(publisher[copy.event], copy.row.attempts, sent[copy.event], a, 0, faults')
    BY <1>4, <2>1, <2>2 DEF CopyWithin
  <2> QED
    BY <2>2, <2>3
<1>10. \A copy, other \in retry.batch : copy.event = other.event => copy = other
  BY <1>5 DEF CountInvariant
<1> HIDE DEF Attempts, Stored
<1> QED
  BY <1>1, <1>4, <1>8, <1>9, <1>10, ProceedCounts

LEMMA CountStep ==
    OutboxInvariant /\ CountInvariant /\ [Next]_vars => CountInvariant'
<1> SUFFICES ASSUME OutboxInvariant, CountInvariant, [Next]_vars
             PROVE  CountInvariant'
  OBVIOUS
<1>1. CASE \E e \in OrderEvents : Record(e) \/ Mark(e)
  BY <1>1, RecordCounts, MarkCounts
<1>2. CASE \E e \in Events : Send(e)
  BY <1>2, SendCounts
<1>3. CASE FindRows
  BY <1>3, FindCounts
<1>4. CASE RetryMark
  BY <1>4, RetryMarkCounts
<1>5. CASE Tick \/ Connect \/ AssertExchanges
  <2>1. /\ UNCHANGED <<outbox, sent, publisher, faults>>
        /\ retry.at # "mark" /\ retry'.at # "mark" /\ retry.batch = {} /\ retry'.batch = {}
    <3>1. retry.at # "mark" /\ retry.batch = {}
      BY <1>5 DEF Tick, Connect, AssertExchanges, CountInvariant
    <3>2. retry = [at |-> retry.at, batch |-> retry.batch, current |-> retry.current,
                   outcome |-> retry.outcome]
      BY DEF OutboxInvariant, TypeOK
    <3> QED
      BY <1>5, <3>1, <3>2 DEF Tick, Connect, AssertExchanges, Idle
  <2>2. /\ Held' = {} /\ \A e \in OrderEvents :
              /\ Marking(e)' = 0 /\ Marking(e) = 0 /\ Attempts(e)' = Attempts(e)
              /\ Stored(e)' = Stored(e)
    BY <2>1 DEF Held, Marking, Attempts, Stored
  <2> HIDE DEF Held, Attempts, Stored, Marking
  <2> QED
    BY <2>1, <2>2 DEF CountInvariant
<1>6. CASE BrokerUp \/ Start \/ UNCHANGED vars
  <2>1. UNCHANGED <<outbox, sent, publisher, retry, faults>>
    BY <1>6 DEF BrokerUp, Start, vars
  <2> QED
    BY <2>1 DEF CountInvariant, CopyCounts, Held, Attempts, Marking, Stored
<1>7. CASE BrokerDown \/ Stop
  <2>1. /\ UNCHANGED <<outbox, sent>> /\ faults' = faults + 1 /\ faults \in Nat
        /\ \A e \in OrderEvents : /\ e \in Events /\ sent[e] \in Nat
                                  /\ Attempts(e) \in 0 .. MaxAttempts /\ Marking(e) \in {0, 1}
                                  /\ publisher[e] \in {"new", "stored", "unstored", "done"} \cup Outcome
    BY <1>7, Numbers DEF BrokerDown, Stop, Fault
  <2>2. \A e \in OrderEvents : Stored(e)' = Stored(e) /\ Attempts(e)' = Attempts(e)
    BY <2>1 DEF Stored, Attempts
  <2>3. CASE BrokerDown
    <3>1. UNCHANGED <<publisher, retry>> /\ Held' = Held
      BY <2>3 DEF BrokerDown, Held
    <3>2. \A e \in OrderEvents : Marking(e)' = Marking(e)
      BY <3>1 DEF Marking
    <3> HIDE DEF Attempts, Marking, Stored
    <3>3. \A e \in OrderEvents :
             /\ publisher'[e] \in {"new", "unstored"} => ~Stored(e)'
             /\ Within(publisher'[e], sent'[e], Attempts(e)', Marking(e)', faults')
      BY <2>1, <2>2, <3>1, <3>2, Counting DEF CountInvariant
    <3>4. \A copy \in Held : CopyCounts(copy)'
      <4> SUFFICES ASSUME NEW copy \in Held
                   PROVE  CopyCounts(copy)'
        OBVIOUS
      <4>1. copy.event \in OrderEvents /\ copy.row.attempts \in Nat /\ CopyCounts(copy)
        BY Numbers DEF CountInvariant
      <4>2. CopyWithin(publisher[copy.event], copy.row.attempts, sent[copy.event],
                       Attempts(copy.event), Marking(copy.event), faults + 1)
        BY <2>1, <4>1 DEF CopyCounts, CopyWithin
      <4> QED
        BY <2>1, <2>2, <3>1, <3>2, <4>1, <4>2 DEF CopyCounts
    <3> QED
      BY <2>1, <3>1, <3>3, <3>4 DEF CountInvariant
  <2>4. CASE Stop
    <3>1. /\ retry' = Idle
          /\ \A e \in Events : publisher'[e] = IF publisher[e] = "new" THEN "new" ELSE "done"
      BY <2>4 DEF Stop
    <3>2. Held' = {} /\ \A e \in OrderEvents : Marking(e)' = 0
      BY <3>1 DEF Held, Idle, Marking
    <3> HIDE DEF Attempts, Marking, Stored
    <3>3. ASSUME NEW e \in OrderEvents
          PROVE  /\ publisher'[e] \in {"new", "unstored"} => ~Stored(e)'
                 /\ Within(publisher'[e], sent'[e], Attempts(e)', Marking(e)', faults')
      <4>1. /\ publisher[e] \in {"new", "unstored"} => ~Stored(e)
            /\ Within(publisher[e], sent[e], Attempts(e), Marking(e), faults)
        BY DEF CountInvariant
      <4>2. CASE publisher[e] = "new"
        BY <2>1, <2>2, <3>1, <3>2, <4>1, <4>2 DEF Within, Outcome
      <4>3. CASE publisher[e] # "new"
        <5>1. Within("done", sent[e], Attempts(e), 0, faults + 1)
          BY <2>1, <4>1, <4>3, Counting
        <5> QED
          BY <2>1, <2>2, <3>1, <3>2, <4>3, <5>1
      <4> QED
        BY <4>2, <4>3
    <3>4. PricingOnce'
      BY <2>1, <3>1 DEF CountInvariant, PricingOnce, Events
    <3> QED
      BY <3>1, <3>2, <3>3, <3>4 DEF CountInvariant, PricingOnce, Idle
  <2> QED
    BY <1>7, <2>3, <2>4
<1> QED
  BY <1>1, <1>2, <1>3, <1>4, <1>5, <1>6, <1>7 DEF Next

(***************************************************************************)
(* Although publish and the retry pass send and write back copies of one   *)
(* row unaware of each other, an order event reaches the channel at most   *)
(* twice as often as attempts are allowed, and once more for each fault;   *)
(* a pricing event, which has no row, reaches it once at most.             *)
(***************************************************************************)
THEOREM DuplicatesFew == Spec => []DuplicatesBounded
<1>1. ASSUME OutboxInvariant, CountInvariant
      PROVE  DuplicatesBounded
  <2>1. ASSUME NEW e \in OrderEvents
        PROVE  sent[e] <= 2 * MaxAttempts + faults
    <3>1. /\ faults \in Nat /\ sent[e] \in Nat /\ Attempts(e) \in 0 .. MaxAttempts
          /\ Marking(e) \in {0, 1}
          /\ publisher[e] \in {"new", "stored", "unstored", "done"} \cup Outcome
      BY <1>1, Numbers
    <3>2. Within(publisher[e], sent[e], Attempts(e), Marking(e), faults)
      BY <1>1 DEF CountInvariant
    <3> DEFINE a == Attempts(e)
    <3>3. CASE Marking(e) = 0
      <4>1. a \in 0 .. MaxAttempts /\ Within(publisher[e], sent[e], a, 0, faults)
        BY <3>1, <3>2, <3>3
      <4> HIDE DEF a
      <4> QED
        BY <3>1, <4>1, OutboxAssumption DEF Within, Outcome
    <3>4. CASE Marking(e) = 1
      <4>1. retry.at = "mark" /\ retry.current.event = e
        BY <3>4 DEF Marking
      <4>2. /\ retry.current \in Held /\ retry.current.row.attempts < MaxAttempts
            /\ retry.current.row.attempts \in Nat
        BY <1>1, <4>1, Numbers DEF OutboxInvariant, CopiesRetryable, Held
      <4> DEFINE k == retry.current.row.attempts
      <4>3. CopyWithin(publisher[e], k, sent[e], a, 1, faults)
        BY <1>1, <3>4, <4>1, <4>2 DEF CountInvariant, CopyCounts
      <4>4. /\ a \in 0 .. MaxAttempts /\ k \in Nat /\ k < MaxAttempts
            /\ Within(publisher[e], sent[e], a, 1, faults)
        BY <3>1, <3>2, <3>4, <4>2
      <4> HIDE DEF a, k
      <4> QED
        BY <3>1, <4>3, <4>4, OutboxAssumption DEF Within, CopyWithin, Outcome
    <3> QED
      BY <3>1, <3>3, <3>4
  <2>2. ASSUME NEW e \in PricingEvents
        PROVE  sent[e] <= 1
    BY <1>1 DEF CountInvariant
  <2> QED
    BY <2>1, <2>2 DEF DuplicatesBounded
<1>2. OutboxInvariant /\ CountInvariant => DuplicatesBounded
  BY <1>1
<1> QED
  BY <1>2, CountInit, CountStep, InvariantHolds, PTL DEF Spec

-----------------------------------------------------------------------------

\* What the two counts have shown of the events stored when readiness was asked.
CheckInvariant ==
    /\ check \in [at : {"idle", "count", "answered"}, asked : SUBSET OrderEvents,
                  slipped : SUBSET OrderEvents, pending : Count, failed : Count, answer : Answer]
    /\ \A e \in check.asked : Stored(e)
    /\ check.pending = "none" => \A e \in check.asked : outbox[e].status # "pending"
    /\ check.failed = "none" /\ check.pending # "some" =>
           \A e \in check.asked : sent[e] > 0 \/ e \in check.slipped
    /\ check.answer = "ready" => check.pending = "none" /\ check.failed = "none"

\* A step stores no row twice, makes none pending again and unsends no event.
LEMMA RowsOnlyMove ==
    ASSUME OutboxInvariant, CountInvariant, [Next]_vars, NEW e \in OrderEvents, Stored(e)
    PROVE  /\ Stored(e)'
           /\ outbox[e].status # "pending" => outbox'[e].status # "pending"
           /\ sent[e] > 0 => sent'[e] > 0
<1> USE OutboxAssumption
<1>0. /\ TypeOK
      /\ e \in Events
      /\ outbox[e] \in Row
      /\ \A f \in OrderEvents : f \in Events
  BY DEF OutboxInvariant, TypeOK, Stored, Events
<1>k. UNCHANGED outbox => Stored(e)' /\ outbox'[e] = outbox[e]
  BY DEF Stored
<1>s. OnlySends => (sent[e] > 0 => sent'[e] > 0)
  BY <1>0 DEF OnlySends, TypeOK
<1>m. ASSUME NEW r \in Row, NEW outcome \in Outcome
      PROVE  Marked(r, outcome) # NoRow /\ Marked(r, outcome).status # "pending"
  <2>1. Marked(r, outcome) \in Row
    BY MarkedRow
  <2>2. Marked(r, outcome).status = IF outcome = "accepted" THEN "published" ELSE "failed"
    BY DEF Marked, Row
  <2> QED
    BY <2>1, <2>2, NoRowIsNoRow
<1>1. ASSUME NEW f \in OrderEvents, Record(f)
      PROVE  Stored(e)' /\ outbox'[e] = outbox[e] /\ sent' = sent
  <2>1. f # e
    BY <1>1 DEF Record, CountInvariant
  <2> QED
    BY <1>0, <1>1, <2>1 DEF Record, TypeOK, Stored
<1>2. ASSUME NEW f \in OrderEvents, Mark(f)
      PROVE  Stored(e)' /\ (outbox[e].status # "pending" => outbox'[e].status # "pending")
             /\ sent' = sent
  <2> DEFINE old == [outbox[f] EXCEPT !.status = "pending", !.attempts = 0]
             new == Marked(old, publisher[f])
  <2>1. old \in Row /\ publisher[f] \in Outcome
    <3>1. outbox[f] \in Row /\ publisher[f] \in Outcome
      BY <1>0, <1>2 DEF Mark, OutboxInvariant, PublisherStored, Stored, TypeOK
    <3> QED
      BY <3>1 DEF Row
  <2>2. new # NoRow /\ new.status # "pending"
    <3> HIDE DEF old
    <3> QED
      BY <2>1, <1>m
  <2>3. \/ outbox' = [outbox EXCEPT ![f] = new]
        \/ UNCHANGED outbox
    BY <1>2 DEF Mark
  <2> HIDE DEF new
  <2> QED
    BY <1>0, <1>2, <2>2, <2>3 DEF Mark, TypeOK, Stored
<1>3. ASSUME NEW f \in Events, Send(f)
      PROVE  UNCHANGED outbox /\ OnlySends
  BY <1>0, <1>3, WriteSends DEF Send, OnlySends, TypeOK
<1>4. CASE Tick \/ Connect \/ AssertExchanges \/ BrokerDown \/ BrokerUp \/ Stop \/ Start
  BY <1>4, <1>k DEF Tick, Connect, AssertExchanges, BrokerDown, BrokerUp, Stop, Start
<1>5. CASE FindRows
  <2>1. UNCHANGED outbox
    BY <1>5 DEF FindRows
  <2>2. CASE UNCHANGED sent
    BY <1>k, <2>1, <2>2
  <2>3. CASE Proceed(Batch)
    BY <1>0, <1>k, <1>s, <2>1, <2>3, BatchRetryable, ProceedKeeps
  <2> QED
    BY <1>5, <2>2, <2>3 DEF FindRows
<1>6. CASE RetryMark
  <2> DEFINE f == retry.current.event
             new == Marked(retry.current.row, retry.outcome)
  <2>1. new # NoRow /\ new.status # "pending"
    BY <1>0, <1>6, <1>m DEF RetryMark, OutboxInvariant, CopiesRetryable, Copy, TypeOK
  <2>2. OnlySends
    <3>1. retry.batch \in SUBSET {copy \in Copy : copy.row.attempts < MaxAttempts}
      BY <1>0 DEF OutboxInvariant, CopiesRetryable, TypeOK
    <3> QED
      BY <1>0, <1>6, <3>1, ProceedKeeps DEF RetryMark
  <2>3. \/ outbox' = [outbox EXCEPT ![f] = new]
        \/ UNCHANGED outbox
    BY <1>6 DEF RetryMark
  <2> HIDE DEF new, f
  <2> QED
    BY <1>0, <1>s, <2>1, <2>2, <2>3 DEF TypeOK, Stored
<1>7. CASE UNCHANGED vars
  BY <1>k, <1>7 DEF vars
<1> QED
  BY <1>1, <1>2, <1>3, <1>4, <1>5, <1>6, <1>7, <1>k, <1>s DEF Next

LEMMA CheckInit == ReadinessInit => CheckInvariant
BY DEF ReadinessInit, CheckInvariant, Unasked, Count, Answer

LEMMA CheckStep ==
    ASSUME OutboxInvariant, CountInvariant, CheckInvariant, [ReadinessNext]_readinessVars
    PROVE  CheckInvariant'
<1>0. CheckInvariant
  OBVIOUS
<1>1. ASSUME [Next]_vars, check' = check \/ check' = Unasked
      PROVE  CheckInvariant'
  <2>1. \A e \in check.asked : /\ e \in OrderEvents /\ Stored(e)'
                               /\ outbox[e].status # "pending" => outbox'[e].status # "pending"
                               /\ sent[e] > 0 => sent'[e] > 0
    BY <1>0, <1>1, RowsOnlyMove DEF CheckInvariant
  <2>2. CASE check' = check
    BY <1>0, <2>1, <2>2 DEF CheckInvariant
  <2>3. CASE check' = Unasked
    BY <2>3 DEF CheckInvariant, Unasked, Count, Answer
  <2> QED
    BY <1>1, <2>2, <2>3
<1>2. ASSUME ReadinessStep, UNCHANGED vars
      PROVE  CheckInvariant'
  <2>0. /\ outbox' = outbox /\ sent' = sent
        /\ \A e \in OrderEvents : Stored(e)' = Stored(e)
    BY <1>2 DEF vars, Stored
  <2>1. CASE AskReadiness
    <3> DEFINE stored == {e \in OrderEvents : Stored(e)}
    <3>1. /\ stored \subseteq OrderEvents
          /\ \A e \in stored : Stored(e)'
      BY <2>0
    <3>2. check' = [Unasked EXCEPT !.at = "count", !.asked = stored]
      BY <2>1 DEF AskReadiness
    <3> HIDE DEF stored
    <3> QED
      BY <3>1, <3>2 DEF CheckInvariant, Unasked, Count, Answer
  <2>6. CASE EndReadiness
    BY <2>6 DEF EndReadiness, CheckInvariant, Unasked, Count, Answer
  <2>2. CASE CountPending
    <3>1. Counted("pending") = "none" => \A e \in check.asked : outbox[e].status # "pending"
      BY <1>0 DEF CheckInvariant, Counted, RowsOf
    <3>2. ASSUME Counted("pending") = "none", check.failed = "none",
                 NEW e \in check.asked
          PROVE  sent[e] > 0 \/ e \in check.slipped \cap RowsOf("failed")
      <4>1. e \in OrderEvents /\ Stored(e) /\ outbox[e] \in Row /\ outbox[e].status # "pending"
        BY <1>0, <3>1, <3>2 DEF CheckInvariant, OutboxInvariant, TypeOK, Stored
      <4>2. sent[e] > 0 \/ e \in check.slipped
        BY <1>0, <2>2, <3>2 DEF CheckInvariant, CountPending
      <4>3. CASE outbox[e].status = "published"
        BY <4>1, <4>3 DEF OutboxInvariant, AcceptedIsSent
      <4>4. CASE outbox[e].status = "failed"
        BY <4>1, <4>2, <4>4 DEF RowsOf
      <4> QED
        BY <4>1, <4>3, <4>4 DEF Row
    <3>3. Counted("pending") \in {"none", "some"} /\ RowsOf("failed") \subseteq OrderEvents
      BY DEF Counted, RowsOf
    <3>4. check.answer # "ready"
      BY <1>0, <2>2 DEF CheckInvariant, CountPending
    <3>5. check' = [check EXCEPT !.pending = Counted("pending"),
                                 !.slipped = check.slipped \cap RowsOf("failed")]
      BY <2>2 DEF CountPending
    <3> QED
      BY <1>0, <2>0, <3>1, <3>2, <3>3, <3>4, <3>5 DEF CheckInvariant, Count
  <2>3. CASE CountFailed
    <3> DEFINE slipped == IF check.pending = "unread" THEN RowsOf("pending") ELSE {}
    <3>1. ASSUME Counted("failed") = "none", check.pending # "some", NEW e \in check.asked
          PROVE  sent[e] > 0 \/ e \in slipped
      <4>1. /\ e \in OrderEvents /\ Stored(e) /\ outbox[e] \in Row
            /\ check.pending = "none" => outbox[e].status # "pending"
            /\ check.pending \in Count
        BY <1>0 DEF CheckInvariant, OutboxInvariant, TypeOK, Stored
      <4>2. outbox[e].status # "failed"
        BY <3>1, <4>1 DEF Counted, RowsOf
      <4>3. CASE outbox[e].status = "published"
        BY <4>1, <4>3 DEF OutboxInvariant, AcceptedIsSent
      <4>4. CASE outbox[e].status = "pending"
        BY <3>1, <4>1, <4>4 DEF Count, RowsOf
      <4> QED
        BY <4>1, <4>2, <4>3, <4>4 DEF Row
    <3>2. Counted("failed") \in {"none", "some"} /\ slipped \subseteq OrderEvents
      BY DEF Counted, RowsOf
    <3>3. check.answer # "ready"
      BY <1>0, <2>3 DEF CheckInvariant, CountFailed
    <3>4. check' = [check EXCEPT !.failed = Counted("failed"), !.slipped = slipped]
      BY <2>3 DEF CountFailed
    <3> HIDE DEF slipped
    <3> QED
      BY <1>0, <2>0, <3>1, <3>2, <3>3, <3>4 DEF CheckInvariant, Count
  <2>4. CASE CountingFails
    BY <2>4 DEF CountingFails, Degraded, CheckInvariant, Unasked, Count, Answer
  <2>5. CASE AnswerReadiness
    <3>1. CASE check' = Degraded
      BY <3>1 DEF Degraded, CheckInvariant, Unasked, Count, Answer
    <3>2. CASE /\ check' = [check EXCEPT !.at = "answered", !.answer = "ready"]
               /\ check.pending = "none" /\ check.failed = "none"
      BY <1>0, <2>0, <3>2 DEF CheckInvariant, Answer
    <3> QED
      BY <2>5, <3>1, <3>2 DEF AnswerReadiness
  <2> QED
    BY <1>2, <2>1, <2>2, <2>3, <2>4, <2>5, <2>6 DEF ReadinessStep
<1>3. CASE UNCHANGED readinessVars
  <2>1. check' = check /\ [Next]_vars
    BY <1>3 DEF readinessVars, vars
  <2> QED
    BY <1>1, <2>1
<1> QED
  BY <1>1, <1>2, <1>3 DEF ReadinessNext

(***************************************************************************)
(* "ready" of GET /health/order-events leaves unsent none of the events    *)
(* stored when it was asked, however the publishing calls and the retry    *)
(* pass interleave with its two counts, but for a row whose attempt fails  *)
(* between the count of the failed rows and that of the pending rows.      *)
(***************************************************************************)
THEOREM ReadinessSafe == ReadinessSpec => []ReadyMeansSent
<1>1. ReadinessInit => Init /\ CheckInvariant
  BY CheckInit DEF ReadinessInit
<1>2. [ReadinessNext]_readinessVars => [Next]_vars
  BY DEF ReadinessNext, readinessVars, vars
<1>3. ReadinessSpec => Spec
  BY <1>1, <1>2, PTL DEF ReadinessSpec, Spec
<1>4. OutboxInvariant /\ CountInvariant /\ CheckInvariant /\ [ReadinessNext]_readinessVars
          => CheckInvariant'
  BY CheckStep
<1>5. CheckInvariant => ReadyMeansSent
  BY DEF CheckInvariant, ReadyMeansSent
<1> QED
  BY <1>1, <1>2, <1>3, <1>4, <1>5, CountInit, CountStep, InvariantHolds, PTL
     DEF ReadinessSpec, Spec

==============================================================================
