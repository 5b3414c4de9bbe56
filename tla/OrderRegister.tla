---------------------------- MODULE OrderRegister ----------------------------
(***************************************************************************)
(* What POST /api/orders and its validation promise, without transactions, *)
(* Warehouse or events: a register with at most one order per idempotency  *)
(* key, and one final answer per call.                                     *)
(***************************************************************************)
CONSTANTS
    Calls,
    NoCall,
    Asks,       \* records of a key and what is ordered
    Nothing

VARIABLES
    register,   \* the orders of each key: the call that made it, its content
    asked,      \* what each call asks for, once it has read it
    answer      \* <<answer, order>> of each call

vars == <<register, asked, answer>>

Keys == {a.key : a \in Asks}

Init ==
    /\ register = [k \in Keys |-> {}]
    /\ asked = [c \in Calls |-> Nothing]
    /\ answer = [c \in Calls |-> <<"none", NoCall>>]

Pending(c) == answer[c][1] = "none"

Reply(c, reply, order) == answer' = [answer EXCEPT ![c] = <<reply, order>>]

Made(c) == \E k \in Keys : \E e \in register[k] : e.by = c

Ask(c) == asked[c] = Nothing /\ \E a \in Asks : asked' = [asked EXCEPT ![c] = a]

\* The call reads its request and goes on with it.
Begin(c) == Pending(c) /\ Ask(c) /\ UNCHANGED <<register, answer>>

\* A key without an order gets the order of the call, which may fail for all that.
Make(c) ==
    /\ Pending(c)
    /\ asked[c] # Nothing
    /\ register[asked[c].key] = {}
    /\ register' = [register EXCEPT ![asked[c].key] = {[by |-> c, ordered |-> asked[c].ordered]}]
    /\ Reply(c, "none", c) \/ Reply(c, "failed", NoCall)
    /\ UNCHANGED asked

Created(c) == Pending(c) /\ Made(c) /\ Reply(c, "created", c) /\ UNCHANGED <<register, asked>>

\* Answers from the register as it is when the request is read.
Consult(c) ==
    /\ Pending(c)
    /\ Ask(c)
    /\ LET present == register[asked'[c].key] IN
          \/ \E e \in present : /\ e.ordered = asked'[c].ordered
                                /\ Reply(c, "replayed", e.by) \/ Reply(c, "valid", e.by)
          \/ present # {} /\ Reply(c, "conflict", NoCall)
          \/ present = {} /\ Reply(c, "valid", NoCall)
    /\ UNCHANGED register

Reject(c) ==
    /\ Pending(c)
    /\ asked[c] = Nothing
    /\ Reply(c, "rejected", NoCall)
    /\ UNCHANGED <<register, asked>>

\* One call fails, or all that have begun when the process dies.
Fail(lost) ==
    /\ \A c \in lost : Pending(c) /\ asked[c] # Nothing
    /\ answer' = [c \in Calls |-> IF c \in lost THEN <<"failed", NoCall>> ELSE answer[c]]
    /\ UNCHANGED <<register, asked>>

Next ==
    \/ \E c \in Calls : Begin(c) \/ Make(c) \/ Created(c) \/ Consult(c) \/ Reject(c)
    \/ \E lost \in SUBSET Calls : Fail(lost)

Spec == Init /\ [][Next]_vars

=============================================================================
