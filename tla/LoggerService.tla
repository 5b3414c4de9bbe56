---------------------------- MODULE LoggerService ----------------------------
(***************************************************************************)
(* LoggerService: what a log call prints on the console and sends to the   *)
(* central log, and what is left of the values it must not repeat.  A text *)
(* is a sequence of pieces: a "head" and the "tail" after it are a value   *)
(* one of the patterns knows (bearer, JWT, e-mail), a "key" with what      *)
(* follows it a pair such as token=..., "private" a value that only the    *)
(* name of its field tells.  Metadata are the set of their leaves, each    *)
(* with its path: the entries and items from the object that was logged    *)
(* down to it.  A line, or a message, is the set of the texts in it.       *)
(* Dates, booleans and numbers are one value; functions and symbols, which *)
(* nothing logs, are left out.                                             *)
(***************************************************************************)
EXTENDS Integers, Sequences

CONSTANTS
    Contexts, Texts, MetadataValues, AuditRecords,  \* what callers pass
    MaxDepth, MaxKeys, MaxItems,    \* 4, 50 and 20 in the code
    MaxText, MaxAuditText,          \* 500 and 200
    CentralUrls                     \* whether LOGGING_SERVICE_URL is set

VARIABLES
    central,    \* whether there is a central log
    console,    \* the texts of the last line printed
    posted      \* the payload of the last POST, if there was one

logVars == <<central, console, posted>>

-----------------------------------------------------------------------------

Piece == {"word", "head", "tail", "key", "private", "break", "REDACTED", "TRUNCATED", "App"}

\* The patterns of keys: a whole word such as token, or tracking(number|url).
SensitiveKeys == {"customer", "token", "payment"}

\* SENSITIVE_CONTEXT_PATTERN is looked for anywhere in a context.
SensitiveContexts == {"PaymentsService"}

Cut(s, n) == SubSeq(s, 1, IF Len(s) < n THEN Len(s) ELSE n)

Known(t, i) == i \in 1..Len(t) - 1 /\ t[i] = "head" /\ t[i + 1] = "tail"

Paired(t, i) == i \in 1..Len(t) - 1 /\ t[i] = "key" /\ t[i + 1] # "break"

\* What a caller logs has the two halves of a value together.
Whole(t) == \A i \in DOMAIN t : (t[i] = "head" => Known(t, i)) /\ (t[i] = "tail" => Known(t, i - 1))

NothingPrivate(t) == \A i \in DOMAIN t : t[i] # "private"

\* A step of a path: the at-th entry of an object, under its key, or the
\* at-th item of a list, which is looked at under the key of the list.
Step == [in : {"object", "list"}, key : STRING, at : Nat]

Sensitive(path) == \E d \in DOMAIN path : path[d].key \in SensitiveKeys

\* A private value is in a field whose name says so; "empty" is an object or
\* a list with nothing in it.
Leaf(leaf) ==
    /\ leaf \in [path : Seq(Step) \ {<<>>}, kind : {"text", "number", "empty"}, of : Seq(Piece)]
    /\ Whole(leaf.of)
    /\ NothingPrivate(leaf.of) \/ Sensitive(leaf.path)

ASSUME LoggerAssumption ==
    /\ \A t \in Texts : t \in Seq(Piece) /\ Whole(t) /\ NothingPrivate(t)
    /\ Contexts \subseteq Seq({"word", "break"} \cup SensitiveContexts)
    /\ \A metadata \in MetadataValues \cup AuditRecords : \A leaf \in metadata : Leaf(leaf)
    /\ MaxDepth \in Nat \ {0} /\ MaxKeys \in Nat /\ MaxItems \in Nat
    /\ MaxText \in Nat \ {0} /\ MaxAuditText \in Nat
    /\ CentralUrls \subseteq BOOLEAN

\* redact: the replacement of a pair is a pair again, that of a value as long
\* as the value.
Redact(t) ==
    [i \in 1..Len(t) |->
        IF Known(t, i) \/ Known(t, i - 1) \/ Paired(t, i - 1) THEN "REDACTED" ELSE t[i]]

\* Mutant: a text is cut before it is redacted.
ShownTextCutFirst(t) == Redact(Cut(t, MaxText))

\* Texts of metadata are redacted, then cut.
ShownText(t) == Cut(Redact(t), MaxText)

\* sanitizeMetadataValue comes down to this depth of a path: nothing above it
\* is cut off, truncated, or replaced for its name.
Reached(path, depth) ==
    /\ \A d \in 1..depth : path[d].at <= IF path[d].in = "list" THEN MaxItems ELSE MaxKeys
    /\ \A d \in 1..depth - 1 : d < MaxDepth /\ path[d].key \notin SensitiveKeys

\* What it makes of the value at this depth; an object or a list goes on below.
SanitizeMetadataValue(leaf, depth) ==
    LET last == depth = Len(leaf.path)
        value(kind, of) == {[path |-> SubSeq(leaf.path, 1, depth), kind |-> kind, of |-> of]}
    IN  IF leaf.path[depth].key \in SensitiveKeys THEN value("text", <<"REDACTED">>)
        ELSE IF last /\ leaf.kind = "text" THEN value("text", ShownText(leaf.of))
        ELSE IF last /\ leaf.kind = "number" THEN value("number", leaf.of)
        ELSE IF depth >= MaxDepth THEN value("text", <<"TRUNCATED">>)
        ELSE IF last THEN value("empty", <<>>)
        ELSE {}

\* sanitizeMetadata: what is not an object has no leaves, and is not sent.
SanitizeMetadata(metadata) ==
    UNION {UNION {SanitizeMetadataValue(leaf, depth) :
                     depth \in {d \in DOMAIN leaf.path : Reached(leaf.path, d)}} : leaf \in metadata}

\* sanitizeAuditValue: what is still suspicious after redaction is dropped.
AuditValueKept(t, field) ==
    LET redacted == Redact(t)
    IN  /\ redacted # <<>>
        /\ Len(redacted) <= MaxAuditText
        /\ \A i \in DOMAIN redacted : redacted[i] # "break" /\ ~Known(redacted, i) /\ ~Paired(redacted, i)
        /\ field \notin SensitiveKeys

\* The texts that are fields of the object that was logged.
TextFields(metadata, names) ==
    {leaf \in metadata : Len(leaf.path) = 1 /\ leaf.path[1].key \in names /\ leaf.kind = "text"}

\* correlation_id is looked at first, and whatever it is if it is there.
CorrelationId(metadata) ==
    LET name == IF \E leaf \in metadata : leaf.path[1].key = "correlation_id"
                THEN "correlation_id" ELSE "correlationId"
    IN  {Redact(leaf.of) : leaf \in {l \in TextFields(metadata, {name}) :
                                        AuditValueKept(l.of, "correlation_id")}}

SanitizeContext(context) ==
    IF \/ context = <<>> \/ Len(context) > 2
       \/ \E i \in DOMAIN context : context[i] \in SensitiveContexts \cup {"break"}
    THEN <<"App">> ELSE context

-----------------------------------------------------------------------------

LogInit ==
    /\ central \in CentralUrls
    /\ console = {}
    /\ posted = {}

\* sendCentralLog and buildCentralPayload: nobody waits for the answer.
SendCentralLog(message, metadata) ==
    posted' = IF central
              THEN {[message |-> {Redact(t) : t \in message}, correlation |-> CorrelationId(metadata),
                     metadata |-> SanitizeMetadata(metadata)]}
              ELSE {}

\* log, warn and error without a trace.
Write ==
    /\ \E context \in Contexts, message \in Texts, metadata \in MetadataValues :
          /\ console' = {SanitizeContext(context), Redact(message)}
          /\ SendCentralLog({Redact(message)}, metadata)
    /\ UNCHANGED central

\* error with a trace: the trace is printed on a line of its own, and not
\* sent.  No caller gives a trace and metadata.
WriteError ==
    /\ \E context \in Contexts, message \in Texts, trace \in Texts :
          /\ console' = {SanitizeContext(context), Redact(message), Redact(trace)}
          /\ SendCentralLog({Redact(message)}, {})
    /\ UNCHANGED central

\* AUDIT_FIELD_ORDER
AuditFields ==
    {"operation", "resourceType", "resourceId", "parentResourceId", "actorId", "actorEmail",
     "source", "channel", "previousStatus", "requestedStatus", "resultingStatus", "reasonCode",
     "status", "outcome", "correlationId", "correlation_id", "durationMs", "duration_ms",
     "generated", "skipped", "processed"}

\* audit prints the listed fields whose values are kept; the whole record is
\* sent as metadata.
Audit ==
    /\ \E context \in Contexts, record \in AuditRecords :
          LET kept == {leaf \in TextFields(record, AuditFields) :
                          AuditValueKept(leaf.of, leaf.path[1].key)}
              line == {Redact(leaf.of) : leaf \in kept}
          IN  /\ console' = {SanitizeContext(context)} \cup line
              /\ SendCentralLog(line, record)
    /\ UNCHANGED central

LogNext == Write \/ WriteError \/ Audit

LogSpec == LogInit /\ [][LogNext]_logVars

-----------------------------------------------------------------------------

\* Neither a value that must not be repeated nor the beginning of one.
Clean(t) ==
    \A i \in DOMAIN t :
        /\ t[i] \notin {"head", "tail", "private"}
        /\ t[i] = "key" => i = Len(t) \/ t[i + 1] \in {"REDACTED", "break"}

\* Within the limits, and nothing under a sensitive name.
LeafClean(leaf) ==
    /\ Len(leaf.path) <= MaxDepth
    /\ \A d \in DOMAIN leaf.path :
          /\ leaf.path[d].at <= IF leaf.path[d].in = "list" THEN MaxItems ELSE MaxKeys
          /\ leaf.path[d].key \in SensitiveKeys => leaf.of = <<"REDACTED">>
    /\ leaf.kind = "text" => Clean(leaf.of) /\ Len(leaf.of) <= MaxText

(***************************************************************************)
(* Whatever is logged, and however deep or long it is, no line printed and *)
(* no payload sent repeats a value the patterns or a field's name know,    *)
(* not even the part before the place where a text is cut; and metadata    *)
(* keep within their limits.                                               *)
(***************************************************************************)
LogsAreClean ==
    /\ \A t \in console : Clean(t)
    /\ \A payload \in posted :
          /\ \A t \in payload.message \cup payload.correlation : Clean(t)
          /\ \A leaf \in payload.metadata : LeafClean(leaf)

=============================================================================
