------------------------ MODULE CredentialSelfReport ------------------------
(***************************************************************************)
(* CredentialSelfReporter and its vendored reporter: every half hour the   *)
(* service tries its own Warehouse credential on Warehouse and posts the   *)
(* verdict to monitoring.  Warehouse may accept or refuse the credential   *)
(* from one moment to the next, answer anything else, send the request     *)
(* elsewhere or not answer; both requests are given up after ten seconds,  *)
(* and runs may overlap.                                                   *)
(***************************************************************************)
EXTENDS Naturals

CONSTANTS
    Runs,           \* runs of the cron job under way
    Environments,   \* deployments: which variables are set, what the token is
    MaxRotations    \* bound: how often Warehouse changes its mind

VARIABLES
    environment,    \* process.env of this pod
    principal,      \* whether Warehouse accepts the credential now
    run,            \* where each run is
    inbox,          \* the report monitoring received last, if any
    rotations

reportVars == <<environment, principal, run, inbox, rotations>>

-----------------------------------------------------------------------------

\* An empty token; one that is no JWT or has no exp; one with an expiry date.
TokenClass == {"empty", "opaque", "dated"}

Environment == [token : TokenClass, ingest : BOOLEAN, enabled : BOOLEAN]

ASSUME ReportAssumption ==
    /\ Environments \subseteq Environment
    /\ MaxRotations \in Nat

NoRun == [at |-> "none"]

ReportInit ==
    /\ environment \in Environments
    /\ principal \in {"good", "refused"}
    /\ run = [r \in Runs |-> NoRun]
    /\ inbox = {}
    /\ rotations = 0

\* Mutant: whatever is not a success is a rejection.
ClassifyFailures(status) == IF status \in 200..299 THEN "accepted" ELSE "rejected"

ClassifyStatus(status) ==
    CASE status \in 200..299  -> "accepted"
      [] status \in {401, 403} -> "rejected"
      [] OTHER                -> "indeterminate"

\* readTokenExpiry: nothing is guessed.
ReadTokenExpiry == environment.token = "dated"

\* scheduledReport and runReport: without an ingest token nothing is asked or
\* sent; an empty token is rejected unasked.  during: what Warehouse thought
\* of the credential while the run lasted.
Start(r) ==
    /\ run[r] = NoRun
    /\ environment.enabled
    /\ environment.ingest
    /\ run' = [run EXCEPT ![r] =
                 IF environment.token = "empty"
                 THEN [at |-> "post", verdict |-> "rejected", during |-> {"missing"}]
                 ELSE [at |-> "probe", during |-> {principal}]]
    /\ UNCHANGED <<environment, principal, inbox, rotations>>

\* seen: what is added to what the run has met.
Judge(r, verdict, seen) ==
    /\ run[r].at = "probe"
    /\ run' = [run EXCEPT ![r] = [at |-> "post", verdict |-> verdict,
                                  during |-> @.during \cup seen]]
    /\ UNCHANGED <<environment, principal, inbox, rotations>>

\* probeCredential: Warehouse answers by what it thinks now, or with an error
\* of its own, of the route, or of a proxy before it.
ProbeAnswered(r) ==
    \E status \in (IF principal = "good" THEN {200} ELSE {401, 403}) \cup {304, 404, 500, 503} :
        Judge(r, ClassifyStatus(status), {})

\* fetch follows a redirect, and the page it ends at is judged: a login page
\* that answers, a host that knows nothing of the credential.
ProbeRedirected(r) ==
    \E status \in {200, 401, 403, 404, 500} : Judge(r, ClassifyStatus(status), {"redirected"})

\* Refused connection, or aborted after ten seconds.
ProbeFails(r) == Judge(r, "indeterminate", {})

Finish(r) ==
    /\ run[r].at = "post"
    /\ run' = [run EXCEPT ![r] = NoRun]
    /\ UNCHANGED <<environment, principal, rotations>>

\* postReport; monitoring has the report, whether or not its answer arrives.
Post(r) ==
    /\ Finish(r)
    /\ inbox' = {[verdict |-> run[r].verdict, during |-> run[r].during,
                  expires |-> ReadTokenExpiry]}

\* Monitoring is not reached or does not accept the report: it is not repeated.
PostFails(r) == Finish(r) /\ UNCHANGED inbox

\* Outside: Auth rotates or revokes the credential, Warehouse changes its roles.
Rotate ==
    /\ rotations < MaxRotations
    /\ rotations' = rotations + 1
    /\ \E p \in {"good", "refused"} \ {principal} :
          /\ principal' = p
          /\ run' = [r \in Runs |-> IF run[r].at = "probe" THEN [run[r] EXCEPT !.during = @ \cup {p}]
                                    ELSE run[r]]
    /\ UNCHANGED <<environment, inbox>>

ReportNext ==
    \/ Rotate
    \/ \E r \in Runs :
          \/ Start(r) \/ ProbeAnswered(r) \/ ProbeRedirected(r) \/ ProbeFails(r)
          \/ Post(r) \/ PostFails(r)

ReportSpec == ReportInit /\ [][ReportNext]_reportVars

-----------------------------------------------------------------------------

(***************************************************************************)
(* Monitoring is told of a rejection only when Warehouse did refuse the    *)
(* credential while it was tried, or there is none, and of an acceptance   *)
(* only when it did accept it: an outage, an error or a rotation in        *)
(* between is never reported as either.  The exception is a probe that is  *)
(* redirected: the answer it ends at, whoever gives it, passes for         *)
(* Warehouse's, so a login page is an acceptance.  No expiry is reported   *)
(* of a token that carries none, and nothing is sent by a pod that must    *)
(* not report.                                                             *)
(***************************************************************************)
VerdictHonest ==
    \A report \in inbox :
        /\ report.verdict = "rejected" =>
              report.during \cap {"refused", "missing", "redirected"} # {}
        /\ report.verdict = "accepted" => report.during \cap {"good", "redirected"} # {}
        /\ report.expires => environment.token = "dated"
        /\ environment.enabled /\ environment.ingest

=============================================================================
