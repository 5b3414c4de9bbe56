------------------------- MODULE SideServices_proofs -------------------------
(***************************************************************************)
(* Theorems about six parts beside the orders: the shipments table, the    *)
(* report on the Warehouse credential, the administrators' console, the    *)
(* fulfilment handoff, the replay listing and the logger, for any number   *)
(* of handlers, runs, sign-ins, calls, lines, orders and texts, with       *)
(* TLAPS.  They share no state; each theorem is about one of them.         *)
(***************************************************************************)
EXTENDS Shipments, CredentialSelfReport, AdminConsole, FulfillmentHandoff, AffinityReplay,
        LoggerService, FiniteSetTheorems, SequenceTheorems, WellFoundedInduction, TLAPS

-----------------------------------------------------------------------------

(***************************************************************************)
(* Shipments.                                                              *)
(***************************************************************************)

IsShipment(row) == DOMAIN row = Column

\* An update keeps what its handler has read.
Keeps(old, new) == \A c \in Evidence : old[c] # None => new[c] # None

ShipmentInvariant ==
    /\ \A id \in Stored : IsShipment(shipments[id])
    /\ \A x \in shipmentWrites : IsShipment(x.entity) /\ Keeps(x.read, x.entity)

\* A row loses nothing but to a save of an entity read before another was stored.
Erasure(id, c) ==
    (shipments[id][c] # None /\ shipments'[id][c] = None) =>
        \E x \in shipmentWrites \ shipmentWrites' : x.id = id /\ x.read # shipments[id]

NothingErased == \A id \in Stored, c \in Evidence : Erasure(id, c)

\* Both updates change columns of a shipment, and empty none of its evidence.
LEMMA UpdatesKeep ==
    ASSUME NEW old, IsShipment(old)
    PROVE  /\ \A number \in TrackingNumbers \cup {None}, url \in {"url", None} :
                 LET new == [old EXCEPT !["trackingNumber"] = IF number = None THEN @ ELSE number,
                                        !["trackingUrl"] = IF url = None THEN @ ELSE url,
                                        !["status"] = "picked_up",
                                        !["shippedAt"] = "set"]
                 IN  IsShipment(new) /\ Keeps(old, new)
           /\ \A status : IsShipment(WithStatus(old, status)) /\ Keeps(old, WithStatus(old, status))
BY DEF IsShipment, Keeps, WithStatus, Column, Evidence, None

LEMMA ShipmentStep ==
    ASSUME ShipmentInvariant, [ShipmentNext]_shipmentVars
    PROVE  ShipmentInvariant' /\ NothingErased
<1>1. CASE CreateShipment
  <2>1. PICK id \in ShipmentIds, body \in CreateBodies :
            shipments' = [k \in Stored \cup {id} |->
                            IF k # id THEN shipments[k]
                            ELSE Over(IF id \in Stored THEN shipments[id] ELSE NewShipment, body)]
    BY <1>1 DEF CreateShipment
  <2>2. /\ DOMAIN shipments' = Stored \cup {id}
        /\ \A k \in Stored \ {id} : shipments'[k] = shipments[k]
        /\ shipments'[id] = Over(IF id \in Stored THEN shipments[id] ELSE NewShipment, body)
    BY <2>1
  <2>3. IsShipment(shipments'[id])
    BY <2>2 DEF IsShipment, Over
  <2>4. id \in Stored => Keeps(shipments[id], shipments'[id])
    BY <2>2, ShipmentAssumption DEF Keeps, Over, Column
  <2>5. shipmentWrites' = shipmentWrites
    BY <1>1 DEF CreateShipment
  <2>6. ShipmentInvariant'
    BY <2>2, <2>3, <2>5 DEF ShipmentInvariant, Stored, IsShipment, Keeps
  <2>7. NothingErased
    BY <2>2, <2>4 DEF NothingErased, Erasure, Keeps
  <2> QED
    BY <2>6, <2>7
<1>2. ASSUME NEW w \in ShipmentHandlers, UpdateTracking(w) \/ UpdateShipmentStatus(w)
      PROVE  ShipmentInvariant' /\ NothingErased
  <2>1. PICK id \in Stored :
            \E entity : /\ IsShipment(entity) /\ Keeps(shipments[id], entity)
                        /\ Read(w, id, entity)
    BY <1>2, UpdatesKeep DEF UpdateTracking, UpdateShipmentStatus, ShipmentInvariant
  <2>2. PICK entity : /\ IsShipment(entity) /\ Keeps(shipments[id], entity)
                      /\ Read(w, id, entity)
    BY <2>1
  <2>3. /\ shipmentWrites' = shipmentWrites \cup
              {[by |-> w, id |-> id, read |-> shipments[id], entity |-> entity]}
        /\ shipments' = shipments
    BY <2>2 DEF Read
  <2>4. ShipmentInvariant'
    BY <2>2, <2>3 DEF ShipmentInvariant, Stored, IsShipment, Keeps
  <2> QED
    BY <2>3, <2>4 DEF NothingErased, Erasure
<1>3. ASSUME NEW w \in ShipmentHandlers, SaveShipment(w)
      PROVE  ShipmentInvariant' /\ NothingErased
  <2>1. PICK x \in shipmentWrites :
            /\ shipments' = [shipments EXCEPT ![x.id] = x.entity]
            /\ shipmentWrites' = shipmentWrites \ {x}
    BY <1>3 DEF SaveShipment
  <2>2. /\ Stored' = Stored
        /\ \A k \in Stored : shipments'[k] = IF k = x.id THEN x.entity ELSE shipments[k]
    BY <2>1 DEF Stored
  <2>3. IsShipment(x.entity) /\ Keeps(x.read, x.entity)
    BY DEF ShipmentInvariant
  <2>4. ShipmentInvariant'
    BY <2>1, <2>2, <2>3 DEF ShipmentInvariant, IsShipment, Keeps
  <2>5. NothingErased
    BY <2>1, <2>2, <2>3 DEF NothingErased, Erasure, Keeps
  <2> QED
    BY <2>4, <2>5
<1>4. ASSUME NEW w \in ShipmentHandlers, SaveShipmentFails(w)
      PROVE  ShipmentInvariant' /\ NothingErased
  BY <1>4 DEF SaveShipmentFails, ShipmentInvariant, NothingErased, Erasure, Stored, IsShipment,
              Keeps
<1>5. CASE UNCHANGED shipmentVars
  BY <1>5 DEF shipmentVars, ShipmentInvariant, NothingErased, Erasure, Stored, IsShipment, Keeps
<1> QED
  BY <1>1, <1>2, <1>3, <1>4, <1>5 DEF ShipmentNext

(***************************************************************************)
(* However updates overlap and fail, no request erases the tracking of a   *)
(* shipment or a date of it, but by saving an entity read before another   *)
(* request was stored.                                                     *)
(***************************************************************************)
THEOREM EvidenceSafe == ShipmentSpec => EvidenceKept
<1>1. ShipmentInit => ShipmentInvariant
  BY DEF ShipmentInit, ShipmentInvariant, Stored
<1>2. ShipmentInvariant /\ [ShipmentNext]_shipmentVars =>
          /\ ShipmentInvariant'
          /\ [\A id \in Stored, c \in Evidence :
                 (shipments[id][c] # None /\ shipments'[id][c] = None) =>
                     \E x \in shipmentWrites \ shipmentWrites' :
                         x.id = id /\ x.read # shipments[id]]_shipmentVars
  BY ShipmentStep DEF NothingErased, Erasure
<1> QED
  BY <1>1, <1>2, PTL DEF ShipmentSpec, EvidenceKept

-----------------------------------------------------------------------------

(***************************************************************************)
(* The report on the Warehouse credential.                                 *)
(***************************************************************************)

\* What a verdict claims of the time the credential was tried.
Honest(verdict, during) ==
    /\ verdict = "rejected" => during \cap {"refused", "missing", "redirected"} # {}
    /\ verdict = "accepted" => during \cap {"good", "redirected"} # {}

\* A run under way may report, knows the present, and judges by what it saw.
RunOK(r) ==
    run[r] # NoRun =>
        /\ environment.enabled /\ environment.ingest
        /\ run[r].at = "probe" => principal \in run[r].during
        /\ run[r].at = "post" => Honest(run[r].verdict, run[r].during)

Probing == [at : {"probe"}, during : SUBSET {"good", "refused"}]

Posting == [at : {"post"}, verdict : {"accepted", "rejected", "indeterminate"},
            during : SUBSET {"good", "refused", "missing", "redirected"}]

ReportInvariant ==
    /\ principal \in {"good", "refused"}
    /\ run \in [Runs -> {NoRun} \cup Probing \cup Posting]
    /\ \A r \in Runs : RunOK(r)
    /\ VerdictHonest

\* One run moved, the credential and the inbox did not.
LEMMA RunMoves ==
    ASSUME ReportInvariant, NEW r \in Runs, NEW new \in {NoRun} \cup Probing \cup Posting,
           run' = [run EXCEPT ![r] = new], RunOK(r)',
           UNCHANGED <<environment, principal, inbox>>
    PROVE  ReportInvariant'
<1>1. \A q \in Runs \ {r} : RunOK(q)'
  BY DEF ReportInvariant, RunOK, Honest
<1>2. run' \in [Runs -> {NoRun} \cup Probing \cup Posting]
  BY DEF ReportInvariant
<1>3. VerdictHonest'
  BY DEF ReportInvariant, VerdictHonest
<1> QED
  BY <1>1, <1>2, <1>3 DEF ReportInvariant

\* A verdict that is honest of what the run saw may be posted.
LEMMA JudgeHonestly ==
    ASSUME ReportInvariant, NEW r \in Runs,
           NEW verdict \in {"accepted", "rejected", "indeterminate"},
           NEW seen \in SUBSET {"redirected"}, Judge(r, verdict, seen),
           principal \in run[r].during => Honest(verdict, run[r].during \cup seen)
    PROVE  ReportInvariant'
<1> DEFINE new == [at |-> "post", verdict |-> verdict, during |-> run[r].during \cup seen]
<1>1. run[r] \in Probing
  BY DEF Judge, ReportInvariant, NoRun, Posting
<1>2. new \in Posting
  BY <1>1 DEF Probing, Posting
<1>3. run[r] # NoRun /\ RunOK(r)
  BY <1>1 DEF ReportInvariant, NoRun, Probing
<1>4. Honest(new.verdict, new.during)
  BY <1>1, <1>3 DEF RunOK, Probing
<1>5. run' = [run EXCEPT ![r] = new] /\ run'[r] = new
  BY DEF Judge, ReportInvariant
<1>6. UNCHANGED <<environment, principal, inbox>>
  BY DEF Judge
<1>7. RunOK(r)'
  BY <1>3, <1>4, <1>5, <1>6 DEF RunOK, Honest
<1> HIDE DEF new
<1> QED
  BY <1>2, <1>5, <1>6, <1>7, RunMoves

LEMMA ReportStep ==
    ASSUME ReportInvariant, [ReportNext]_reportVars
    PROVE  ReportInvariant'
<1>1. ASSUME NEW r \in Runs, Start(r)
      PROVE  ReportInvariant'
  <2> DEFINE new == IF environment.token = "empty"
                      THEN [at |-> "post", verdict |-> "rejected", during |-> {"missing"}]
                      ELSE [at |-> "probe", during |-> {principal}]
  <2>1. run' = [run EXCEPT ![r] = new] /\ run'[r] = new
    BY <1>1 DEF Start, ReportInvariant
  <2>2. /\ environment.enabled /\ environment.ingest
        /\ UNCHANGED <<environment, principal, inbox>>
    BY <1>1 DEF Start
  <2>3. new \in Probing \cup Posting
    BY DEF Probing, Posting, ReportInvariant
  <2>4. /\ new.at = "probe" => principal \in new.during
        /\ new.at = "post" => Honest(new.verdict, new.during)
    BY DEF Honest
  <2> HIDE DEF new
  <2>5. RunOK(r)'
    BY <2>1, <2>2, <2>4 DEF RunOK, Honest
  <2> QED
    BY <2>1, <2>2, <2>3, <2>5, RunMoves
<1>2. ASSUME NEW r \in Runs, ProbeAnswered(r)
      PROVE  ReportInvariant'
  <2>1. PICK status \in (IF principal = "good" THEN {200} ELSE {401, 403})
                        \cup {304, 404, 500, 503} :
            Judge(r, ClassifyStatus(status), {})
    BY <1>2 DEF ProbeAnswered
  <2>2. ClassifyStatus(status) \in {"accepted", "rejected", "indeterminate"}
    BY DEF ClassifyStatus
  <2>3. /\ ClassifyStatus(status) = "accepted" => principal = "good"
        /\ ClassifyStatus(status) = "rejected" => principal = "refused"
    BY DEF ClassifyStatus, ReportInvariant
  <2>4. principal \in run[r].during => Honest(ClassifyStatus(status), run[r].during \cup {})
    BY <2>3 DEF Honest
  <2> QED
    BY <2>1, <2>2, <2>4, JudgeHonestly
<1>3. ASSUME NEW r \in Runs, ProbeFails(r)
      PROVE  ReportInvariant'
  <2>1. Honest("indeterminate", run[r].during \cup {})
    BY DEF Honest
  <2> QED
    BY <1>3, <2>1, JudgeHonestly DEF ProbeFails
<1>r. ASSUME NEW r \in Runs, ProbeRedirected(r)
      PROVE  ReportInvariant'
  <2>1. PICK status \in {200, 401, 403, 404, 500} :
            Judge(r, ClassifyStatus(status), {"redirected"})
    BY <1>r DEF ProbeRedirected
  <2>2. ClassifyStatus(status) \in {"accepted", "rejected", "indeterminate"}
    BY DEF ClassifyStatus
  <2>3. Honest(ClassifyStatus(status), run[r].during \cup {"redirected"})
    BY DEF Honest
  <2> QED
    BY <2>1, <2>2, <2>3, JudgeHonestly
<1>4. ASSUME NEW r \in Runs, Finish(r)
      PROVE  /\ run' \in [Runs -> {NoRun} \cup Probing \cup Posting]
             /\ \A q \in Runs : RunOK(q)'
             /\ principal' \in {"good", "refused"}
  BY <1>4 DEF Finish, ReportInvariant, RunOK, Honest
<1>5. ASSUME NEW r \in Runs, Post(r)
      PROVE  ReportInvariant'
  <2>1. run[r].at = "post" /\ environment' = environment
    BY <1>5 DEF Post, Finish
  <2>2. run[r] # NoRun
    BY <2>1 DEF NoRun
  <2>3. RunOK(r)
    BY DEF ReportInvariant
  <2> DEFINE new == [verdict |-> run[r].verdict, during |-> run[r].during,
                     expires |-> environment.token = "dated"]
  <2>4. /\ inbox' = {new}
        /\ new.verdict = run[r].verdict /\ new.during = run[r].during
    BY <1>5 DEF Post, ReadTokenExpiry
  <2>5. new.expires => environment.token = "dated"
    BY Zenon
  <2> HIDE DEF new
  <2>6. Honest(run[r].verdict, run[r].during) /\ environment.enabled /\ environment.ingest
    BY <2>1, <2>2, <2>3 DEF RunOK
  <2>7. VerdictHonest'
    BY <2>1, <2>4, <2>5, <2>6 DEF VerdictHonest, Honest, ReportInvariant
  <2> QED
    BY <1>4, <1>5, <2>7 DEF Post, ReportInvariant
<1>6. ASSUME NEW r \in Runs, PostFails(r)
      PROVE  ReportInvariant'
  BY <1>4, <1>6 DEF PostFails, Finish, ReportInvariant, VerdictHonest
<1>7. CASE Rotate
  <2>1. PICK p \in {"good", "refused"} :
            /\ principal' = p
            /\ run' = [r \in Runs |-> IF run[r].at = "probe"
                                      THEN [run[r] EXCEPT !.during = @ \cup {p}]
                                      ELSE run[r]]
            /\ UNCHANGED <<environment, inbox>>
    BY <1>7 DEF Rotate
  <2>2. ASSUME NEW r \in Runs
        PROVE  run'[r] \in {NoRun} \cup Probing \cup Posting /\ RunOK(r)'
    <3>1. run[r] \in {NoRun} \cup Probing \cup Posting /\ RunOK(r)
      BY DEF ReportInvariant
    <3>2. CASE run[r].at = "probe"
      <4>1. run[r] \in Probing
        BY <3>1, <3>2 DEF NoRun, Posting
      <4>2. /\ run'[r] \in Probing
            /\ p \in run'[r].during
        BY <2>1, <3>2, <4>1 DEF Probing
      <4>3. run[r] # NoRun /\ run'[r].at = "probe"
        BY <4>1, <4>2 DEF Probing, NoRun
      <4> QED
        BY <2>1, <3>1, <4>2, <4>3 DEF RunOK
    <3>3. CASE run[r].at # "probe"
      <4>1. run'[r] = run[r]
        BY <2>1, <3>3
      <4> QED
        BY <2>1, <3>1, <3>3, <4>1 DEF RunOK, Honest
    <3> QED
      BY <3>2, <3>3
  <2>3. run' \in [Runs -> {NoRun} \cup Probing \cup Posting]
    BY <2>1, <2>2
  <2>4. VerdictHonest'
    BY <2>1 DEF ReportInvariant, VerdictHonest
  <2> QED
    BY <2>1, <2>2, <2>3, <2>4 DEF ReportInvariant
<1>8. CASE UNCHANGED reportVars
  BY <1>8 DEF reportVars, ReportInvariant, RunOK, Honest, VerdictHonest
<1> QED
  BY <1>1, <1>2, <1>3, <1>r, <1>5, <1>6, <1>7, <1>8 DEF ReportNext

(***************************************************************************)
(* However runs overlap and Warehouse changes its mind, monitoring is told *)
(* of a refusal or an acceptance only if there was one during the run, or  *)
(* the probe was redirected and another page gave the answer.              *)
(***************************************************************************)
THEOREM VerdictsHonest == ReportSpec => []VerdictHonest
<1>1. ReportInit => ReportInvariant
  BY DEF ReportInit, ReportInvariant, RunOK, VerdictHonest
<1>2. ReportInvariant /\ [ReportNext]_reportVars => ReportInvariant'
  BY ReportStep
<1>3. ReportInvariant => VerdictHonest
  BY DEF ReportInvariant
<1> QED
  BY <1>1, <1>2, <1>3, PTL DEF ReportSpec

-----------------------------------------------------------------------------

(***************************************************************************)
(* The administrators' console.                                            *)
(***************************************************************************)

Bearer == Tokens \cup {NoToken}

Selection == ConsoleOrders \cup {NoOrder}

Screen ==
    [locked : BOOLEAN, shown : [Panel -> Bearer], selected : Selection,
     heading : {"Locked", "Loading", "Status", "Unavailable"}, detail : Selection,
     detailBy : Bearer]

CallKind == Panel \cup {"detail", "action"}

ConsoleCall == [kind : CallKind, order : Selection, token : Bearer, newest : BOOLEAN]

ConsoleTypeOK ==
    /\ session \in [token : Bearer, nonce : Nat]
    /\ screen \in Screen
    /\ calls \subseteq ConsoleCall
    /\ signIns \in Seq({"open", "used", "abandoned"})

\* A click whose answer may still be drawn rightly asked for the selected order.
CallsAreOwn ==
    \A c \in calls :
        c.kind = "detail" /\ c.newest /\ c.token = session.token /\ c.token # NoToken =>
            c.order = screen.selected

\* The nonce the tab remembers is that of a sign-in still open.
NonceIsOpen ==
    session.nonce # 0 => session.nonce \in DOMAIN signIns /\ signIns[session.nonce] = "open"

ConsoleInvariant == ConsoleTypeOK /\ (~late => CallsAreOwn /\ ScreenIsOwn) /\ NonceIsOpen

\* The token that enters comes back from an open sign-in.
SignInReturns ==
    session'.token \notin {NoToken, session.token} =>
        \E n \in DOMAIN signIns : signIns[n] = "open" /\ signIns'[n] = "used"

LEMMA EmptyScreenIsScreen ==
    /\ EmptyScreen \in Screen
    /\ EmptyScreen.shown = [p \in Panel |-> NoToken]
    /\ EmptyScreen.selected = NoOrder /\ EmptyScreen.heading = "Locked"
    /\ EmptyScreen.detail = NoOrder /\ EmptyScreen.detailBy = NoToken
BY DEF EmptyScreen, Screen, Bearer, Selection

LEMMA CallIsCall ==
    ASSUME ConsoleTypeOK, NEW kind \in CallKind
    PROVE  /\ Call(kind) \in ConsoleCall
           /\ Call(kind).kind = kind /\ Call(kind).token = session.token
BY DEF Call, ConsoleCall, ConsoleTypeOK, Selection

\* A cleared screen shows nothing of anyone.
LEMMA EmptyIsOwn ==
    ASSUME NEW s \in Screen, s.shown = [p \in Panel |-> NoToken], s.heading = "Locked",
           s.detailBy = NoToken, screen' = s
    PROVE  ScreenIsOwn'
BY DEF ScreenIsOwn, Screen, Panel

\* Loading the page forgets the screen and every request of the page before.
LEMMA LoadPageOwn ==
    ASSUME ConsoleTypeOK, NEW token \in Bearer, NEW locked \in BOOLEAN, LoadPage(token, locked)
    PROVE  screen' \in Screen /\ calls' \subseteq ConsoleCall /\ CallsAreOwn' /\ ScreenIsOwn'
<1> DEFINE empty == [EmptyScreen EXCEPT !.locked = locked]
           rows == [Call("rows") EXCEPT !.token = token]
<1>1. /\ empty \in Screen /\ empty.shown = [p \in Panel |-> NoToken]
      /\ empty.heading = "Locked" /\ empty.detailBy = NoToken
  BY EmptyScreenIsScreen DEF Screen
<1>2. Call("rows") \in ConsoleCall /\ Call("rows").kind = "rows"
  BY CallIsCall DEF CallKind, Panel
<1>3. rows \in ConsoleCall /\ rows.kind = "rows"
  BY <1>2 DEF ConsoleCall
<1>4. screen' = empty /\ calls' \subseteq {rows}
  BY DEF LoadPage
<1> HIDE DEF empty, rows
<1>5. ScreenIsOwn'
  BY <1>1, <1>4, EmptyIsOwn
<1> QED
  BY <1>1, <1>3, <1>4, <1>5 DEF CallsAreOwn

\* Only "open" sign-ins are closed, and none is opened again.
LEMMA SignInStep ==
    ASSUME ConsoleInvariant, SignIn
    PROVE  ConsoleInvariant' /\ SignInReturns
<1> DEFINE closed == [n \in DOMAIN signIns |->
                        IF signIns[n] = "open" THEN "abandoned" ELSE signIns[n]]
<1>1. closed \in Seq({"open", "used", "abandoned"}) /\ Len(closed) = Len(signIns)
  BY DEF ConsoleInvariant, ConsoleTypeOK
<1>2. /\ signIns' = Append(closed, "open")
      /\ session' = [session EXCEPT !.nonce = Len(signIns) + 1]
      /\ LoadPage(NoToken, TRUE)
  BY DEF SignIn
<1> HIDE DEF closed
<1>3. /\ signIns' \in Seq({"open", "used", "abandoned"})
      /\ Len(signIns) + 1 \in DOMAIN signIns' /\ signIns'[Len(signIns) + 1] = "open"
  BY <1>1, <1>2 DEF ConsoleInvariant, ConsoleTypeOK
<1>4. /\ session' \in [token : Bearer, nonce : Nat]
      /\ session'.nonce = Len(signIns) + 1 /\ session'.token = session.token
  BY <1>2 DEF ConsoleInvariant, ConsoleTypeOK
<1>5. screen' \in Screen /\ calls' \subseteq ConsoleCall /\ CallsAreOwn' /\ ScreenIsOwn'
  BY <1>2, LoadPageOwn DEF ConsoleInvariant, Bearer
<1> QED
  BY <1>3, <1>4, <1>5 DEF ConsoleInvariant, ConsoleTypeOK, NonceIsOpen, SignInReturns

\* A fragment is accepted for the open sign-in only, and uses it up.
LEMMA OpenStep ==
    ASSUME ConsoleInvariant, OpenWithFragment
    PROVE  ConsoleInvariant' /\ SignInReturns
<1>1. PICK token \in Tokens \cup {NoToken}, returned \in 0..MaxSignIns + 1 :
          LET accepted == FragmentMatches(token, returned, session.nonce)
          IN  /\ session' = [token |-> IF accepted THEN token ELSE session.token, nonce |-> 0]
              /\ signIns' = [n \in DOMAIN signIns |->
                               IF accepted /\ n = returned THEN "used"
                               ELSE IF signIns[n] = "open" THEN "abandoned" ELSE signIns[n]]
              /\ LoadPage(session'.token, ~accepted)
  BY DEF OpenWithFragment
<1> DEFINE accepted == FragmentMatches(token, returned, session.nonce)
<1>2. signIns' \in Seq({"open", "used", "abandoned"})
  BY <1>1 DEF ConsoleInvariant, ConsoleTypeOK
<1>3. /\ session' \in [token : Bearer, nonce : Nat] /\ session'.nonce = 0
      /\ session'.token = IF accepted THEN token ELSE session.token
  BY <1>1 DEF ConsoleInvariant, ConsoleTypeOK, Bearer
<1>4. screen' \in Screen /\ calls' \subseteq ConsoleCall /\ CallsAreOwn' /\ ScreenIsOwn'
  BY <1>1, <1>3, LoadPageOwn DEF ConsoleInvariant
<1>5. SignInReturns
  <2> SUFFICES ASSUME session'.token # session.token
               PROVE  \E n \in DOMAIN signIns : signIns[n] = "open" /\ signIns'[n] = "used"
    BY DEF SignInReturns
  <2>1. accepted
    BY <1>3
  <2>2. session.nonce # 0 /\ returned = session.nonce
    BY <2>1 DEF FragmentMatches
  <2>3. returned \in DOMAIN signIns /\ signIns[returned] = "open"
    BY <2>2 DEF ConsoleInvariant, NonceIsOpen
  <2> QED
    BY <1>1, <2>1, <2>3
<1> QED
  BY <1>2, <1>3, <1>4, <1>5 DEF ConsoleInvariant, ConsoleTypeOK, NonceIsOpen

LEMMA ReloadStep ==
    ASSUME ConsoleInvariant, Reload
    PROVE  ConsoleInvariant' /\ SignInReturns
<1>1. LoadPage(session.token, session.token = NoToken) /\ UNCHANGED <<session, signIns>>
  BY DEF Reload
<1>2. session.token \in Bearer
  BY DEF ConsoleInvariant, ConsoleTypeOK
<1>3. screen' \in Screen /\ calls' \subseteq ConsoleCall /\ CallsAreOwn' /\ ScreenIsOwn'
  BY <1>1, <1>2, LoadPageOwn DEF ConsoleInvariant
<1> QED
  BY <1>1, <1>3 DEF ConsoleInvariant, ConsoleTypeOK, NonceIsOpen, SignInReturns

\* After the token was cleared no answer on its way is of the token held.
LEMMA ClearStep ==
    ASSUME ConsoleInvariant, ClearToken
    PROVE  ConsoleInvariant' /\ SignInReturns
<1>1. session' \in [token : Bearer, nonce : Nat] /\ session'.token = NoToken /\ session'.nonce = 0
  BY DEF ClearToken, Bearer
<1>2. signIns' \in Seq({"open", "used", "abandoned"})
  BY DEF ClearToken, ConsoleInvariant, ConsoleTypeOK
<1>3. screen' = EmptyScreen /\ UNCHANGED <<calls, late>>
  BY DEF ClearToken
<1>4. screen' \in Screen /\ ScreenIsOwn'
  BY <1>3, EmptyScreenIsScreen, EmptyIsOwn
<1>5. CallsAreOwn'
  BY <1>1, <1>3 DEF CallsAreOwn
<1> QED
  BY <1>1, <1>2, <1>3, <1>4, <1>5 DEF ConsoleInvariant, ConsoleTypeOK, NonceIsOpen, SignInReturns

-----------------------------------------------------------------------------

\* The other steps leave the sign-ins alone: the screen and the calls are all
\* there is to show.
LEMMA SameSession ==
    ASSUME ConsoleInvariant, UNCHANGED <<session, signIns>>, screen' \in Screen,
           calls' \subseteq ConsoleCall, ~late' => CallsAreOwn' /\ ScreenIsOwn'
    PROVE  ConsoleInvariant' /\ SignInReturns
BY DEF ConsoleInvariant, ConsoleTypeOK, NonceIsOpen, SignInReturns

\* A new request that is no detail, on the same selection.
LEMMA AskedBeside ==
    ASSUME CallsAreOwn, NEW asked, \A c \in asked : c.kind # "detail",
           calls' \subseteq calls \cup asked, UNCHANGED session,
           screen'.selected = screen.selected
    PROVE  CallsAreOwn'
BY DEF CallsAreOwn

\* Locking the page changes nothing it shows.
LEMMA Locking ==
    ASSUME ConsoleInvariant, screen' \in {screen, [screen EXCEPT !.locked = TRUE]},
           UNCHANGED session, late => late'
    PROVE  /\ screen' \in Screen /\ screen'.selected = screen.selected
           /\ ScreenIsOwn'
<1>1. /\ screen' \in Screen /\ screen'.selected = screen.selected
      /\ screen'.shown = screen.shown /\ screen'.heading = screen.heading
      /\ screen'.detail = screen.detail /\ screen'.detailBy = screen.detailBy
  BY DEF ConsoleInvariant, ConsoleTypeOK, Screen
<1> QED
  BY <1>1 DEF ConsoleInvariant, ScreenIsOwn

LEMMA AskStep ==
    ASSUME ConsoleInvariant, LoadDashboard \/ AskPanel
    PROVE  ConsoleInvariant' /\ SignInReturns
<1>1. PICK kind \in {"rows", "diagnosis", "action"} :
          /\ calls' \subseteq calls \cup {Call(kind)}
          /\ screen' \in {screen, [screen EXCEPT !.locked = TRUE]}
  BY DEF LoadDashboard, AskPanel
<1>2. Call(kind) \in ConsoleCall /\ Call(kind).kind # "detail"
  BY CallIsCall DEF ConsoleInvariant, CallKind, Panel
<1>3. UNCHANGED <<session, signIns, late>>
  BY DEF LoadDashboard, AskPanel
<1>4. /\ screen' \in Screen /\ screen'.selected = screen.selected
      /\ ScreenIsOwn'
  BY <1>1, <1>3, Locking
<1>5. CallsAreOwn => CallsAreOwn'
  BY <1>1, <1>2, <1>3, <1>4 DEF CallsAreOwn
<1>6. calls' \subseteq ConsoleCall
  BY <1>1, <1>2 DEF ConsoleInvariant, ConsoleTypeOK
<1> QED
  BY <1>3, <1>4, <1>5, <1>6, SameSession DEF ConsoleInvariant

\* A click on a row selects the order and overtakes the clicks before.
LEMMA DetailStep ==
    ASSUME ConsoleInvariant, LoadDetail
    PROVE  ConsoleInvariant' /\ SignInReturns
<1>1. PICK o \in ConsoleOrders :
          /\ screen' = Chosen(o)
          /\ calls' = {[c EXCEPT !.newest = c.newest /\ c.kind # "detail"] : c \in calls}
                        \cup {[Call("detail") EXCEPT !.order = o]}
  BY DEF LoadDetail
<1>2. UNCHANGED <<session, signIns, late>>
  BY DEF LoadDetail
<1>3. /\ screen' \in Screen /\ screen'.selected = o /\ screen'.heading = "Loading"
      /\ screen'.shown = screen.shown /\ screen'.detailBy = screen.detailBy
  BY <1>1 DEF Chosen, ConsoleInvariant, ConsoleTypeOK, Screen, Selection
<1>4. ScreenIsOwn => ScreenIsOwn'
  BY <1>2, <1>3 DEF ScreenIsOwn
<1>5. /\ [Call("detail") EXCEPT !.order = o] \in ConsoleCall
      /\ [Call("detail") EXCEPT !.order = o].order = o
  <2>1. Call("detail") \in ConsoleCall
    BY CallIsCall DEF ConsoleInvariant, CallKind
  <2> QED
    BY <2>1 DEF ConsoleCall, Selection
<1>6. ASSUME NEW c \in calls
      PROVE  LET older == [c EXCEPT !.newest = c.newest /\ c.kind # "detail"]
             IN  older \in ConsoleCall /\ ~(older.kind = "detail" /\ older.newest)
  <2>1. c \in ConsoleCall
    BY DEF ConsoleInvariant, ConsoleTypeOK
  <2> QED
    BY <2>1 DEF ConsoleCall
<1>7. calls' \subseteq ConsoleCall
  BY <1>1, <1>5, <1>6
<1>8. CallsAreOwn'
  BY <1>1, <1>3, <1>5, <1>6 DEF CallsAreOwn
<1> QED
  BY <1>2, <1>3, <1>4, <1>7, <1>8, SameSession DEF ConsoleInvariant

-----------------------------------------------------------------------------

\* An answer that nothing has overtaken came with the token the tab holds.
LEMMA SucceedsInTime ==
    ASSUME ConsoleInvariant, NEW c, Succeeds(c)
    PROVE  /\ c \in calls /\ c \in ConsoleCall
           /\ UNCHANGED <<session, signIns>>
           /\ late => late'
           /\ ~late' => c.token = session.token /\ c.newest
           /\ c.token \in Tokens
BY ConsoleAssumption DEF Succeeds, Overtaken, ConsoleInvariant, ConsoleTypeOK

\* A panel drawn with the token held, or emptied, keeps the page the tab's own.
LEMMA PanelDrawn ==
    ASSUME ConsoleInvariant, UNCHANGED session, late => late', NEW panel \in Panel,
           NEW token \in Bearer, ~late' => token \in {NoToken, session.token},
           panel = "actions" => token \in Actors \cup {NoToken},
           screen' \in Screen, screen'.shown = [screen.shown EXCEPT ![panel] = token],
           screen'.selected = screen.selected, screen'.heading = screen.heading,
           screen'.detail = screen.detail, screen'.detailBy = screen.detailBy
    PROVE  ~late' => ScreenIsOwn'
<1> SUFFICES ASSUME ~late'
             PROVE  ScreenIsOwn'
  OBVIOUS
<1>1. screen.shown \in [Panel -> Bearer]
  BY DEF ConsoleInvariant, ConsoleTypeOK, Screen
<1>2. \A p \in Panel : screen'.shown[p] = IF p = panel THEN token ELSE screen.shown[p]
  BY <1>1
<1>3. ScreenIsOwn /\ ~late
  BY DEF ConsoleInvariant
<1>4. "actions" \in Panel
  BY DEF Panel
<1> QED
  BY <1>2, <1>3, <1>4 DEF ScreenIsOwn

LEMMA ArriveStep ==
    ASSUME ConsoleInvariant, NEW c, RowsArrive(c) \/ PanelArrives(c) \/ CatalogArrives(c)
    PROVE  ConsoleInvariant' /\ SignInReturns
<1>1. /\ c \in calls /\ c \in ConsoleCall /\ UNCHANGED <<session, signIns>>
      /\ late => late'
      /\ ~late' => c.token = session.token
      /\ c.token \in Tokens
  BY SucceedsInTime DEF RowsArrive, PanelArrives, CatalogArrives
<1>2. Call("operations") \in ConsoleCall /\ Call("operations").kind = "operations"
  BY CallIsCall DEF ConsoleInvariant, CallKind, Panel
<1>3. Call("actions") \in ConsoleCall /\ Call("actions").kind = "actions"
  BY CallIsCall DEF ConsoleInvariant, CallKind, Panel
<1>4. calls' \subseteq calls \cup {Call("operations"), Call("actions")}
  BY DEF RowsArrive, PanelArrives, CatalogArrives
<1> DEFINE panel == c.kind
           token == IF c.kind = "actions" /\ c.token \notin Actors THEN NoToken ELSE c.token
<1>5. panel \in Panel
  BY DEF RowsArrive, PanelArrives, CatalogArrives, Panel
<1>6. token \in Bearer /\ (~late' => token \in {NoToken, session.token})
      /\ (panel = "actions" => token \in Actors \cup {NoToken})
  BY <1>1 DEF Bearer
<1>7. PICK locked \in BOOLEAN :
          screen' = [screen EXCEPT !.locked = locked, !.shown[panel] = token]
  <2>1. screen \in Screen
    BY DEF ConsoleInvariant, ConsoleTypeOK
  <2>2. CASE RowsArrive(c)
    BY <2>2 DEF RowsArrive
  <2>3. CASE PanelArrives(c) \/ CatalogArrives(c)
    <3>1. screen' = [screen EXCEPT !.shown[panel] = token]
      BY <2>3 DEF PanelArrives, CatalogArrives
    <3>2. screen.locked \in BOOLEAN
      BY <2>1 DEF Screen
    <3> QED
      BY <2>1, <3>1, <3>2 DEF Screen
  <2> QED
    BY <2>2, <2>3
<1> HIDE DEF panel, token
<1>8. /\ screen' \in Screen /\ screen'.shown = [screen.shown EXCEPT ![panel] = token]
      /\ screen'.selected = screen.selected /\ screen'.heading = screen.heading
      /\ screen'.detail = screen.detail /\ screen'.detailBy = screen.detailBy
  BY <1>5, <1>6, <1>7 DEF ConsoleInvariant, ConsoleTypeOK, Screen
<1>9. ~late' => ScreenIsOwn'
  BY <1>1, <1>5, <1>6, <1>8, PanelDrawn
<1>10. CallsAreOwn => CallsAreOwn'
  BY <1>1, <1>2, <1>3, <1>4, <1>8, AskedBeside
<1>11. calls' \subseteq ConsoleCall
  BY <1>2, <1>3, <1>4 DEF ConsoleInvariant, ConsoleTypeOK
<1> QED
  BY <1>1, <1>8, <1>9, <1>10, <1>11, SameSession DEF ConsoleInvariant

LEMMA ActionStep ==
    ASSUME ConsoleInvariant, NEW c, ActionDone(c)
    PROVE  ConsoleInvariant' /\ SignInReturns
<1>1. UNCHANGED <<session, signIns>> /\ (late => late')
  BY SucceedsInTime DEF ActionDone
<1>2. Call("rows") \in ConsoleCall /\ Call("rows").kind = "rows"
  BY CallIsCall DEF ConsoleInvariant, CallKind, Panel
<1>3. /\ calls' \subseteq calls \cup {Call("rows")}
      /\ screen' \in {screen, [screen EXCEPT !.locked = TRUE]}
  BY DEF ActionDone
<1>4. /\ screen' \in Screen /\ screen'.selected = screen.selected
      /\ ScreenIsOwn'
  BY <1>1, <1>3, Locking
<1>5. CallsAreOwn => CallsAreOwn'
  BY <1>1, <1>2, <1>3, <1>4, AskedBeside
<1>6. calls' \subseteq ConsoleCall
  BY <1>2, <1>3 DEF ConsoleInvariant, ConsoleTypeOK
<1> QED
  BY <1>1, <1>4, <1>5, <1>6, SameSession DEF ConsoleInvariant

\* The newest detail asked for with the token held is that of the selected order.
LEMMA DetailArrivesStep ==
    ASSUME ConsoleInvariant, NEW c, DetailArrives(c)
    PROVE  ConsoleInvariant' /\ SignInReturns
<1>1. /\ c \in calls /\ c \in ConsoleCall /\ UNCHANGED <<session, signIns>>
      /\ late => late'
      /\ ~late' => c.token = session.token /\ c.newest
      /\ c.token \in Tokens
  BY SucceedsInTime DEF DetailArrives
<1>2. /\ c.kind = "detail"
      /\ screen' = [screen EXCEPT !.heading = "Status", !.detail = c.order, !.detailBy = c.token]
      /\ calls' = calls \ {c}
  BY DEF DetailArrives
<1>3. /\ screen' \in Screen /\ screen'.selected = screen.selected
      /\ screen'.shown = screen.shown /\ screen'.detail = c.order /\ screen'.detailBy = c.token
  BY <1>1, <1>2 DEF ConsoleInvariant, ConsoleTypeOK, Screen, ConsoleCall, Bearer
<1>4. ASSUME ~late'
      PROVE  CallsAreOwn' /\ ScreenIsOwn'
  <2>1. CallsAreOwn /\ ScreenIsOwn /\ ~late
    BY <1>1, <1>4 DEF ConsoleInvariant
  <2>2. c.order = screen.selected
    BY <1>1, <1>2, <1>4, <2>1, ConsoleAssumption DEF CallsAreOwn
  <2> QED
    BY <1>1, <1>2, <1>3, <1>4, <2>1, <2>2 DEF CallsAreOwn, ScreenIsOwn
<1>5. calls' \subseteq ConsoleCall
  BY <1>2 DEF ConsoleInvariant, ConsoleTypeOK
<1> QED
  BY <1>1, <1>3, <1>4, <1>5, SameSession

\* A failure locks the page, empties a panel or says that the detail is unavailable.
LEMMA FailsStep ==
    ASSUME ConsoleInvariant, NEW c, Fails(c)
    PROVE  ConsoleInvariant' /\ SignInReturns
<1>1. /\ c \in calls /\ c \in ConsoleCall /\ UNCHANGED <<session, signIns>>
      /\ late => late'
      /\ calls' = calls \ {c}
  BY DEF Fails, ConsoleInvariant, ConsoleTypeOK
<1>2. screen' \in Screen /\ screen'.selected = screen.selected /\ (~late' => ScreenIsOwn')
  <2>1. CASE c.kind \in {"rows", "action"}
    <3>1. screen' \in {screen, [screen EXCEPT !.locked = TRUE]}
      BY <2>1 DEF Fails
    <3> QED
      BY <1>1, <3>1, Locking
  <2>2. CASE c.kind = "detail"
    <3>1. screen' = [screen EXCEPT !.heading = "Unavailable"]
      BY <2>2 DEF Fails
    <3>2. /\ screen' \in Screen /\ screen'.selected = screen.selected
          /\ screen'.heading = "Unavailable"
          /\ screen'.shown = screen.shown /\ screen'.detailBy = screen.detailBy
      BY <3>1 DEF ConsoleInvariant, ConsoleTypeOK, Screen
    <3> QED
      BY <1>1, <3>2 DEF ConsoleInvariant, ScreenIsOwn
  <2>3. CASE c.kind \notin {"rows", "action", "detail"}
    <3>1. screen' = [screen EXCEPT !.shown[c.kind] = NoToken]
      BY <2>3 DEF Fails
    <3>2. c.kind \in Panel /\ NoToken \in Bearer
      BY <1>1, <2>3 DEF ConsoleCall, CallKind, Bearer
    <3>3. /\ screen' \in Screen /\ screen'.shown = [screen.shown EXCEPT ![c.kind] = NoToken]
          /\ screen'.selected = screen.selected /\ screen'.heading = screen.heading
          /\ screen'.detail = screen.detail /\ screen'.detailBy = screen.detailBy
      BY <3>1, <3>2 DEF ConsoleInvariant, ConsoleTypeOK, Screen
    <3> QED
      BY <1>1, <3>2, <3>3, PanelDrawn
  <2> QED
    BY <2>1, <2>2, <2>3
<1>3. CallsAreOwn => CallsAreOwn'
  BY <1>1, <1>2 DEF CallsAreOwn
<1>4. calls' \subseteq ConsoleCall
  BY <1>1 DEF ConsoleInvariant, ConsoleTypeOK
<1> QED
  BY <1>1, <1>2, <1>3, <1>4, SameSession DEF ConsoleInvariant

LEMMA ConsoleStep ==
    ASSUME ConsoleInvariant, [ConsoleNext]_consoleVars
    PROVE  ConsoleInvariant' /\ SignInReturns
<1>1. CASE UNCHANGED consoleVars
  BY <1>1 DEF consoleVars, ConsoleInvariant, ConsoleTypeOK, CallsAreOwn, ScreenIsOwn, NonceIsOpen,
              SignInReturns
<1> QED
  BY <1>1, SignInStep, OpenStep, ReloadStep, ClearStep, AskStep, DetailStep, ArriveStep,
     ActionStep, DetailArrivesStep, FailsStep DEF ConsoleNext

LEMMA ConsoleHolds == ConsoleSpec => []ConsoleInvariant
<1>1. ConsoleInit => ConsoleInvariant
  <2> SUFFICES ASSUME ConsoleInit
               PROVE  ConsoleInvariant
    OBVIOUS
  <2>1. session \in [token : Bearer, nonce : Nat] /\ session.nonce = 0
    BY DEF ConsoleInit, Bearer
  <2>2. screen \in Screen /\ ScreenIsOwn
    BY EmptyScreenIsScreen DEF ConsoleInit, ScreenIsOwn, Panel
  <2> QED
    BY <2>1, <2>2 DEF ConsoleInit, ConsoleInvariant, ConsoleTypeOK, CallsAreOwn, NonceIsOpen
<1>2. ConsoleInvariant /\ [ConsoleNext]_consoleVars => ConsoleInvariant'
  BY ConsoleStep
<1> QED
  BY <1>1, <1>2, PTL DEF ConsoleSpec

(***************************************************************************)
(* In whatever order answers arrive, the console shows what its tab is     *)
(* signed in for and has selected, unless an answer was overtaken by a     *)
(* newer selection, sign-in or sign-out.                                   *)
(***************************************************************************)
THEOREM ScreenSafe == ConsoleSpec => []ScreenIsOwn
<1>1. ConsoleInvariant => ScreenIsOwn
  BY DEF ConsoleInvariant, ScreenIsOwn
<1> QED
  BY <1>1, ConsoleHolds, PTL

(***************************************************************************)
(* Whatever fragments the page is opened with, a token enters the session  *)
(* by an open sign-in of this tab, which it uses up.                       *)
(***************************************************************************)
THEOREM SessionSafe == ConsoleSpec => SessionIsOwn
<1>1. ConsoleInvariant /\ [ConsoleNext]_consoleVars =>
          [session'.token \notin {NoToken, session.token} =>
              \E n \in DOMAIN signIns : signIns[n] = "open" /\ signIns'[n] = "used"]_consoleVars
  BY ConsoleStep DEF SignInReturns
<1> QED
  BY <1>1, ConsoleHolds, PTL DEF ConsoleSpec, SessionIsOwn

-----------------------------------------------------------------------------

(***************************************************************************)
(* Numbers: a set of them has a least one, and holds all that a step by    *)
(* one reaches.                                                            *)
(***************************************************************************)

LEMMA LeastOf ==
    ASSUME NEW T \in SUBSET Nat, T # {}
    PROVE  \E m \in T : \A x \in T : m <= x
<1> DEFINE R == OpToRel(<, Nat)
<1>1. IsWellFoundedOn(R, Nat)
  BY NatLessThanWellFounded
<1>2. \A x, y \in Nat : x < y => <<x, y>> \in R
  BY DEF OpToRel
<1> HIDE DEF R
<1>3. PICK m \in T : \A x \in T : <<x, m>> \notin R
  BY <1>1, WFMin
<1>4. ASSUME NEW x \in T
      PROVE  m <= x
  <2>1. x \in Nat /\ m \in Nat
    OBVIOUS
  <2>2. ~(x < m)
    BY <1>2, <1>3, <2>1
  <2> QED
    BY <2>1, <2>2
<1> QED
  BY <1>4

LEMMA StepByStep ==
    ASSUME NEW S, NEW n \in Nat, 0 \in S, \A m \in 0 .. n - 1 : m \in S => m + 1 \in S
    PROVE  n \in S
<1> SUFFICES ASSUME n \notin S
             PROVE  FALSE
  OBVIOUS
<1> DEFINE T == {m \in 0 .. n : m \notin S}
<1>1. T \in SUBSET Nat /\ n \in T
  OBVIOUS
<1> HIDE DEF T
<1>2. PICK m \in T : \A x \in T : m <= x
  BY <1>1, LeastOf
<1>3. m \in 0 .. n /\ m \notin S /\ m # 0
  BY DEF T
<1>4. m - 1 \in S
  <2>1. m - 1 \notin T
    BY <1>1, <1>2, <1>3
  <2> QED
    BY <1>3, <2>1 DEF T
<1> QED
  BY <1>3, <1>4

-----------------------------------------------------------------------------

(***************************************************************************)
(* The fulfilment handoff.                                                 *)
(***************************************************************************)

Reserves ==
    /\ paidOrder.enabled
    /\ paidOrder.lines # <<>>
    /\ \A i \in Lines : HasWarehouseId(paidOrder.lines[i])

Own == {r \in DOMAIN reservations : reservations[r].order = "own"}

Fulfilled == {r \in Own : reservations[r].status \in {"fulfilled", "cancelled"}}

AllFulfilled == Reserves /\ Fulfilled = Own

\* Line by line, each with a reservation of its own.
ItemsSound(items) ==
    /\ DOMAIN items = Lines
    /\ \A i \in Lines :
          LET row == reservations[items[i].reservation] IN
          /\ items[i].line = i
          /\ items[i].reservation \in DOMAIN reservations
          /\ row.status \in {"fulfilled", "cancelled"}
          /\ Lifecycle(row) = Lifecycle(ReservePayload(paidOrder.lines[i]))
          /\ row.quantity = paidOrder.lines[i].quantity
          /\ \A k \in Lines \ {i} : items[k].reservation # items[i].reservation

Posted ==
    /\ fulfilmentOrders = <<FulfilmentOrder>>
    /\ handoff.at \in {"requested", "failed"}
    /\ AllFulfilled
    /\ NormalizeDeliveryAddress(paidOrder.address)
    /\ ItemsSound(handoff.lines)

HandoffInvariant ==
    /\ paidOrder \in PaidOrders
    /\ reservations \in Seq(Reservation)
    /\ handoff = [at |-> handoff.at, line |-> handoff.line, found |-> handoff.found,
                  lines |-> handoff.lines]
    /\ Reserves => Own = Lines
    /\ handoff.at = "fulfil" =>
          IF Reserves THEN handoff.line \in Lines /\ Cardinality(Fulfilled) = handoff.line - 1
          ELSE handoff.line = 1
    /\ handoff.at \in {"check", "fetch", "post"} => AllFulfilled
    /\ handoff.at \in {"fetch", "post"} => NormalizeDeliveryAddress(paidOrder.address)
    /\ handoff.at = "post" => ItemsSound(handoff.lines)
    /\ handoff.at = "missing_reservation_id" => ~Pairing(handoff.found)
    /\ fulfilmentOrders = <<>> \/ Posted

LEMMA LinesAreCounted ==
    ASSUME paidOrder \in PaidOrders
    PROVE  /\ paidOrder.lines \in Seq(PaidLine)
           /\ Len(paidOrder.lines) \in Nat
           /\ Lines = 1 .. Len(paidOrder.lines)
           /\ IsFiniteSet(Lines)
           /\ Cardinality(Lines) = Len(paidOrder.lines)
<1>1. paidOrder.lines \in Seq(PaidLine)
  BY HandoffAssumption
<1>2. Len(paidOrder.lines) \in Nat /\ Lines = 1 .. Len(paidOrder.lines)
  BY <1>1, LenProperties DEF Lines
<1> QED
  BY <1>1, <1>2, FS_Interval

-----------------------------------------------------------------------------

(***************************************************************************)
(* buildFulfillmentLines.                                                  *)
(***************************************************************************)

\* A listing of Warehouse's rows.
Listing(found) ==
    /\ DOMAIN found \subseteq Nat
    /\ \A j \in DOMAIN found :
          found[j].id \in DOMAIN reservations /\ found[j].row = reservations[found[j].id]
    /\ \A j, k \in DOMAIN found : found[j].id = found[k].id => j = k

LEMMA FirstIsOne ==
    ASSUME NEW places \in SUBSET Nat, places # {}
    PROVE  First(places) \in places
BY LeastOf DEF First

\* What a line takes depends on what those before it took.
LEMMA TakeLooksBack ==
    ASSUME NEW found, NEW f, NEW g, NEW i, \A k \in 1 .. i - 1 : f[k] = g[k]
    PROVE  Take(found, f, i) = Take(found, g, i)
<1>1. {f[k] : k \in 1 .. i - 1} = {g[k] : k \in 1 .. i - 1}
  OBVIOUS
<1> QED
  BY <1>1 DEF Take

LEMMA TakenIsTaken ==
    ASSUME NEW found, paidOrder \in PaidOrders
    PROVE  \A i \in Lines : Taken(found)[i] = Take(found, Taken(found), i)
<1> DEFINE last == Len(paidOrder.lines)
           Upto(g, n) == g = [i \in 1 .. n |-> Take(found, g, i)]
           S == {n \in Nat : \E g : Upto(g, n)}
<1>1. last \in Nat /\ Lines = 1 .. last
  BY LinesAreCounted
<1> HIDE DEF last
<1>2. 0 \in S
  <2> DEFINE g == [i \in 1 .. 0 |-> 0]
  <2>1. g = [i \in 1 .. 0 |-> Take(found, g, i)]
    OBVIOUS
  <2> QED
    BY <2>1
<1>3. ASSUME NEW n \in 0 .. last - 1, n \in S
      PROVE  n + 1 \in S
  <2>1. PICK g : Upto(g, n)
    BY <1>3
  <2> DEFINE h == [i \in 1 .. n + 1 |-> Take(found, g, i)]
  <2>2. ASSUME NEW i \in 1 .. n + 1
        PROVE  Take(found, g, i) = Take(found, h, i)
    <3>1. \A k \in 1 .. i - 1 : g[k] = h[k]
      BY <2>1, <1>1
    <3> HIDE DEF h
    <3> QED
      BY <3>1, TakeLooksBack
  <2>3. h = [i \in 1 .. n + 1 |-> Take(found, h, i)]
    BY <2>2
  <2> HIDE DEF h
  <2> QED
    BY <1>1, <2>3
<1>4. last \in S
  <2> HIDE DEF S
  <2> QED
    BY <1>1, <1>2, <1>3, StepByStep
<1>5. \E g : g = [i \in Lines |-> Take(found, g, i)]
  BY <1>1, <1>4
<1>6. Taken(found) = [i \in Lines |-> Take(found, Taken(found), i)]
  BY <1>5 DEF Taken, Lines
<1> QED
  BY <1>6

\* The reservations taken are listed, like their lines, and taken once.
LEMMA TakenIsSound ==
    ASSUME NEW found, Listing(found), paidOrder \in PaidOrders, NEW i \in Lines,
           Taken(found)[i] # 0
    PROVE  /\ \E j \in DOMAIN found : /\ found[j].id = Taken(found)[i]
                                      /\ Pairs(found[j].row, paidOrder.lines[i])
           /\ \A k \in 1 .. i - 1 : Taken(found)[k] # Taken(found)[i]
<1> DEFINE taken == Taken(found)
           used == {taken[k] : k \in 1 .. i - 1}
           free == {j \in DOMAIN found : /\ found[j].id \notin used
                                         /\ Pairs(found[j].row, paidOrder.lines[i])}
<1>1. taken[i] = Take(found, taken, i)
  BY TakenIsTaken
<1> HIDE DEF taken
<1>2. taken[i] = IF free = {} THEN 0 ELSE found[First(free)].id
  BY <1>1 DEF Take
<1>3. free # {} /\ taken[i] = found[First(free)].id
  BY <1>2 DEF taken
<1>4. free \in SUBSET Nat
  BY DEF Listing
<1>5. First(free) \in free
  <2> HIDE DEF free
  <2> QED
    BY <1>3, <1>4, FirstIsOne
<1> QED
  BY <1>3, <1>5 DEF taken

\* A line is left without one only when every one like it was taken before.
LEMMA TakenIsComplete ==
    ASSUME NEW found, Listing(found), paidOrder \in PaidOrders, NEW i \in Lines,
           Taken(found)[i] = 0, \A j \in DOMAIN found : found[j].id # 0,
           NEW j \in DOMAIN found, Pairs(found[j].row, paidOrder.lines[i])
    PROVE  \E k \in 1 .. i - 1 : Taken(found)[k] = found[j].id
<1> DEFINE taken == Taken(found)
           used == {taken[k] : k \in 1 .. i - 1}
           free == {m \in DOMAIN found : /\ found[m].id \notin used
                                         /\ Pairs(found[m].row, paidOrder.lines[i])}
<1>1. taken[i] = Take(found, taken, i)
  BY TakenIsTaken
<1> HIDE DEF taken
<1>2. taken[i] = IF free = {} THEN 0 ELSE found[First(free)].id
  BY <1>1 DEF Take
<1>3. free \in SUBSET Nat
  BY DEF Listing
<1>4. free # {} => First(free) \in free
  <2> HIDE DEF free
  <2> QED
    BY <1>3, FirstIsOne
<1>5. free = {}
  BY <1>2, <1>4 DEF taken
<1> QED
  BY <1>5 DEF taken

\* If one is left without, no pairing serves all lines.
LEMMA NoPairing ==
    ASSUME NEW found, Listing(found), paidOrder \in PaidOrders, NEW i \in Lines,
           Taken(found)[i] = 0, \A j \in DOMAIN found : found[j].id # 0
    PROVE  ~Pairing(found)
<1> SUFFICES ASSUME Pairing(found)
             PROVE  FALSE
  OBVIOUS
<1>0. i \in 1 .. Len(paidOrder.lines) /\ Len(paidOrder.lines) \in Nat
      /\ Lines = 1 .. Len(paidOrder.lines) /\ IsFiniteSet(Lines)
  BY LinesAreCounted
<1>1. PICK pick \in [Lines -> DOMAIN found] :
         /\ \A k, l \in Lines : k # l => pick[k] # pick[l]
         /\ \A l \in Lines : Pairs(found[pick[l]].row, paidOrder.lines[l])
  BY DEF Pairing
<1> DEFINE taken == Taken(found)
           Like == {l \in Lines : \A j \in DOMAIN found :
                       Pairs(found[j].row, paidOrder.lines[l])
                           <=> Pairs(found[j].row, paidOrder.lines[i])}
<1>2. i \in Like /\ IsFiniteSet(Like)
  <2>1. Like \in SUBSET Lines
    OBVIOUS
  <2> HIDE DEF Like
  <2>2. IsFiniteSet(Like)
    BY <1>0, <2>1, FS_Subset
  <2> QED
    BY <2>2 DEF Like
<1>3. ASSUME NEW l \in Like
      PROVE  \E k \in Like \ {i} : taken[k] = found[pick[l]].id
  <2>1. pick[l] \in DOMAIN found /\ Pairs(found[pick[l]].row, paidOrder.lines[i])
    BY <1>1
  <2>2. PICK k \in 1 .. i - 1 : taken[k] = found[pick[l]].id
    BY <2>1, TakenIsComplete
  <2>3. k \in Lines /\ k # i
    BY <1>0
  <2>4. PICK j \in DOMAIN found : /\ found[j].id = taken[k]
                                  /\ Pairs(found[j].row, paidOrder.lines[k])
    BY <2>1, <2>2, <2>3, TakenIsSound
  <2>5. j = pick[l]
    BY <2>1, <2>2, <2>4 DEF Listing
  <2>6. k \in Like
    BY <2>1, <2>3, <2>4, <2>5 DEF Pairs
  <2> QED
    BY <2>2, <2>3, <2>6
<1> HIDE DEF Like, taken
<1> DEFINE f == [l \in Like |-> CHOOSE k \in Like \ {i} : taken[k] = found[pick[l]].id]
<1>4. f \in [Like -> Like \ {i}] /\ \A l \in Like : taken[f[l]] = found[pick[l]].id
  <2>1. ASSUME NEW l \in Like
        PROVE  f[l] \in Like \ {i} /\ taken[f[l]] = found[pick[l]].id
    <3>1. PICK k \in Like \ {i} : taken[k] = found[pick[l]].id
      BY <1>3
    <3>2. f[l] = CHOOSE m \in Like \ {i} : taken[m] = found[pick[l]].id
      OBVIOUS
    <3> HIDE DEF f
    <3> QED
      BY <3>1, <3>2
  <2>2. f = [l \in Like |-> f[l]]
    OBVIOUS
  <2> HIDE DEF f
  <2> QED
    BY <2>1, <2>2
<1> HIDE DEF f
<1>5. IsFiniteSet(Like \ {i}) /\ Cardinality(Like \ {i}) < Cardinality(Like)
  <2>1. Cardinality(Like) \in Nat
    BY <1>2, FS_CardinalityType
  <2>2. IsFiniteSet(Like \ {i}) /\ Cardinality(Like \ {i}) = Cardinality(Like) - 1
    BY <1>2, FS_RemoveElement
  <2> QED
    BY <2>1, <2>2
<1>6. PICK x, y \in Like : x # y /\ f[x] = f[y]
  BY <1>2, <1>4, <1>5, FS_PigeonHole
<1>7. x \in Lines /\ y \in Lines
  BY DEF Like
<1>8. found[pick[x]].id = found[pick[y]].id
  BY <1>4, <1>6
<1>9. pick[x] = pick[y]
  BY <1>1, <1>7, <1>8 DEF Listing
<1> QED
  BY <1>1, <1>6, <1>7, <1>9

-----------------------------------------------------------------------------

(***************************************************************************)
(* The invariant.                                                          *)
(***************************************************************************)

\* At payment each line has its reservation, and nothing is fulfilled yet.
LEMMA HandoffInitInvariant == HandoffInit => HandoffInvariant
<1> SUFFICES ASSUME HandoffInit
             PROVE  HandoffInvariant
  OBVIOUS
<1> DEFINE made == [i \in DOMAIN paidOrder.lines |-> ReservePayload(paidOrder.lines[i])]
           n == Len(paidOrder.lines)
<1>1. /\ paidOrder \in PaidOrders
      /\ reservations = IF paidOrder.enabled
                           /\ \A i \in DOMAIN paidOrder.lines : HasWarehouseId(paidOrder.lines[i])
                        THEN made \o StrayReservations ELSE StrayReservations
      /\ handoff = [at |-> "fulfil", line |-> 1, found |-> <<>>, lines |-> <<>>]
      /\ fulfilmentOrders = <<>>
  BY DEF HandoffInit
<1>2. /\ paidOrder.lines \in Seq(PaidLine)
      /\ n \in Nat
      /\ Lines = 1 .. n
      /\ DOMAIN paidOrder.lines = 1 .. n
      /\ \A i \in 1 .. n : paidOrder.lines[i] \in PaidLine
  BY <1>1, LinesAreCounted, ElementOfSeq DEF Lines
<1>3. \A i \in 1 .. n : ReservePayload(paidOrder.lines[i]) \in Reservation
  BY <1>2 DEF ReservePayload, Reservation, PaidLine
<1>4. made \in Seq(Reservation) /\ Len(made) = n
  <2>1. made \in [1 .. n -> Reservation]
    BY <1>2, <1>3
  <2> HIDE DEF made, n
  <2> QED
    BY <1>2, <2>1
<1>5. \A i \in 1 .. n : made[i].order = "own" /\ made[i].status = "reserved"
  BY <1>2 DEF ReservePayload
<1>6. /\ StrayReservations \in Seq(Reservation)
      /\ Len(StrayReservations) \in Nat
      /\ \A i \in 1 .. Len(StrayReservations) : StrayReservations[i].order = "other"
  <2>1. StrayReservations \in Seq(Reservation)
    BY HandoffAssumption
  <2>2. /\ Len(StrayReservations) \in Nat
        /\ DOMAIN StrayReservations = 1 .. Len(StrayReservations)
    BY <2>1, LenProperties
  <2> QED
    BY <2>1, <2>2, HandoffAssumption
<1> HIDE DEF made, n
<1> DEFINE all == made \o StrayReservations
<1>7. /\ all \in Seq(Reservation)
      /\ Len(all) = n + Len(StrayReservations)
      /\ \A i \in 1 .. n + Len(StrayReservations) :
            all[i] = IF i <= n THEN made[i] ELSE StrayReservations[i - n]
  BY <1>4, <1>6, ConcatProperties
<1> HIDE DEF all
<1>8. reservations \in Seq(Reservation)
  BY <1>1, <1>6, <1>7 DEF all
<1>9. Reserves => Own = Lines /\ \A r \in Own : reservations[r].status = "reserved"
  <2> SUFFICES ASSUME Reserves
               PROVE  Own = Lines /\ \A r \in Own : reservations[r].status = "reserved"
    OBVIOUS
  <2>1. reservations = all
    BY <1>1 DEF Reserves, Lines, all
  <2>2. DOMAIN reservations = 1 .. n + Len(StrayReservations)
    BY <1>7, <2>1, LenProperties
  <2>3. \A i \in 1 .. n : reservations[i].order = "own" /\ reservations[i].status = "reserved"
    BY <1>2, <1>5, <1>6, <1>7, <2>1
  <2>4. ASSUME NEW i \in 1 .. n + Len(StrayReservations), i \notin 1 .. n
        PROVE  reservations[i].order # "own"
    <3>1. i - n \in 1 .. Len(StrayReservations)
      BY <1>2, <1>6, <2>4
    <3> QED
      BY <1>2, <1>6, <1>7, <2>1, <2>4, <3>1
  <2>5. Own = 1 .. n
    BY <1>2, <1>6, <2>2, <2>3, <2>4 DEF Own
  <2> QED
    BY <1>2, <2>3, <2>5
<1>10. Reserves => handoff.line \in Lines /\ Cardinality(Fulfilled) = handoff.line - 1
  <2> SUFFICES ASSUME Reserves
               PROVE  1 \in Lines /\ Cardinality(Fulfilled) = 0
    BY <1>1
  <2>1. Fulfilled = {}
    BY <1>9 DEF Fulfilled
  <2>2. n # 0
    BY <1>2 DEF Reserves, n
  <2> QED
    BY <1>2, <2>1, <2>2, FS_EmptySet
<1> QED
  BY <1>1, <1>8, <1>9, <1>10 DEF HandoffInvariant

\* A row moves on: what it is for stays, a handled one stays handled.
Moved(r, status) ==
    /\ r \in DOMAIN reservations
    /\ reservations' = [reservations EXCEPT ![r].status = status]

\* Rows that differ in their status only.
Same(row, old) ==
    /\ row.order = old.order
    /\ row.product = old.product
    /\ row.warehouse = old.warehouse
    /\ row.quantity = old.quantity

LEMMA RowMoves ==
    ASSUME reservations \in Seq(Reservation), NEW r, NEW status, Moved(r, status),
           status \in {"fulfilled", "expired", "cancelled"}
    PROVE  /\ reservations' \in Seq(Reservation)
           /\ DOMAIN reservations' = DOMAIN reservations
           /\ \A q \in DOMAIN reservations :
                 /\ Same(reservations'[q], reservations[q])
                 /\ reservations'[q].status = IF q = r THEN status ELSE reservations[q].status
           /\ Own' = Own
<1> DEFINE row == [reservations[r] EXCEPT !.status = status]
<1>1. Len(reservations) \in Nat /\ DOMAIN reservations = 1 .. Len(reservations)
      /\ \A q \in DOMAIN reservations : reservations[q] \in Reservation
  BY LenProperties, ElementOfSeq
<1>2. r \in DOMAIN reservations /\ reservations' = [reservations EXCEPT ![r] = row]
  BY DEF Moved
<1>3. /\ row \in Reservation
      /\ row.status = status
      /\ Same(row, reservations[r])
  BY <1>1, <1>2 DEF Reservation, Same
<1> HIDE DEF row
<1>4. /\ reservations' \in Seq(Reservation)
      /\ Len(reservations') = Len(reservations)
      /\ \A q \in 1 .. Len(reservations) : reservations'[q] = IF q = r THEN row ELSE reservations[q]
  BY <1>1, <1>2, <1>3, ExceptSeq
<1>5. DOMAIN reservations' = DOMAIN reservations
  BY <1>2
<1>6. \A q \in DOMAIN reservations :
         /\ Same(reservations'[q], reservations[q])
         /\ reservations'[q].status = IF q = r THEN status ELSE reservations[q].status
  BY <1>1, <1>3, <1>4 DEF Same
<1>7. Own' = Own
  BY <1>5, <1>6 DEF Own, Same
<1> QED
  BY <1>4, <1>5, <1>6, <1>7

\* Outside the loop Warehouse moves rows that are settled or were never fulfilled.
LEMMA LapseStep ==
    ASSUME HandoffInvariant, Lapse
    PROVE  HandoffInvariant'
<1>1. PICK r \in DOMAIN reservations :
         /\ Moved(r, IF reservations[r].status = "reserved" THEN "expired" ELSE "cancelled")
         /\ reservations[r].status \in {"reserved", "fulfilled"}
  BY DEF Lapse, Moved
<1> DEFINE status == IF reservations[r].status = "reserved" THEN "expired" ELSE "cancelled"
<1>2. /\ reservations' \in Seq(Reservation)
      /\ DOMAIN reservations' = DOMAIN reservations
      /\ \A q \in DOMAIN reservations :
            /\ Same(reservations'[q], reservations[q])
            /\ reservations'[q].status = IF q = r THEN status ELSE reservations[q].status
      /\ Own' = Own
  BY <1>1, RowMoves DEF HandoffInvariant
<1>3. UNCHANGED <<paidOrder, handoff, fulfilmentOrders>>
  BY DEF Lapse
<1>4. \A q \in DOMAIN reservations :
         reservations'[q].status \in {"fulfilled", "cancelled"}
             <=> reservations[q].status \in {"fulfilled", "cancelled"}
  BY <1>1, <1>2
<1> HIDE DEF status
<1>5. Reserves' = Reserves /\ Lines' = Lines
  BY <1>3 DEF Reserves, Lines
<1>6. Fulfilled' = Fulfilled
  BY <1>2, <1>4 DEF Fulfilled, Own
<1>7. ItemsSound(handoff.lines) => ItemsSound(handoff.lines)'
  <2> SUFFICES ASSUME ItemsSound(handoff.lines)
               PROVE  ItemsSound(handoff.lines)'
    OBVIOUS
  <2>1. ASSUME NEW i \in Lines
        PROVE  LET item == handoff.lines[i]
                   row == reservations'[item.reservation]
               IN  /\ item.line = i
                   /\ item.reservation \in DOMAIN reservations
                   /\ row.status \in {"fulfilled", "cancelled"}
                   /\ Lifecycle(row) = Lifecycle(ReservePayload(paidOrder.lines[i]))
                   /\ row.quantity = paidOrder.lines[i].quantity
                   /\ \A k \in Lines \ {i} : handoff.lines[k].reservation # item.reservation
    <3> DEFINE item == handoff.lines[i]
               old == reservations[item.reservation]
               row == reservations'[item.reservation]
    <3>1. /\ item.line = i
          /\ item.reservation \in DOMAIN reservations
          /\ old.status \in {"fulfilled", "cancelled"}
          /\ Lifecycle(old) = Lifecycle(ReservePayload(paidOrder.lines[i]))
          /\ old.quantity = paidOrder.lines[i].quantity
          /\ \A k \in Lines \ {i} : handoff.lines[k].reservation # item.reservation
      BY DEF ItemsSound
    <3>2. Same(row, old) /\ row.status \in {"fulfilled", "cancelled"}
      BY <1>2, <1>4, <3>1
    <3>3. Lifecycle(row) = Lifecycle(old) /\ row.quantity = old.quantity
      BY <3>2 DEF Same, Lifecycle
    <3> QED
      BY <3>1, <3>2, <3>3
  <2>2. DOMAIN handoff.lines = Lines
    BY DEF ItemsSound
  <2> QED
    BY <1>2, <1>3, <1>5, <2>1, <2>2 DEF ItemsSound, ReservePayload, Lifecycle
<1>8. Pairing(handoff.found)' = Pairing(handoff.found)
  BY <1>3 DEF Pairing, Lines, Pairs
<1>9. fulfilmentOrders' = <<>> \/ Posted'
  BY <1>2, <1>3, <1>5, <1>6, <1>7 DEF HandoffInvariant, Posted, AllFulfilled, FulfilmentOrder
<1> QED
  BY <1>2, <1>3, <1>5, <1>6, <1>7, <1>8, <1>9 DEF HandoffInvariant, AllFulfilled

\* A line is fulfilled: one more of the order's rows, the last ones with the last.
LEMMA FulfilStep ==
    ASSUME HandoffInvariant, FulfilLine
    PROVE  HandoffInvariant'
<1>1. /\ handoff.at = "fulfil" /\ Reserves
      /\ UNCHANGED <<paidOrder, fulfilmentOrders>>
  BY DEF FulfilLine, Fulfilling, Reserves, Lines
<1>2. PICK r \in DOMAIN reservations :
         /\ Lifecycle(reservations[r]) = Lifecycle(ReservePayload(paidOrder.lines[handoff.line]))
         /\ reservations[r].status = "reserved"
         /\ Moved(r, "fulfilled")
         /\ handoff' = IF handoff.line = Len(paidOrder.lines)
                       THEN [handoff EXCEPT !.at = "check"]
                       ELSE [handoff EXCEPT !.line = @ + 1]
  BY DEF FulfilLine, Moved
<1>3. /\ reservations' \in Seq(Reservation)
      /\ DOMAIN reservations' = DOMAIN reservations
      /\ \A q \in DOMAIN reservations :
            reservations'[q].status = IF q = r THEN "fulfilled" ELSE reservations[q].status
      /\ Own' = Own
  BY <1>2, RowMoves DEF HandoffInvariant
<1>4. Reserves' = Reserves /\ Lines' = Lines
  BY <1>1 DEF Reserves, Lines
<1>5. r \in Own \ Fulfilled
  BY <1>2 DEF Own, Fulfilled, Lifecycle, ReservePayload
<1>6. Fulfilled' = Fulfilled \cup {r}
  BY <1>3, <1>5 DEF Fulfilled, Own
<1>7. /\ Own = Lines
      /\ handoff.line \in Lines
      /\ Cardinality(Fulfilled) = handoff.line - 1
      /\ paidOrder \in PaidOrders
      /\ handoff = [at |-> handoff.at, line |-> handoff.line, found |-> handoff.found,
                    lines |-> handoff.lines]
      /\ fulfilmentOrders = <<>>
  BY <1>1 DEF HandoffInvariant, Posted
<1>8. /\ Len(paidOrder.lines) \in Nat
      /\ Lines = 1 .. Len(paidOrder.lines)
      /\ IsFiniteSet(Lines)
      /\ Cardinality(Lines) = Len(paidOrder.lines)
  BY <1>7, LinesAreCounted
<1>9. Fulfilled \in SUBSET Own /\ Fulfilled' \in SUBSET Own
  BY <1>5, <1>6 DEF Fulfilled
<1>10. Cardinality(Fulfilled') = handoff.line
  <2>1. IsFiniteSet(Fulfilled)
    BY <1>7, <1>8, <1>9, FS_Subset
  <2>2. Cardinality(Fulfilled \cup {r}) = Cardinality(Fulfilled) + 1
    BY <1>5, <2>1, FS_AddElement
  <2> QED
    BY <1>6, <1>7, <1>8, <2>2
<1>11. CASE handoff.line = Len(paidOrder.lines)
  <2>1. /\ handoff' = [handoff EXCEPT !.at = "check"]
        /\ handoff'.at = "check"
        /\ handoff' = [at |-> handoff'.at, line |-> handoff'.line, found |-> handoff'.found,
                       lines |-> handoff'.lines]
    BY <1>2, <1>7, <1>11
  <2>2. Fulfilled' = Own
    BY <1>7, <1>8, <1>9, <1>10, <1>11, FS_Subset
  <2> QED
    BY <1>1, <1>3, <1>4, <1>7, <2>1, <2>2 DEF HandoffInvariant, AllFulfilled
<1>12. CASE handoff.line # Len(paidOrder.lines)
  <2>1. /\ handoff'.at = "fulfil"
        /\ handoff'.line = handoff.line + 1
        /\ handoff' = [at |-> handoff'.at, line |-> handoff'.line, found |-> handoff'.found,
                       lines |-> handoff'.lines]
    BY <1>1, <1>2, <1>7, <1>12
  <2>2. handoff'.line \in Lines /\ Cardinality(Fulfilled') = handoff'.line - 1
    BY <1>7, <1>8, <1>10, <1>12, <2>1
  <2> QED
    BY <1>1, <1>3, <1>4, <1>7, <2>1, <2>2 DEF HandoffInvariant
<1> QED
  BY <1>11, <1>12

\* The answer of Warehouse is a listing, of rows with an identifier.
LEMMA AnswerIsListing ==
    ASSUME reservations \in Seq(Reservation), NEW ids \in Listings
    PROVE  LET found == [i \in DOMAIN ids |-> [id |-> ids[i], row |-> reservations[ids[i]]]]
           IN  Listing(found) /\ \A j \in DOMAIN found : found[j].id # 0
<1>1. PICK n \in 0 .. Len(reservations) : ids \in [1 .. n -> DOMAIN reservations]
  BY DEF Listings
<1>2. \A i, j \in DOMAIN ids : i # j => ids[i] # ids[j]
  BY DEF Listings
<1>3. Len(reservations) \in Nat /\ DOMAIN reservations = 1 .. Len(reservations)
  BY LenProperties
<1> QED
  BY <1>1, <1>2, <1>3 DEF Listing

LEMMA FetchStep ==
    ASSUME HandoffInvariant, FetchReservations
    PROVE  HandoffInvariant'
<1>1. /\ handoff.at = "fetch"
      /\ UNCHANGED <<paidOrder, reservations, fulfilmentOrders>>
  BY DEF FetchReservations
<1>2. PICK ids \in Listings :
         LET found == [i \in DOMAIN ids |-> [id |-> ids[i], row |-> reservations[ids[i]]]]
             lines == LinesOf(found)
         IN  handoff' = [handoff EXCEPT
                           !.found = found, !.lines = lines,
                           !.at = IF \A i \in DOMAIN lines : lines[i].reservation # 0 THEN "post"
                                  ELSE "missing_reservation_id"]
  BY DEF FetchReservations
<1> DEFINE found == [i \in DOMAIN ids |-> [id |-> ids[i], row |-> reservations[ids[i]]]]
           taken == Taken(found)
           lines == LinesOf(found)
           at == IF \A i \in DOMAIN lines : lines[i].reservation # 0 THEN "post"
                 ELSE "missing_reservation_id"
<1>3. /\ paidOrder \in PaidOrders
      /\ reservations \in Seq(Reservation)
      /\ handoff = [at |-> handoff.at, line |-> handoff.line, found |-> handoff.found,
                    lines |-> handoff.lines]
      /\ AllFulfilled
      /\ NormalizeDeliveryAddress(paidOrder.address)
      /\ fulfilmentOrders = <<>>
  BY <1>1 DEF HandoffInvariant, Posted
<1>4. Listing(found) /\ \A j \in DOMAIN found : found[j].id # 0
  BY <1>3, AnswerIsListing
<1>5. handoff' = [handoff EXCEPT !.found = found, !.lines = lines, !.at = at]
  BY <1>2
<1> HIDE DEF found
<1>6. lines = [i \in Lines |-> [line |-> i, reservation |-> taken[i]]]
  BY DEF LinesOf, Lines
<1> HIDE DEF taken, lines
<1>7. at = IF \A i \in Lines : taken[i] # 0 THEN "post" ELSE "missing_reservation_id"
  BY <1>6
<1> HIDE DEF at
<1>8. /\ handoff'.at = at /\ handoff'.found = found /\ handoff'.lines = lines
      /\ handoff' = [at |-> handoff'.at, line |-> handoff'.line, found |-> handoff'.found,
                     lines |-> handoff'.lines]
  BY <1>3, <1>5
<1>9. at = "post" => ItemsSound(lines)
  <2> SUFFICES ASSUME \A i \in Lines : taken[i] # 0
               PROVE  ItemsSound(lines)
    BY <1>7
  <2>1. ASSUME NEW i \in Lines
        PROVE  LET row == reservations[lines[i].reservation] IN
               /\ lines[i].line = i
               /\ lines[i].reservation \in DOMAIN reservations
               /\ row.status \in {"fulfilled", "cancelled"}
               /\ Lifecycle(row) = Lifecycle(ReservePayload(paidOrder.lines[i]))
               /\ row.quantity = paidOrder.lines[i].quantity
    <3>1. PICK j \in DOMAIN found : /\ found[j].id = taken[i]
                                  /\ Pairs(found[j].row, paidOrder.lines[i])
      BY <1>3, <1>4, TakenIsSound DEF taken
    <3>2. taken[i] \in DOMAIN reservations /\ found[j].row = reservations[taken[i]]
      BY <1>4, <3>1 DEF Listing
    <3>3. lines[i].line = i /\ lines[i].reservation = taken[i]
      BY <1>6
    <3> QED
      BY <3>1, <3>2, <3>3 DEF Pairs, Lifecycle, ReservePayload
  <2>2. ASSUME NEW i \in Lines, NEW k \in Lines \ {i}
        PROVE  lines[k].reservation # lines[i].reservation
    <3>1. \/ i \in 1 .. k - 1
          \/ k \in 1 .. i - 1
      BY <1>3, LinesAreCounted
    <3>2. taken[i] # taken[k]
      BY <1>3, <1>4, <3>1, TakenIsSound DEF taken
    <3> QED
      BY <1>6, <3>2
  <2> QED
    BY <1>6, <2>1, <2>2 DEF ItemsSound
<1>10. at = "missing_reservation_id" => ~Pairing(found)
  BY <1>3, <1>4, <1>7, NoPairing DEF taken
<1>11. /\ Reserves' = Reserves /\ Lines' = Lines /\ Own' = Own /\ AllFulfilled'
  BY <1>1, <1>3 DEF Reserves, Lines, Own, AllFulfilled, Fulfilled
<1>12. at \in {"post", "missing_reservation_id"}
  BY <1>7
<1>13. at = "post" => ItemsSound(handoff.lines)'
  BY <1>1, <1>8, <1>9, <1>11 DEF ItemsSound, ReservePayload, Lifecycle
<1>14. at = "missing_reservation_id" => ~Pairing(handoff.found)'
  BY <1>1, <1>8, <1>10, <1>11 DEF Pairing, Pairs, Lines
<1> QED
  BY <1>1, <1>3, <1>8, <1>11, <1>12, <1>13, <1>14 DEF HandoffInvariant

\* The handler moves on, and nothing is settled by it.
LEMMA LeaveStep ==
    ASSUME HandoffInvariant, NEW at \in {"disabled", "skipped", "failed"}, Leave(at),
           handoff.at \notin {"requested", "failed"},
           UNCHANGED <<paidOrder, fulfilmentOrders>>,
           \/ UNCHANGED reservations
           \/ \E r \in DOMAIN reservations : Moved(r, "fulfilled")
    PROVE  HandoffInvariant'
<1>1. /\ handoff'.at = at
      /\ handoff' = [at |-> handoff'.at, line |-> handoff'.line, found |-> handoff'.found,
                     lines |-> handoff'.lines]
  BY DEF HandoffInvariant, Leave
<1>2. reservations' \in Seq(Reservation) /\ Own' = Own
  <2>1. CASE UNCHANGED reservations
    BY <2>1 DEF HandoffInvariant, Own
  <2>2. CASE \E r \in DOMAIN reservations : Moved(r, "fulfilled")
    BY <2>2, RowMoves DEF HandoffInvariant
  <2> QED
    BY <2>1, <2>2
<1>3. Reserves' = Reserves /\ Lines' = Lines
  BY DEF Reserves, Lines
<1>4. fulfilmentOrders' = <<>>
  BY DEF HandoffInvariant, Posted
<1> QED
  BY <1>1, <1>2, <1>3, <1>4 DEF HandoffInvariant

\* The order is posted, whether or not the handler hears of it.
LEMMA PostStep ==
    ASSUME HandoffInvariant, PostFulfilmentOrder
    PROVE  HandoffInvariant'
<1>1. PICK at \in {"requested", "failed"} : Leave(at)
  BY DEF PostFulfilmentOrder
<1>2. /\ handoff.at = "post"
      /\ fulfilmentOrders' = Append(fulfilmentOrders, FulfilmentOrder)
      /\ UNCHANGED <<paidOrder, reservations>>
  BY DEF PostFulfilmentOrder
<1>3. /\ handoff'.at = at
      /\ handoff'.lines = handoff.lines
      /\ handoff' = [at |-> handoff'.at, line |-> handoff'.line, found |-> handoff'.found,
                     lines |-> handoff'.lines]
  BY <1>1 DEF HandoffInvariant, Leave
<1>4. fulfilmentOrders = <<>>
  BY <1>2 DEF HandoffInvariant, Posted
<1>5. fulfilmentOrders' = <<FulfilmentOrder'>>
  BY <1>2, <1>3, <1>4 DEF FulfilmentOrder
<1>6. /\ Reserves' = Reserves /\ Lines' = Lines /\ Own' = Own
      /\ Fulfilled' = Fulfilled /\ AllFulfilled'
  BY <1>2 DEF HandoffInvariant, Reserves, Lines, Own, Fulfilled, AllFulfilled
<1>7. ItemsSound(handoff.lines)'
  BY <1>2, <1>3, <1>6 DEF HandoffInvariant, ItemsSound, ReservePayload, Lifecycle
<1>8. Posted'
  BY <1>2, <1>3, <1>5, <1>6, <1>7 DEF HandoffInvariant, Posted
<1> QED
  BY <1>1, <1>2, <1>3, <1>6, <1>8 DEF HandoffInvariant

LEMMA CheckStep ==
    ASSUME HandoffInvariant, CheckHandoff
    PROVE  HandoffInvariant'
<1> DEFINE at == IF ~Usable(paidOrder.shippingMethod) THEN "missing_shipping_method"
                 ELSE IF ~NormalizeDeliveryAddress(paidOrder.address) THEN "missing_delivery_address"
                 ELSE "fetch"
<1>1. /\ handoff.at = "check"
      /\ handoff' = [handoff EXCEPT !.at = at]
      /\ UNCHANGED <<paidOrder, reservations, fulfilmentOrders>>
  BY DEF CheckHandoff
<1>2. /\ at \in {"missing_shipping_method", "missing_delivery_address", "fetch"}
      /\ at = "fetch" => NormalizeDeliveryAddress(paidOrder.address)
  OBVIOUS
<1> HIDE DEF at
<1>3. /\ handoff'.at = at
      /\ handoff' = [at |-> handoff'.at, line |-> handoff'.line, found |-> handoff'.found,
                     lines |-> handoff'.lines]
  BY <1>1 DEF HandoffInvariant
<1>4. /\ Reserves' = Reserves /\ Lines' = Lines /\ Own' = Own
      /\ Fulfilled' = Fulfilled /\ AllFulfilled'
  BY <1>1 DEF HandoffInvariant, Reserves, Lines, Own, Fulfilled, AllFulfilled
<1>5. fulfilmentOrders' = <<>>
  BY <1>1 DEF HandoffInvariant, Posted
<1> QED
  BY <1>1, <1>2, <1>3, <1>4, <1>5 DEF HandoffInvariant

LEMMA HandoffStep == HandoffInvariant /\ [HandoffNext]_handoffVars => HandoffInvariant'
<1> SUFFICES ASSUME HandoffInvariant, [HandoffNext]_handoffVars
             PROVE  HandoffInvariant'
  OBVIOUS
<1>1. CASE NothingToFulfil
  BY <1>1, LeaveStep DEF NothingToFulfil
<1>2. CASE FulfilLine
  BY <1>2, FulfilStep
<1>3. CASE FulfilFails
  BY <1>3, LeaveStep DEF FulfilFails, Fulfilling, Moved
<1>4. CASE CheckHandoff
  BY <1>4, CheckStep
<1>5. CASE FetchReservations
  BY <1>5, FetchStep
<1>6. CASE PostFulfilmentOrder
  BY <1>6, PostStep
<1>7. CASE RequestFails
  BY <1>7, LeaveStep DEF RequestFails
<1>8. CASE Lapse
  BY <1>8, LapseStep
<1>9. CASE UNCHANGED handoffVars
  <2>1. UNCHANGED <<paidOrder, reservations, handoff, fulfilmentOrders>>
    BY <1>9 DEF handoffVars
  <2>2. /\ Reserves' = Reserves /\ Lines' = Lines /\ Own' = Own
        /\ Fulfilled' = Fulfilled /\ AllFulfilled' = AllFulfilled
    BY <2>1 DEF Reserves, Lines, Own, Fulfilled, AllFulfilled
  <2>3. ItemsSound(handoff.lines) => ItemsSound(handoff.lines)'
    BY <2>1, <2>2 DEF ItemsSound, Lifecycle, ReservePayload
  <2>4. Pairing(handoff.found)' = Pairing(handoff.found)
    BY <2>1, <2>2 DEF Pairing, Pairs
  <2>5. Posted => Posted'
    BY <2>1, <2>2, <2>3 DEF Posted, FulfilmentOrder
  <2> QED
    BY <2>1, <2>2, <2>3, <2>4, <2>5 DEF HandoffInvariant
<1> QED
  BY <1>1, <1>2, <1>3, <1>4, <1>5, <1>6, <1>7, <1>8, <1>9 DEF HandoffNext

(***************************************************************************)
(* Requests name no quantity and no reservation, reservations lapse        *)
(* unannounced and the list of them comes in any order: still one          *)
(* fulfilment order at most is accepted, with a fulfilled reservation of   *)
(* its own for each line, and an order is passed over only when no pairing *)
(* serves it.                                                              *)
(***************************************************************************)
THEOREM HandoffsSound == HandoffSpec => []HandoffSound
<1>1. HandoffInvariant => HandoffSound
  <2> SUFFICES ASSUME HandoffInvariant
               PROVE  HandoffSound
    OBVIOUS
  <2>1. CASE fulfilmentOrders = <<>>
    BY <2>1 DEF HandoffInvariant, HandoffSound
  <2>2. CASE Posted
    <3> DEFINE items == handoff.lines
    <3>1. /\ fulfilmentOrders = <<[items |-> items, address |-> paidOrder.address]>>
          /\ ItemsSound(items)
          /\ NormalizeDeliveryAddress(paidOrder.address)
          /\ AllFulfilled
      BY <2>2 DEF Posted, FulfilmentOrder
    <3>2. /\ Len(fulfilmentOrders) = 1
          /\ DOMAIN fulfilmentOrders = {1}
          /\ fulfilmentOrders[1].items = items
          /\ fulfilmentOrders[1].address = paidOrder.address
      BY <3>1
    <3> HIDE DEF items
    <3>3. {items[j].line : j \in DOMAIN items} = Lines
      BY <3>1 DEF ItemsSound
    <3>4. Len(items) = Len(paidOrder.lines)
      <4>1. Len(paidOrder.lines) \in Nat /\ DOMAIN items = 1 .. Len(paidOrder.lines)
        BY <3>1, LinesAreCounted DEF HandoffInvariant, ItemsSound
      <4> QED
        BY <4>1
    <3>5. \A j \in DOMAIN items :
             LET row == reservations[items[j].reservation]
             IN  /\ row.status \in {"fulfilled", "cancelled"}
                 /\ Lifecycle(row) = Lifecycle(ReservePayload(paidOrder.lines[items[j].line]))
                 /\ row.quantity = paidOrder.lines[items[j].line].quantity
                 /\ \A k \in DOMAIN items \ {j} : items[k].reservation # items[j].reservation
      BY <3>1 DEF ItemsSound
    <3>6. \A r \in DOMAIN reservations :
             reservations[r].order = "own" => reservations[r].status # "expired"
      BY <3>1 DEF AllFulfilled, Fulfilled, Own
    <3>7. handoff.at # "missing_reservation_id"
      BY <2>2 DEF Posted
    <3> QED
      BY <3>1, <3>2, <3>3, <3>4, <3>5, <3>6, <3>7 DEF HandoffSound
  <2> QED
    BY <2>1, <2>2 DEF HandoffInvariant
<1> QED
  BY <1>1, HandoffInitInvariant, HandoffStep, PTL DEF HandoffSpec

-----------------------------------------------------------------------------

(***************************************************************************)
(* The replay listing.                                                     *)
(***************************************************************************)

\* Rows of a table of so many orders.
Rows(rows, last) == last \in Nat /\ rows \subseteq 1 .. last

Before(rows, o) == {p \in rows : p < o}

LEMMA RowsAreFinite ==
    ASSUME NEW rows, NEW last, Rows(rows, last)
    PROVE  /\ IsFiniteSet(rows)
           /\ Cardinality(rows) \in Nat
           /\ \A T \in SUBSET rows : /\ Rows(T, last)
                                     /\ IsFiniteSet(T)
                                     /\ Cardinality(T) \in Nat
                                     /\ Cardinality(T) <= Cardinality(rows)
<1>1. IsFiniteSet(1 .. last)
  BY FS_Interval DEF Rows
<1>2. IsFiniteSet(rows)
  BY <1>1, FS_Subset DEF Rows
<1> QED
  BY <1>2, FS_Subset, FS_CardinalityType DEF Rows

LEMMA LatestOf ==
    ASSUME NEW rows, NEW last, Rows(rows, last), rows # {}
    PROVE  \E m \in rows : \A x \in rows : x <= m
<1> DEFINE T == {k \in Nat : last - k \in rows}
<1>1. \A o \in rows : last - o \in T
  BY DEF Rows
<1>2. T # {} /\ T \in SUBSET Nat
  BY <1>1
<1>3. PICK k \in T : \A x \in T : k <= x
  BY <1>2, LeastOf
<1>4. \A x \in rows : x <= last - k
  BY <1>1, <1>3 DEF Rows
<1> QED
  BY <1>3, <1>4

\* The oldest n of some rows are older than the others, and no more than n.
LEMMA OldestAreOlder ==
    ASSUME NEW rows, NEW last, Rows(rows, last), NEW n \in Nat,
           NEW o \in rows \ OldestRows(rows, n), NEW p \in OldestRows(rows, n)
    PROVE  p < o /\ Cardinality(Before(rows, o)) >= n
<1>1. Cardinality(Before(rows, o)) >= n /\ Cardinality(Before(rows, p)) < n
  <2>1. Cardinality(Before(rows, o)) \in Nat
    BY RowsAreFinite DEF Before
  <2> QED
    BY <2>1 DEF OldestRows, Before
<1>2. ASSUME o <= p
      PROVE  FALSE
  <2>1. p \in rows /\ \A x \in rows : x \in Int
    BY DEF OldestRows, Rows
  <2>2. ASSUME NEW x \in Before(rows, o)
        PROVE  x \in Before(rows, p)
    BY <1>2, <2>1 DEF Before
  <2>3. Rows(Before(rows, p), last)
    BY DEF Before, Rows
  <2>4. /\ Cardinality(Before(rows, o)) <= Cardinality(Before(rows, p))
        /\ Cardinality(Before(rows, o)) \in Nat
        /\ Cardinality(Before(rows, p)) \in Nat
    BY <2>2, <2>3, RowsAreFinite
  <2> QED
    BY <1>1, <2>4
<1> QED
  BY <1>1, <1>2 DEF OldestRows, Rows

LEMMA OldestAreFew ==
    ASSUME NEW rows, NEW last, Rows(rows, last), NEW n \in Nat
    PROVE  Cardinality(OldestRows(rows, n)) <= n
<1> DEFINE N == OldestRows(rows, n)
<1>1. N \subseteq rows
  BY DEF OldestRows
<1>2. Rows(N, last) /\ IsFiniteSet(N) /\ Cardinality(N) \in Nat
  BY <1>1, RowsAreFinite
<1>3. \A o \in N : Cardinality(Before(rows, o)) \in Nat /\ Cardinality(Before(rows, o)) < n
  BY <1>1, RowsAreFinite DEF OldestRows, Before
<1> HIDE DEF N
<1>4. ASSUME N = {}
      PROVE  Cardinality(N) <= n
  BY <1>4, FS_EmptySet
<1>5. ASSUME N # {}
      PROVE  Cardinality(N) <= n
  <2>1. PICK m \in N : \A x \in N : x <= m
    BY <1>2, <1>5, LatestOf
  <2>2. ASSUME NEW x \in N \ {m}
        PROVE  x \in Before(rows, m)
    <3>1. x \in Int /\ m \in Int /\ x # m /\ x <= m /\ x \in rows
      BY <1>1, <1>2, <2>1 DEF Rows
    <3> QED
      BY <3>1 DEF Before
  <2>3. Rows(Before(rows, m), last)
    BY DEF Before, Rows
  <2>4. Cardinality(N \ {m}) <= Cardinality(Before(rows, m))
    BY <2>2, <2>3, RowsAreFinite
  <2>5. Cardinality(N \ {m}) = Cardinality(N) - 1
    BY <1>2, FS_RemoveElement
  <2>6. Cardinality(Before(rows, m)) \in Nat /\ Cardinality(Before(rows, m)) < n
    BY <1>3
  <2> QED
    BY <1>2, <2>4, <2>5, <2>6
<1> QED
  BY <1>4, <1>5 DEF N

-----------------------------------------------------------------------------

Increasing(list) == \A i, j \in DOMAIN list : i < j => list[i] < list[j]

\* Any rows can be listed, the latest one last.
LEMMA RowsCanBeListed ==
    ASSUME NEW rows, NEW last, Rows(rows, last)
    PROVE  \E list \in [1 .. Cardinality(rows) -> rows] : Increasing(list)
<1> DEFINE S == {n \in Nat : \A T \in SUBSET (1 .. last) :
                    Cardinality(T) = n => \E list \in [1 .. n -> T] : Increasing(list)}
<1>1. 0 \in S
  <2> DEFINE none == [i \in 1 .. 0 |-> 0]
  <2>1. \A T : none \in [1 .. 0 -> T]
    OBVIOUS
  <2>2. Increasing(none)
    BY DEF Increasing
  <2> HIDE DEF none
  <2> QED
    BY <2>1, <2>2
<1>2. ASSUME NEW n \in Nat, n \in S
      PROVE  n + 1 \in S
  <2>1. ASSUME NEW T \in SUBSET (1 .. last), Cardinality(T) = n + 1
        PROVE  \E list \in [1 .. n + 1 -> T] : Increasing(list)
    <3>1. Rows(T, last) /\ IsFiniteSet(T)
      BY RowsAreFinite DEF Rows
    <3>2. T # {}
      BY <2>1, FS_EmptySet
    <3>3. PICK m \in T : \A x \in T : x <= m
      BY <3>1, <3>2, LatestOf
    <3>4. Cardinality(T \ {m}) = n
      BY <2>1, <3>1, FS_RemoveElement
    <3>5. PICK list \in [1 .. n -> T \ {m}] : Increasing(list)
      BY <1>2, <3>4
    <3> DEFINE longer == [i \in 1 .. n + 1 |-> IF i = n + 1 THEN m ELSE list[i]]
    <3>6. longer \in [1 .. n + 1 -> T]
      BY <3>5
    <3>7. \A i \in 1 .. n : longer[i] = list[i] /\ longer[i] < m
      <4>1. ASSUME NEW i \in 1 .. n
            PROVE  longer[i] = list[i] /\ longer[i] < m
        <5>1. longer[i] = list[i] /\ list[i] \in T \ {m}
          BY <3>5
        <5> HIDE DEF longer
        <5>2. list[i] # m /\ list[i] <= m
          BY <3>3, <5>1
        <5>3. list[i] \in 1 .. last /\ m \in 1 .. last
          BY <5>1
        <5> QED
          BY <5>1, <5>2, <5>3 DEF Rows
      <4> QED
        BY <4>1
    <3>8. longer[n + 1] = m /\ DOMAIN longer = 1 .. n + 1
      OBVIOUS
    <3> HIDE DEF longer
    <3>9. ASSUME NEW i \in 1 .. n + 1, NEW j \in 1 .. n + 1, i < j
          PROVE  longer[i] < longer[j]
      <4>1. i \in 1 .. n
        BY <3>9
      <4>2. CASE j = n + 1
        BY <3>7, <3>8, <4>1, <4>2
      <4>3. CASE j # n + 1
        BY <3>5, <3>7, <3>9, <4>1, <4>3 DEF Increasing
      <4> QED
        BY <4>2, <4>3
    <3> QED
      BY <3>6, <3>8, <3>9 DEF Increasing
  <2> QED
    BY <2>1
<1> HIDE DEF S
<1>3. Cardinality(rows) \in S
  BY <1>1, <1>2, RowsAreFinite, StepByStep
<1> QED
  BY <1>3 DEF S, Rows

\* The list is of these rows, each once.
LEMMA ListedAreRows ==
    ASSUME NEW rows, NEW last, Rows(rows, last)
    PROVE  LET list == Listed(rows)
           IN  /\ Increasing(list)
               /\ {list[i] : i \in DOMAIN list} = rows
<1> DEFINE list == Listed(rows)
           n == Cardinality(rows)
<1>1. list \in [1 .. n -> rows] /\ Increasing(list)
  <2>1. \E any \in [1 .. n -> rows] :
           \A i, j \in DOMAIN any : i < j => any[i] < any[j]
    BY RowsCanBeListed DEF Increasing
  <2>2. list = CHOOSE any \in [1 .. n -> rows] :
                  \A i, j \in DOMAIN any : i < j => any[i] < any[j]
    BY DEF Listed
  <2> HIDE DEF list, n
  <2> QED
    BY <2>1, <2>2 DEF Increasing
<1>2. n \in Nat /\ IsFiniteSet(rows)
  BY RowsAreFinite
<1> HIDE DEF n, list
<1>3. list \in Injection(1 .. n, rows)
  <2>1. ASSUME NEW i \in 1 .. n, NEW j \in 1 .. n, list[i] = list[j]
        PROVE  i = j
    <3>1. list[i] \in 1 .. last /\ list[j] \in 1 .. last
      BY <1>1 DEF Rows
    <3>2. ~(i < j) /\ ~(j < i)
      BY <1>1, <2>1, <3>1 DEF Increasing, Rows
    <3> QED
      BY <1>2, <3>2
  <2> QED
    BY <1>1, <2>1 DEF Injection, IsInjective
<1>4. Cardinality(1 .. n) = Cardinality(rows)
  BY <1>2, FS_Interval DEF n
<1>5. list \in Surjection(1 .. n, rows)
  BY <1>2, <1>3, <1>4, FS_Injection
<1>6. {list[i] : i \in DOMAIN list} = rows
  BY <1>1, <1>5 DEF Surjection
<1> QED
  BY <1>1, <1>6 DEF list

-----------------------------------------------------------------------------

ReplayInvariant ==
    /\ history \in Seq(ReplayOrder)
    /\ replay = [at |-> replay.at, query |-> replay.query, events |-> replay.events]
    /\ replay.at # "none" => replay.query \in ReplayRequests
    /\ replay.at = "read" => replay.query.role \in ReplayReadRoles

LEMMA ReplayInitInvariant == ReplayInit => ReplayInvariant
BY DEF ReplayInit, NoReplay, ReplayInvariant

LEMMA ReplayStep == ReplayInvariant /\ [ReplayNext]_replayVars => ReplayInvariant'
<1> SUFFICES ASSUME ReplayInvariant, [ReplayNext]_replayVars
             PROVE  ReplayInvariant'
  OBVIOUS
<1>1. CASE AskReplay
  BY <1>1 DEF AskReplay, ReplayInvariant, NoReplay
<1>2. CASE RefuseReplay
  BY <1>2 DEF RefuseReplay, ReplayInvariant
<1>3. CASE ReplayCandidates
  BY <1>3 DEF ReplayCandidates, ReplayInvariant
<1>4. CASE ReplayDone
  BY <1>4 DEF ReplayDone, ReplayInvariant, NoReplay
<1>5. CASE PlaceReplayable
  <2>1. PICK new \in ReplayOrders : history' = Append(history, new)
    BY <1>5 DEF PlaceReplayable
  <2>2. new \in ReplayOrder
    BY ReplayAssumption
  <2>3. history' \in Seq(ReplayOrder)
    BY <2>1, <2>2, AppendProperties DEF ReplayInvariant
  <2> QED
    BY <1>5, <2>3 DEF PlaceReplayable, ReplayInvariant
<1>6. CASE MoveReplayable
  <2>1. PICK o \in DOMAIN history :
           \/ history' = [history EXCEPT ![o].paid = TRUE]
           \/ \E status \in {"confirmed", "cancelled"} :
                 history' = [history EXCEPT ![o].status = status]
    BY <1>6 DEF MoveReplayable
  <2>2. o \in 1 .. Len(history) /\ history[o] \in ReplayOrder
    BY LenProperties, ElementOfSeq DEF ReplayInvariant
  <2>3. PICK new \in ReplayOrder : history' = [history EXCEPT ![o] = new]
    BY <2>1, <2>2 DEF ReplayOrder, ReplayStatuses
  <2>4. history' \in Seq(ReplayOrder)
    BY <2>2, <2>3, ExceptSeq DEF ReplayInvariant
  <2> QED
    BY <1>6, <2>4 DEF MoveReplayable, ReplayInvariant
<1>7. CASE UNCHANGED replayVars
  BY <1>7 DEF replayVars, ReplayInvariant
<1> QED
  BY <1>1, <1>2, <1>3, <1>4, <1>5, <1>6, <1>7 DEF ReplayNext

\* What a page is to be like.
PageSound(query, events) ==
    LET page == {events[i] : i \in DOMAIN events}
    IN  /\ query.role \in ReplayReadRoles
        /\ page \subseteq Wanted(query)
        /\ \A i, j \in DOMAIN events : i < j => events[i] < events[j]
        /\ Cardinality(page) <= LargestReplayLimit
        /\ \A o \in Wanted(query) \ page :
              /\ \A p \in page : p < o
              /\ Cardinality({p \in Replayable(query) : p < o}) >= ReplayLimit(query)

LEMMA CandidatesAreSound ==
    ASSUME ReplayInvariant, ReplayCandidates
    PROVE  PageSound(replay.query, replay'.events)
<1> DEFINE query == replay.query
           events == replay'.events
           last == Len(history)
           rows == Replayable(query)
           limit == ReplayLimit(query)
           cut == OldestRows(rows, limit)
           kept == {o \in cut : SeveralProducts(o)}
<1>1. /\ query \in ReplayRequests
      /\ query.role \in ReplayReadRoles
      /\ events = Listed(kept)
      /\ history \in Seq(ReplayOrder)
  BY DEF ReplayInvariant, ReplayCandidates, ReplayEvents
<1>2. limit \in Nat /\ limit <= LargestReplayLimit /\ LargestReplayLimit \in Nat
  <2>1. query.limited \in BOOLEAN /\ query.limit \in Int
    BY <1>1, ReplayAssumption DEF ReplayRequest
  <2> HIDE DEF query
  <2>2. \/ ~query.limited /\ limit = DefaultReplayLimit
        \/ limit = 1
        \/ limit = LargestReplayLimit
        \/ limit = query.limit /\ ~(query.limit < 1) /\ ~(query.limit > LargestReplayLimit)
    BY DEF ReplayLimit
  <2>3. /\ LargestReplayLimit \in Nat
        /\ DefaultReplayLimit \in Nat
        /\ DefaultReplayLimit >= 1 /\ DefaultReplayLimit <= LargestReplayLimit
    BY ReplayAssumption
  <2> HIDE DEF limit
  <2> QED
    BY <2>1, <2>2, <2>3
<1>3. Rows(rows, last)
  BY <1>1, LenProperties DEF Rows, Replayable
<1>4. cut \subseteq rows /\ kept \subseteq cut
  BY DEF OldestRows
<1>5. Rows(cut, last) /\ Rows(kept, last)
  BY <1>3, <1>4 DEF Rows
<1>6. Wanted(query) = {o \in rows : SeveralProducts(o)}
  BY DEF Wanted
<1> HIDE DEF query, events, last, rows, limit
<1>7. Cardinality(kept) <= LargestReplayLimit
  <2>1. /\ Cardinality(kept) <= Cardinality(cut)
        /\ Cardinality(kept) \in Nat
        /\ Cardinality(cut) \in Nat
    BY <1>4, <1>5, RowsAreFinite
  <2>2. Cardinality(cut) <= limit
    BY <1>2, <1>3, OldestAreFew
  <2> QED
    BY <1>2, <2>1, <2>2
<1>8. ASSUME NEW o \in Wanted(query) \ kept
      PROVE  (\A p \in kept : p < o) /\ Cardinality(Before(rows, o)) >= limit
  <2>1. o \in rows \ cut
    BY <1>6
  <2>2. \A p \in cut : p < o /\ Cardinality(Before(rows, o)) >= limit
    BY <1>2, <1>3, <2>1, OldestAreOlder
  <2>3. Cardinality(Before(rows, o)) >= limit
    <3>1. Cardinality(Before(rows, o)) \in Nat
      BY <1>3, RowsAreFinite DEF Before
    <3> QED
      BY <1>2, <2>1, <3>1 DEF OldestRows, Before
  <2> QED
    BY <1>4, <2>2, <2>3
<1>9. kept \subseteq Wanted(query)
  BY <1>4, <1>6
<1> HIDE DEF cut, kept
<1>10. Increasing(events) /\ {events[i] : i \in DOMAIN events} = kept
  BY <1>1, <1>5, ListedAreRows
<1>11. \A i, j \in DOMAIN events : i < j => events[i] < events[j]
  BY <1>10 DEF Increasing
<1>12. PageSound(query, events)
  <2> SUFFICES /\ query.role \in ReplayReadRoles
               /\ kept \subseteq Wanted(query)
               /\ \A i, j \in DOMAIN events : i < j => events[i] < events[j]
               /\ Cardinality(kept) <= LargestReplayLimit
               /\ \A o \in Wanted(query) \ kept :
                     /\ \A p \in kept : p < o
                     /\ Cardinality(Before(rows, o)) >= limit
    BY <1>10 DEF PageSound, Before, rows, limit
  <2> QED
    BY <1>1, <1>7, <1>8, <1>9, <1>11
<1> QED
  BY <1>12 DEF query, events

(***************************************************************************)
(* getOrderAffinityReplayCandidates: for every table and query a page is   *)
(* as ReplaySound says, of the oldest rows asked for, in their order, and  *)
(* what it lacks comes after them.                                         *)
(***************************************************************************)
THEOREM ReplaysSound == ReplaySpec => ReplaySound
<1>1. ReplayInvariant /\ [ReplayNext]_replayVars =>
        [replay.at = "read" /\ replay'.at = "answered"
            => PageSound(replay.query, replay'.events)]_replayVars
  <2> SUFFICES ASSUME ReplayInvariant, ReplayNext, replay.at = "read", replay'.at = "answered"
               PROVE  PageSound(replay.query, replay'.events)
    OBVIOUS
  <2>1. ReplayCandidates
    BY DEF ReplayNext, AskReplay, RefuseReplay, ReplayDone, PlaceReplayable, MoveReplayable,
           ReplayInvariant, NoReplay
  <2> QED
    BY <2>1, CandidatesAreSound
<1>2. ReplayInvariant /\ [ReplayNext]_replayVars =>
        [replay.at = "read" /\ replay'.at = "answered"
            => LET page == {replay'.events[i] : i \in DOMAIN replay'.events}
                   query == replay.query
               IN  /\ query.role \in ReplayReadRoles
                   /\ page \subseteq Wanted(query)
                   /\ \A i, j \in DOMAIN replay'.events :
                         i < j => replay'.events[i] < replay'.events[j]
                   /\ Cardinality(page) <= LargestReplayLimit
                   /\ \A o \in Wanted(query) \ page :
                         /\ \A p \in page : p < o
                         /\ Cardinality({p \in Replayable(query) : p < o})
                               >= ReplayLimit(query)]_replayVars
  BY <1>1 DEF PageSound
<1> QED
  BY <1>2, ReplayInitInvariant, ReplayStep, PTL DEF ReplaySpec, ReplaySound

-----------------------------------------------------------------------------

(***************************************************************************)
(* The logger.                                                             *)
(***************************************************************************)

\* A redacted text has no value left, and a pair in it is redacted.
LEMMA RedactedIsClean ==
    ASSUME NEW t \in Seq(Piece), Whole(t), NothingPrivate(t)
    PROVE  /\ Redact(t) \in Seq(Piece)
           /\ Clean(Redact(t))
           /\ Whole(Redact(t)) /\ NothingPrivate(Redact(t))
<1> DEFINE r == Redact(t)
<1>1. /\ r = [i \in 1..Len(t) |-> IF Known(t, i) \/ Known(t, i - 1) \/ Paired(t, i - 1)
                                  THEN "REDACTED" ELSE t[i]]
      /\ Len(t) \in Nat /\ DOMAIN t = 1..Len(t)
      /\ \A i \in 1..Len(t) : t[i] \in Piece
    BY DEF Redact
<1>2. r \in Seq(Piece) /\ Len(r) = Len(t) /\ DOMAIN r = 1..Len(t)
    <2>1. \A i \in 1..Len(t) : r[i] \in Piece
        BY <1>1 DEF Piece
    <2> HIDE DEF r
    <2>2. r \in [1..Len(t) -> Piece]
        BY <1>1, <2>1
    <2> QED  BY <1>1, <2>2, SeqDef, LenProperties
<1>3. \A i \in 1..Len(t) :
          r[i] = IF Known(t, i) \/ Known(t, i - 1) \/ Paired(t, i - 1) THEN "REDACTED" ELSE t[i]
    BY <1>1
<1> HIDE DEF r
<1>4. \A i \in 1..Len(t) : r[i] \notin {"head", "tail", "private"}
    BY <1>1, <1>3 DEF Whole, NothingPrivate
<1>5. ASSUME NEW i \in 1..Len(t), r[i] = "key", i # Len(t)
      PROVE  r[i + 1] \in {"REDACTED", "break"}
    <2>1. t[i] = "key"
        BY <1>3, <1>5 DEF Known, Paired
    <2>2. i + 1 \in 1..Len(t) /\ i \in 1..Len(t) - 1 /\ (i + 1) - 1 = i
        <3>1. i # Len(t) /\ Len(t) \in Nat
            BY <1>1, <1>5
        <3> QED  BY <3>1
    <2>3. CASE t[i + 1] = "break"
        BY <1>3, <2>1, <2>2, <2>3 DEF Known, Paired
    <2>4. CASE t[i + 1] # "break"
        BY <1>3, <2>1, <2>2, <2>4 DEF Paired
    <2> QED  BY <2>3, <2>4
<1> QED  BY <1>2, <1>4, <1>5 DEF Clean, Whole, NothingPrivate, r

\* What is left of a clean text when it is cut is clean.
LEMMA CutIsClean ==
    ASSUME NEW t \in Seq(Piece), Clean(t), NEW n \in Nat
    PROVE  Clean(Cut(t, n)) /\ Len(Cut(t, n)) <= n
<1> DEFINE m == IF Len(t) < n THEN Len(t) ELSE n
           c == Cut(t, n)
<1>1. /\ m \in Nat /\ m <= n /\ m <= Len(t)
      /\ Len(t) \in Nat /\ DOMAIN t = 1..Len(t)
    OBVIOUS
<1>2. c = SubSeq(t, 1, m)
    BY DEF Cut
<1> HIDE DEF m, c
<1>3. c = [i \in 1..m |-> t[i]] /\ Len(c) = m /\ DOMAIN c = 1..m
    BY <1>1, <1>2
<1>4. \A i \in 1..m : c[i] = t[i]
    BY <1>3
<1>5. Clean(c)
    BY <1>1, <1>3, <1>4 DEF Clean
<1> QED  BY <1>1, <1>3, <1>5 DEF c

\* Every leaf that is sent is within the limits and clean.
LEMMA SanitizedIsClean ==
    ASSUME NEW leaf, Leaf(leaf), NEW depth \in DOMAIN leaf.path, Reached(leaf.path, depth),
           NEW x \in SanitizeMetadataValue(leaf, depth)
    PROVE  LeafClean(x)
<1> DEFINE path == leaf.path
           cut == SubSeq(path, 1, depth)
<1>1. /\ path \in Seq(Step) /\ DOMAIN path = 1..Len(path) /\ Len(path) \in Nat
      /\ leaf.of \in Seq(Piece) /\ Whole(leaf.of)
      /\ leaf.kind \in {"text", "number", "empty"}
      /\ NothingPrivate(leaf.of) \/ Sensitive(path)
    BY DEF Leaf
<1>2. depth \in 1..Len(path)
    BY <1>1
<1>3. Len(cut) = depth /\ DOMAIN cut = 1..depth /\ \A d \in 1..depth : cut[d] = path[d]
    BY <1>1, <1>2
<1>4. MaxDepth \in Nat \ {0} /\ MaxText \in Nat \ {0}
    BY LoggerAssumption
<1>5. PICK kind, of : x = [path |-> cut, kind |-> kind, of |-> of]
    BY DEF SanitizeMetadataValue
<1>6. x.path = cut /\ x.kind = kind /\ x.of = of
    BY <1>5
<1>7. depth <= MaxDepth
    BY <1>1, <1>2, <1>4 DEF Reached
<1>8. /\ \A d \in 1..depth : path[d].at <= IF path[d].in = "list" THEN MaxItems ELSE MaxKeys
      /\ \A d \in 1..depth - 1 : path[d].key \notin SensitiveKeys
    BY DEF Reached
<1>9. CASE path[depth].key \in SensitiveKeys
    <2>1. x.of = <<"REDACTED">> /\ x.kind = "text"
        BY <1>9 DEF SanitizeMetadataValue
    <2>2. Clean(x.of) /\ Len(x.of) <= MaxText
        BY <2>1, <1>4 DEF Clean
    <2> QED  BY <1>3, <1>6, <1>7, <1>8, <2>1, <2>2 DEF LeafClean
<1>10. CASE path[depth].key \notin SensitiveKeys
    <2>1. \A d \in 1..depth : path[d].key \notin SensitiveKeys
        BY <1>2, <1>8, <1>10
    <2>2. x.kind = "text" => Clean(x.of) /\ Len(x.of) <= MaxText
        <3>1. CASE depth = Len(path) /\ leaf.kind = "text"
            <4>1. x.of = ShownText(leaf.of)
                BY <1>10, <3>1 DEF SanitizeMetadataValue
            <4>2. NothingPrivate(leaf.of)
                BY <1>1, <2>1, <3>1 DEF Sensitive
            <4>3. Redact(leaf.of) \in Seq(Piece) /\ Clean(Redact(leaf.of))
                BY <1>1, <4>2, RedactedIsClean
            <4> QED  BY <4>1, <4>3, <1>4, CutIsClean DEF ShownText
        <3>2. CASE ~(depth = Len(path) /\ leaf.kind = "text")
            <4>1. x.kind = "text" => x.of = <<"TRUNCATED">>
                BY <1>10, <3>2 DEF SanitizeMetadataValue
            <4>2. Clean(<<"TRUNCATED">>) /\ Len(<<"TRUNCATED">>) <= MaxText
                BY <1>4 DEF Clean
            <4> QED  BY <4>1, <4>2
        <3> QED  BY <3>1, <3>2
    <2> QED  BY <1>3, <1>6, <1>7, <1>8, <2>1, <2>2 DEF LeafClean
<1> QED  BY <1>9, <1>10

LEMMA MetadataIsClean ==
    ASSUME NEW metadata, \A leaf \in metadata : Leaf(leaf),
           NEW x \in SanitizeMetadata(metadata)
    PROVE  LeafClean(x)
<1>1. PICK leaf \in metadata :
          \E depth \in DOMAIN leaf.path :
              Reached(leaf.path, depth) /\ x \in SanitizeMetadataValue(leaf, depth)
    BY DEF SanitizeMetadata
<1>2. Leaf(leaf)
    OBVIOUS
<1> QED  BY <1>1, <1>2, SanitizedIsClean

\* A text that is kept of a field is not one of a sensitive name.
LEMMA KeptFieldsAreClean ==
    ASSUME NEW metadata, \A l \in metadata : Leaf(l), NEW names,
           NEW leaf \in TextFields(metadata, names), leaf.path[1].key \notin SensitiveKeys
    PROVE  /\ Redact(leaf.of) \in Seq(Piece)
           /\ Clean(Redact(leaf.of))
           /\ Whole(Redact(leaf.of)) /\ NothingPrivate(Redact(leaf.of))
<1>1. leaf \in metadata /\ Len(leaf.path) = 1
    BY DEF TextFields
<1>2. leaf.path \in Seq(Step) /\ leaf.of \in Seq(Piece) /\ Whole(leaf.of)
    BY <1>1 DEF Leaf
<1>3. ~Sensitive(leaf.path)
    BY <1>1, <1>2 DEF Sensitive
<1> QED  BY <1>1, <1>2, <1>3, RedactedIsClean DEF Leaf

LEMMA CorrelationIsClean ==
    ASSUME NEW metadata, \A l \in metadata : Leaf(l), NEW t \in CorrelationId(metadata)
    PROVE  Clean(t)
<1>1. PICK name \in {"correlation_id", "correlationId"} :
          \E leaf \in TextFields(metadata, {name}) : t = Redact(leaf.of)
    BY DEF CorrelationId
<1>2. \A leaf \in TextFields(metadata, {name}) : leaf.path[1].key \notin SensitiveKeys
    BY DEF TextFields, SensitiveKeys
<1> QED  BY <1>1, <1>2, KeptFieldsAreClean

LEMMA ContextIsClean ==
    ASSUME NEW context \in Contexts  PROVE  Clean(SanitizeContext(context))
<1>1. context \in Seq({"word", "break"} \cup SensitiveContexts)
    BY LoggerAssumption
<1>2. CASE SanitizeContext(context) = <<"App">>
    BY <1>2 DEF Clean
<1>3. CASE SanitizeContext(context) # <<"App">>
    <2>1. SanitizeContext(context) = context
        BY <1>3 DEF SanitizeContext
    <2>2. \A i \in DOMAIN context : context[i] \in {"word", "break"} \cup SensitiveContexts
        BY <1>1
    <2> QED  BY <2>1, <2>2 DEF Clean, SensitiveContexts
<1> QED  BY <1>2, <1>3

\* What is sent is clean if the texts of the message and the metadata are fit.
LEMMA SentIsClean ==
    ASSUME NEW message, NEW metadata, SendCentralLog(message, metadata),
           \A t \in message : t \in Seq(Piece) /\ Whole(t) /\ NothingPrivate(t),
           \A l \in metadata : Leaf(l)
    PROVE  \A payload \in posted' :
               /\ \A t \in payload.message \cup payload.correlation : Clean(t)
               /\ \A leaf \in payload.metadata : LeafClean(leaf)
<1> SUFFICES ASSUME NEW payload \in posted'
             PROVE  /\ \A t \in payload.message \cup payload.correlation : Clean(t)
                    /\ \A leaf \in payload.metadata : LeafClean(leaf)
    OBVIOUS
<1>1. /\ payload.message = {Redact(t) : t \in message}
      /\ payload.correlation = CorrelationId(metadata)
      /\ payload.metadata = SanitizeMetadata(metadata)
    BY DEF SendCentralLog
<1>2. \A t \in payload.message : Clean(t)
    BY <1>1, RedactedIsClean
<1>3. \A t \in payload.correlation : Clean(t)
    BY <1>1, CorrelationIsClean
<1>4. \A leaf \in payload.metadata : LeafClean(leaf)
    BY <1>1, MetadataIsClean
<1> QED  BY <1>2, <1>3, <1>4

(***************************************************************************)
(* Whatever callers log, and wherever the limits are, no value that a      *)
(* pattern or the name of its field knows is printed or sent, whole or cut.*)
(***************************************************************************)
THEOREM LogsClean == LogSpec => []LogsAreClean
<1>1. LogInit => LogsAreClean
    BY DEF LogInit, LogsAreClean
<1>2. LogsAreClean /\ [LogNext]_logVars => LogsAreClean'
    <2> SUFFICES ASSUME LogsAreClean, [LogNext]_logVars
                 PROVE  LogsAreClean'
        OBVIOUS
    <2>1. \A m \in MetadataValues \cup AuditRecords : \A leaf \in m : Leaf(leaf)
        BY LoggerAssumption
    <2>2. ASSUME NEW t \in Texts
          PROVE  /\ Redact(t) \in Seq(Piece) /\ Clean(Redact(t))
                 /\ Whole(Redact(t)) /\ NothingPrivate(Redact(t))
        BY LoggerAssumption, RedactedIsClean
    <2>3. CASE Write
        <3>1. PICK context \in Contexts, message \in Texts, metadata \in MetadataValues :
                  /\ console' = {SanitizeContext(context), Redact(message)}
                  /\ SendCentralLog({Redact(message)}, metadata)
            BY <2>3 DEF Write
        <3>2. \A t \in console' : Clean(t)
            BY <2>2, <3>1, ContextIsClean
        <3> QED  BY <2>1, <2>2, <3>1, <3>2, SentIsClean DEF LogsAreClean
    <2>4. CASE WriteError
        <3>1. PICK context \in Contexts, message \in Texts, trace \in Texts :
                  /\ console' = {SanitizeContext(context), Redact(message), Redact(trace)}
                  /\ SendCentralLog({Redact(message)}, {})
            BY <2>4 DEF WriteError
        <3>2. \A t \in console' : Clean(t)
            BY <2>2, <3>1, ContextIsClean
        <3> QED  BY <2>2, <3>1, <3>2, SentIsClean DEF LogsAreClean
    <2>5. CASE Audit
        <3>1. PICK context \in Contexts, record \in AuditRecords :
                  LET line == {Redact(leaf.of) : leaf \in
                                 {l \in TextFields(record, AuditFields) :
                                     AuditValueKept(l.of, l.path[1].key)}}
                  IN  /\ console' = {SanitizeContext(context)} \cup line
                      /\ SendCentralLog(line, record)
            BY <2>5 DEF Audit
        <3> DEFINE line == {Redact(leaf.of) : leaf \in {l \in TextFields(record, AuditFields) :
                                                          AuditValueKept(l.of, l.path[1].key)}}
        <3>2. \A t \in line : t \in Seq(Piece) /\ Clean(t) /\ Whole(t) /\ NothingPrivate(t)
            BY <2>1, KeptFieldsAreClean DEF AuditValueKept
        <3>3. console' = {SanitizeContext(context)} \cup line /\ SendCentralLog(line, record)
            BY <3>1
        <3> HIDE DEF line
        <3>4. \A t \in console' : Clean(t)
            BY <3>2, <3>3, ContextIsClean
        <3> QED  BY <2>1, <3>2, <3>3, <3>4, SentIsClean DEF LogsAreClean
    <2>6. CASE UNCHANGED logVars
        BY <2>6 DEF logVars, LogsAreClean
    <2> QED  BY <2>3, <2>4, <2>5, <2>6 DEF LogNext
<1> QED  BY <1>1, <1>2, PTL DEF LogSpec

=============================================================================
