---------------------------- MODULE AdminConsole ----------------------------
(***************************************************************************)
(* The administrators' console: the script of the page /admin/orders in    *)
(* one browser tab.  Its session storage survives a load of the page, its  *)
(* screen does not; every panel is drawn by the answer of a request, and   *)
(* answers arrive in any order, whatever the tab has done since.           *)
(***************************************************************************)
EXTENDS FiniteSets, Naturals, Sequences

CONSTANTS
    Tokens,         \* what Auth hands out
    Readers,        \* those whose bearer may read the console's routes
    Actors,         \* those whose bearer may run actions
    ConsoleOrders,
    NoToken, NoOrder,
    MaxSignIns,     \* bound: clicks on "Sign in"
    MaxCalls        \* bound: requests on their way when another is made

VARIABLES
    session,    \* sessionStorage: the token and the nonce of a sign-in, 0 for none
    screen,     \* what the page shows, and the selected order
    calls,      \* requests not yet answered; two of the same content are one
    signIns,    \* what became of each nonce this tab has issued
    late        \* an answer was drawn that newer events had overtaken

consoleVars == <<session, screen, calls, signIns, late>>

ASSUME ConsoleAssumption ==
    /\ Readers \subseteq Tokens /\ Actors \subseteq Tokens
    /\ NoToken \notin Tokens /\ NoOrder \notin ConsoleOrders
    /\ MaxSignIns \in Nat

Panel == {"rows", "operations", "diagnosis", "actions"}

\* shown: whose token fetched what a panel shows.
EmptyScreen ==
    [locked |-> TRUE, shown |-> [p \in Panel |-> NoToken], selected |-> NoOrder,
     heading |-> "Locked", detail |-> NoOrder, detailBy |-> NoToken]

ConsoleInit ==
    /\ session = [token |-> NoToken, nonce |-> 0]
    /\ screen = EmptyScreen
    /\ calls = {}
    /\ signIns = <<>>
    /\ late = FALSE

-----------------------------------------------------------------------------

Call(kind) == [kind |-> kind, order |-> NoOrder, token |-> session.token, newest |-> TRUE]

\* A load of the page: whatever ran in it is gone.
LoadPage(token, locked) ==
    /\ screen' = [EmptyScreen EXCEPT !.locked = locked]
    /\ calls' = IF token = NoToken \/ locked THEN {}
                ELSE {[Call("rows") EXCEPT !.token = token]}
    /\ late' = FALSE

\* hostedAuthUrl: the tab remembers a new nonce and leaves for Auth.
SignIn ==
    /\ Len(signIns) < MaxSignIns
    /\ signIns' = Append([n \in DOMAIN signIns |->
                            IF signIns[n] = "open" THEN "abandoned" ELSE signIns[n]], "open")
    /\ session' = [session EXCEPT !.nonce = Len(signIns) + 1]
    /\ LoadPage(NoToken, TRUE)

\* Mutant: a fragment without state matches a tab that waits for none.
FragmentMatchesLoosely(token, returned, expected) == token # NoToken /\ returned = expected

\* consumeHostedAuthFragment: 0 stands for a missing state.
FragmentMatches(token, returned, expected) ==
    token # NoToken /\ expected # 0 /\ returned = expected

\* The page is opened by Auth's redirect, or again from the history or a link
\* with the fragment of an earlier sign-in, of another tab, or without state.
OpenWithFragment ==
    \E token \in Tokens \cup {NoToken}, returned \in 0..MaxSignIns + 1 :
        LET accepted == FragmentMatches(token, returned, session.nonce)
        IN  /\ session' = [token |-> IF accepted THEN token ELSE session.token, nonce |-> 0]
            /\ signIns' = [n \in DOMAIN signIns |->
                             IF accepted /\ n = returned THEN "used"
                             ELSE IF signIns[n] = "open" THEN "abandoned" ELSE signIns[n]]
            /\ LoadPage(session'.token, ~accepted)

\* The page is opened without a fragment: a stored token is used.
Reload ==
    /\ LoadPage(session.token, session.token = NoToken)
    /\ UNCHANGED <<session, signIns>>

\* The handler of "Clear token"; requests on their way are not aborted, and the
\* text of an action's last result, which is not modelled, stays.
ClearToken ==
    /\ session' = [token |-> NoToken, nonce |-> 0]
    /\ screen' = EmptyScreen
    /\ signIns' = [n \in DOMAIN signIns |-> IF signIns[n] = "open" THEN "abandoned" ELSE signIns[n]]
    /\ UNCHANGED <<calls, late>>

-----------------------------------------------------------------------------

\* loadDashboard: without a token the page is locked and nothing is asked.
LoadDashboard ==
    /\ Cardinality(calls) < MaxCalls
    /\ IF session.token = NoToken
       THEN screen' = [screen EXCEPT !.locked = TRUE] /\ UNCHANGED calls
       ELSE calls' = calls \cup {Call("rows")} /\ UNCHANGED screen
    /\ UNCHANGED <<session, signIns, late>>

\* loadDiagnostics and runApprovedAction, whose button the catalog enables.
AskPanel ==
    /\ Cardinality(calls) < MaxCalls
    /\ \E kind \in {"diagnosis", "action"} :
          /\ kind = "action" => screen.shown["actions"] # NoToken
          /\ calls' = calls \cup {Call(kind)}
    /\ UNCHANGED <<session, screen, signIns, late>>

\* Mutant: the heading keeps the status of the order shown before.
ChosenSilently(o) == [screen EXCEPT !.selected = o]

Chosen(o) == [screen EXCEPT !.selected = o, !.heading = "Loading"]

\* loadDetail: a click on a row.
LoadDetail ==
    /\ Cardinality(calls) < MaxCalls
    /\ screen.shown["rows"] # NoToken
    /\ \E o \in ConsoleOrders :
          /\ screen' = Chosen(o)
          /\ calls' = {[c EXCEPT !.newest = c.newest /\ c.kind # "detail"] : c \in calls}
                        \cup {[Call("detail") EXCEPT !.order = o]}
    /\ UNCHANGED <<session, signIns, late>>

-----------------------------------------------------------------------------

\* A call made with a token the tab no longer holds, or before a newer one.
Overtaken(c) == ~c.newest \/ c.token # session.token

\* api succeeded: the guard of the route knows the token's bearer.
Succeeds(c) ==
    /\ c \in calls
    /\ c.token \in (IF c.kind = "action" THEN Actors ELSE Readers)
    /\ late' = (late \/ Overtaken(c))
    /\ UNCHANGED <<session, signIns>>

\* The follow-up requests of a dashboard carry the token held by then.
RowsArrive(c) ==
    /\ c.kind = "rows" /\ Succeeds(c)
    /\ screen' = [screen EXCEPT !.locked = FALSE, !.shown["rows"] = c.token]
    /\ calls' = (calls \ {c}) \cup {Call("operations"), Call("actions")}

\* renderOperations, renderDiagnostics
PanelArrives(c) ==
    /\ c.kind \in {"operations", "diagnosis"} /\ Succeeds(c)
    /\ screen' = [screen EXCEPT !.shown[c.kind] = c.token]
    /\ calls' = calls \ {c}

\* renderActionCatalog: the button is enabled for those who may run actions.
CatalogArrives(c) ==
    /\ c.kind = "actions" /\ Succeeds(c)
    /\ screen' = [screen EXCEPT !.shown["actions"] = IF c.token \in Actors THEN c.token ELSE NoToken]
    /\ calls' = calls \ {c}

\* runApprovedAction shows the result and loads the dashboard again.
ActionDone(c) ==
    /\ c.kind = "action" /\ Succeeds(c)
    /\ IF session.token = NoToken
       THEN screen' = [screen EXCEPT !.locked = TRUE] /\ calls' = calls \ {c}
       ELSE calls' = (calls \ {c}) \cup {Call("rows")} /\ UNCHANGED screen

\* renderDetail: not compared with the selected order.
DetailArrives(c) ==
    /\ c.kind = "detail" /\ Succeeds(c)
    /\ screen' = [screen EXCEPT !.heading = "Status", !.detail = c.order, !.detailBy = c.token]
    /\ calls' = calls \ {c}

\* No answer, an error, or a token that is missing, expired or without the role.
Fails(c) ==
    /\ c \in calls
    /\ calls' = calls \ {c}
    /\ screen' =
          CASE c.kind = "rows" -> [screen EXCEPT !.locked = TRUE]
            [] c.kind = "detail" -> [screen EXCEPT !.heading = "Unavailable"]
            [] c.kind = "action" -> screen
            [] OTHER -> [screen EXCEPT !.shown[c.kind] = NoToken]
    /\ late' = (late \/ Overtaken(c))
    /\ UNCHANGED <<session, signIns>>

ConsoleNext ==
    \/ SignIn
    \/ OpenWithFragment
    \/ Reload
    \/ ClearToken
    \/ LoadDashboard
    \/ AskPanel
    \/ LoadDetail
    \/ \E c \in calls :
          \/ RowsArrive(c)
          \/ PanelArrives(c)
          \/ CatalogArrives(c)
          \/ ActionDone(c)
          \/ DetailArrives(c)
          \/ Fails(c)

ConsoleSpec == ConsoleInit /\ [][ConsoleNext]_consoleVars

-----------------------------------------------------------------------------

(***************************************************************************)
(* The page shows what the tab is signed in for: under the status of an    *)
(* order, the detail of the selected one, and in every panel data fetched  *)
(* with the token the tab holds, so nothing after it was cleared.  Only an *)
(* answer drawn after a newer selection or sign-out breaks this.           *)
(***************************************************************************)
ScreenIsOwn ==
    ~late =>
        /\ screen.heading = "Status" => screen.detail = screen.selected
        /\ screen.detailBy \in {NoToken, session.token}
        /\ \A p \in Panel : screen.shown[p] \in {NoToken, session.token}
        /\ screen.shown["actions"] \in Actors \cup {NoToken}

(***************************************************************************)
(* A token enters the session by the return from the tab's latest sign-in  *)
(* only, and each sign-in brings in one at most: no fragment without a     *)
(* state, of another tab or of a sign-in that was used, replaced or        *)
(* cleared is accepted, however often the page is opened with it.          *)
(***************************************************************************)
SessionIsOwn ==
    [][session'.token \notin {NoToken, session.token} =>
          \E n \in DOMAIN signIns : signIns[n] = "open" /\ signIns'[n] = "used"]_consoleVars

=============================================================================
