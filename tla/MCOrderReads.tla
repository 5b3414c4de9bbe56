---------------------------- MODULE MCOrderReads ----------------------------
(***************************************************************************)
(* A small instance for TLC of what is read: four orders are more than     *)
(* three pages of one, two subjects and guests, and every kind of caller;  *)
(* the administrators' reports over keys with and without a bar, their     *)
(* detail page, and their console with a token that may act and one that   *)
(* may not.  The four share no state, so one is explored while the others  *)
(* have not begun.                                                         *)
(***************************************************************************)
EXTENDS LifecycleView, AdminDetail, AdminConsole

Person(roles, sub) == [roles |-> roles, sub |-> sub, marked |-> FALSE, otherAccess |-> FALSE]

\* An administrator, two services, and people Auth knows by a subject, without
\* one, from marathon only, and from marathon and a shop.
MCCallers ==
    {Person({"global:superadmin"}, "anna"), Person({"internal:flipflop:service"}, NoSubject),
     Person({"internal:catalog:service"}, NoSubject),
     Person({}, "anna"), Person({"app:shop:user"}, NoSubject),
     Person({"app:marathon:user"}, "anna"),
     [Person({}, "anna") EXCEPT !.marked = TRUE, !.otherAccess = TRUE]}

Line(s) == [l \in {"l1"} |-> s]

TwoLines(s, t) == [l \in {"l1", "l2"} |-> IF l = "l1" THEN s ELSE t]

\* Unpaid, dispatched with one line shipped, not received, delivered, and a
\* guest's that overlapping payment reports left handed over and unpaid.
MCOrders ==
    {[status |-> "pending", payment |-> "pending", handoff |-> "reserved",
      fulfillment |-> "none", channel |-> "flipflop", owner |-> "anna",
      items |-> TwoLines("pending", "pending")],
     [status |-> "confirmed", payment |-> "paid", handoff |-> "fulfilled",
      fulfillment |-> "none", channel |-> "flipflop", owner |-> "anna",
      items |-> TwoLines("shipped", "pending")],
     [status |-> "shipped", payment |-> "paid", handoff |-> "fulfilled",
      fulfillment |-> "not_delivered", channel |-> "flipflop", owner |-> "anna",
      items |-> TwoLines("shipped", "shipped")],
     [status |-> "delivered", payment |-> "paid", handoff |-> "fulfilled",
      fulfillment |-> "delivered", channel |-> "allegro", owner |-> "boris",
      items |-> Line("shipped")],
     [status |-> "pending", payment |-> "pending", handoff |-> "fulfilled",
      fulfillment |-> "none", channel |-> "allegro", owner |-> NoSubject,
      items |-> [l \in {"l2"} |-> "pending"]]}

Filters(application, service, state, channel, from, search) ==
    [application |-> application, service |-> service, state |-> state,
     channel |-> channel, from |-> from, search |-> search]

MCFilters ==
    {Filters("", "", "", "", 0, <<>>), Filters("", "", "pending", "", 0, <<>>),
     Filters("FlipFlop Storefront", "", "", "", 0, <<>>),
     Filters("Allegro Marketplace", "", "", "", 0, <<>>),
     Filters("FlipFlop Storefront", "allegro-service", "", "", 0, <<>>),
     Filters("", "flipflop-service", "confirmed", "flipflop", 2, <<"a">>)}

Identity(channel, account, external) ==
    [channel |-> channel, account |-> account, external |-> external]

\* The last two are different keys the overview joins to the same text.
MCKeys ==
    {Identity("flipflop", <<>>, <<"a">>), Identity("allegro", <<>>, <<"a">>),
     Identity("flipflop", <<"a">>, <<"|", "a">>), Identity("flipflop", <<"a", "|">>, <<"a">>)}

MCActors ==
    {{"global:superadmin"}, {"internal:orders:action-admin"}, {"internal:orders:operator"},
     {"app:shop:user"}}

Amount(currency, cents, ofProduct) ==
    [currency |-> currency, cents |-> cents, ofProduct |-> ofProduct]

MCMoney ==
    <<Amount("CZK", 900, 500), Amount("EUR", 50, 0), Amount("CZK", 300, 300), Amount("EUR", 70, 70)>>

\* Nothing but the order; a status and dates, one of them before the order; a
\* delivery without a date; a correction, and a move to another order.
MCParcelBodies ==
    {[orderId |-> "this"],
     [orderId |-> "this", status |-> "delivered", created |-> 3, shipped |-> 5, delivered |-> 1],
     [status |-> "delivered"],
     [created |-> 1, shipped |-> 0],
     [orderId |-> "another"]}

MCInit == Init /\ AdminInit /\ DetailInit /\ ConsoleInit

MCNext ==
    \/ AdminInit /\ DetailInit /\ ConsoleInit /\ ViewNext
          /\ UNCHANGED <<adminVars, detailVars, consoleVars>>
    \/ Init /\ DetailInit /\ ConsoleInit /\ AdminNext
          /\ UNCHANGED <<vars, detailVars, consoleVars>>
    \/ Init /\ AdminInit /\ ConsoleInit /\ DetailNext
          /\ UNCHANGED <<vars, adminVars, consoleVars>>
    \/ Init /\ AdminInit /\ DetailInit /\ ConsoleNext
          /\ UNCHANGED <<vars, adminVars, detailVars>>

MCSpec == MCInit /\ [][MCNext]_<<vars, adminVars, detailVars, consoleVars>>

=============================================================================
