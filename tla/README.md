# A TLA+ model of orders-microservice

This directory holds TLA+ modules for the order hub in `src/`, the TLC configurations that
model-check them on small instances, and theorems about them proved with TLAPS. Paths below are
relative to the service's own `src/` unless they start with `docs/`, `scripts/` or `migrations/`.

## 1. The system

One NestJS process, one Node thread, PostgreSQL through TypeORM, RabbitMQ for events, and HTTP
calls to Warehouse, Catalog, an AI service and Auth. A handler runs alone between two `await`s and
any other handler may run at each of them. There is no row lock and no version column:
`repository.save` writes back every column the handler read, so every read-await-save sequence is
a place where two handlers can undo each other. Nothing is retried except events in the outbox.

| Component | State | Operations | Talks to |
| --- | --- | --- | --- |
| Status rules (`orders/status-transitions.ts`), lifecycle rules and views (`orders/order-lifecycle.ts`) | none (pure) | transition tables, cancellation approval, stage derivation, projection, stage transitions; filters, views, timelines, aggregates | called by every order handler and listing |
| Order processing (`orders/orders.service.ts`) | `orders` row, `warehouseHandoff` in it | `updateStatus`, `applyPaymentStatus`, `applyWarehouseFulfillmentStatus` | Warehouse, outbox; callers are Payments, Warehouse, administrators, channels |
| Order creation (`create`, `validateCreate`, `orders/create-order.dto.ts`) | `orders`, `order_items`, unique index `migrations/002` | validation and normalisation, idempotency lookup, transaction, reservation, events | Warehouse inside the transaction |
| Warehouse reservation client, fulfilment handoff client | none here; stock, reservations and fulfilment orders at Warehouse | reserve with compensation, fulfil, release, cancel; pairing of lines with reservations, fulfilment order | Warehouse over HTTP, no timeout |
| Order items (`items/`) | `order_items.fulfillmentStatus` | `updateFulfillmentStatus`, `addItem`, `findByOrder` | database only |
| Shipments (`shipments/`) | `shipments` rows | `create`, `updateTracking`, `updateStatus`, `findByOrder` | database only |
| Events and outbox (`orders/order-events.service.ts`) | `order_event_outbox`, `this.channel`, retry flag | publish, retry pass, connect, readiness, start and stop | RabbitMQ without confirms |
| Pricing suggestions (`pricing/`) | `price_suggestion` | generate, approve, reject | AI service, Catalog, RabbitMQ |
| Read routes and role guard (`orders.controller.ts`, `auth/jwt-roles.guard.ts`) | none | listings, detail, statistics, replay listing; `canActivate` | Auth |
| Administrators' service (`admin/`) | none; writes through `updateStatus` | dashboard, detail, operations overview, diagnosis, action catalog, order-status action | database |
| Administrators' console (`admin/admin-ui.ts`) | session storage and screen of one browser tab | sign-in, load, select, act, clear | the admin routes, Auth |
| Credential self-report (`health/`) | none | probe the Warehouse credential, post the verdict | Warehouse, monitoring |
| Logger (`logger/`) | none | redact, cut, print, send | central log |
| Health, business health, landing page | none | constant answers; outbox readiness | - |

What is hard here, and the property each component is about:

* **Order processing.** Three handlers with up to six awaits each on one row. Sequences of payment,
  status and warehouse reports must not leave stock consumed for an unpaid order, unpay a paid one,
  pay a cancelled one or move the status off its table; interleavings and partial warehouse
  failures must not announce what has not happened or record an outcome Warehouse never produced.
* **Creation.** Two creates with one key race to the unique index while each holds a transaction
  open across HTTP calls. One order per key, every committed order fully reserved, failed creates
  compensated, replays answered with the right order, nobody waiting for ever.
* **Items and shipments.** Whole rows are written back after an await: an item must not go back, or
  tracking evidence vanish, by anything but a stale copy.
* **Outbox.** The publisher and the retry pass each write back their own copy of a row.
  Stored events must be sent in the end, attempts stay bounded, and readiness, which counts with two
  queries and then looks at the channel, must miss no row but the one those queries let through.
* **Fulfilment.** Requests to fulfil name no quantity and reservations expire unannounced: lines
  that look alike must each be handed over with a reservation of their own.
* **Pricing.** Parse an AI answer, check, await Catalog, save. The limit of 30
  percent is checked on the price the AI named and the price the column rounds is applied: it must
  stay within the limit and half a cent, and never round to nothing; an approved row must have been applied; a
  decision is final.
* **Reads.** Roles of services and people share one guard; a filter that runs after the page was
  cut must not lose orders; several queries without a transaction must agree.
* **Administration.** Reports and a detail page put together from several queries; a console whose
  panels are drawn by answers in any order and whose session comes from a URL fragment.
* **Reporting.** An outage or a rotation must not pass for a refused credential, while a redirected
  probe is judged by wherever it ends; a value cut in the middle must not escape redaction.

`PROJECT.json` lists the hazards line by line, with the property for each or the reason there is none.

## 2. The modules

| Module | Models | One action per |
| --- | --- | --- |
| `StatusTransitions` | `status-transitions.ts` as sets and operators; a request string is the class it is normalised to | - |
| `OrderLifecycle` | stage derivation in the code's precedence, projection, strict and coarse stage tables | - |
| `OrderProcessing` | the row, the items, Warehouse, the events and every handler in flight | stretch between two awaits |
| `PaymentBoundary` | abstract specification: what Orders promises Payments and Warehouse | promise |
| `Shipments` | the shipment rows and the requests that write them back | stretch between two awaits |
| `CreateOrderRequest` | the body of a create: which is refused, what it is normalised to, when two order the same | - |
| `OrderCreation` | create and validate calls, the index, the lines Warehouse holds, the two events | stretch between two awaits |
| `OrderRegister` | abstract specification: the create endpoint as a register of orders | promise |
| `EventOutbox` | outbox rows, publishing calls, the retry pass, channel, broker, process | stretch between two awaits |
| `OutboxReadiness` | a request for `/health/order-events` beside the outbox: two counts, then the channel | query |
| `FulfillmentHandoff` | what follows a payment request by request: reservations, pairing, fulfilment order | HTTP request |
| `PricingSuggestions` | AI answers, prices as computed and as stored, rows, generators and reviewers in flight, what Catalog accepted | stretch between two awaits |
| `OrderReads` | one request on any route through guard, query and answer, while the table moves | query |
| `LifecycleView` | what the listings say of an order, their aggregates, the statistics' tallies and revenue | - (extends `OrderReads`) |
| `AffinityReplay` | the replay listing for Marketing while orders are placed and moved | query |
| `AdminService` | dashboard, overview, diagnosis, catalog, order-status action while orders are written | query |
| `AdminDetail` | the detail page: order, shipments, timeline, log | query |
| `AdminConsole` | the script of the page `/admin/orders` in one tab | event of the browser |
| `CredentialSelfReport` | half-hourly runs, Warehouse's answers, rotations, what monitoring received | HTTP request |
| `LoggerService` | redaction and cutting of texts and metadata, what is printed and sent | log call |
| `OrderProcessing_proofs`, `PaymentBoundary_proofs`, `EventOutbox_proofs`, `PricingSuggestions_proofs`, `OrderReads_proofs`, `Reports_proofs`, `OrderCreation_proofs`, `SideServices_proofs` | theorems (`EventOutbox_proofs` of `OutboxReadiness` too, `Reports_proofs` of `LifecycleView`, `AdminService` and `AdminDetail`; `SideServices_proofs` of `Shipments`, `CredentialSelfReport`, `AdminConsole`, `FulfillmentHandoff`, `AffinityReplay` and `LoggerService`) | - |
| `MC...` | constants too large for a `.cfg` and symmetry sets; `MCServices`, `MCOrderItems` and `MCOrderReads` put modules that share no state into one instance | - |

`OrderLifecycle` extends `StatusTransitions`; `OrderProcessing` and `OrderReads` extend
`OrderLifecycle`; `OutboxReadiness` extends `EventOutbox`; `OrderCreation` extends `CreateOrderRequest`
and instantiates `OrderRegister`; `OrderProcessing` instantiates `PaymentBoundary` under a refinement mapping
(`paid` is `payment = "paid"`, `consumed` the items Warehouse has fulfilled, `told` whether the paid
event was published).

How state and code correspond:

* **`OrderProcessing`**: `row` is the columns the handlers decide on (`status`, `paymentStatus`,
  `paymentReferenceId`, `warehouseHandoff.status` and its fulfilment report, the idempotency key of
  `statusTransitionAudit`). `job[h]` is a handler's local state: its copy of the entity, the items
  it read, the stage before the change, the warehouse call and events still to come. A handler is
  `UpdateStatus`, `ApplyPaymentStatus` or `ApplyWarehouseFulfillmentStatus`, then `Save`,
  `CallWarehouse`, `Dispatch`, `SaveHandoff`, `AnnounceStage` or `RefuseStage`, `PublishCoarse`, as
  far as its kind goes. `CallWarehouse` is a whole loop of POSTs: any part of the items may have
  been acted on when it stops, an answer that was lost included. `Crash` drops the handlers and
  keeps what was committed; `SaveFails` is a save that throws. A request the code rejects, or
  answers as a replay, changes nothing and is a stuttering step. Items are written by `ReadItem`
  and `SaveItem`, and inserted by `AddItem` whatever the order's status. `Init` is the order as
  `create` commits it.
* **`Shipments`**: `shipmentWrites` are the requests that have read a row and not yet saved it, each
  with the row it read and the entity it will write back.
* **`CreateOrderRequest`**, **`OrderCreation`**: a text is a word with what the code tells apart
  about its spelling (blanks around it, upper case, too long). `Accepted` is every check of
  `create-order.dto.ts`, `Normalized` what is stored, `Matching` the replay comparison with the lines
  in the order they were loaded. `moved` says whether any compared column has changed since. `Held`
  is PostgreSQL's unique index making the second insert wait for the first transaction. `lost` is a
  history variable: a fault hit this call. In `OrderRegister` a key's entry is the committed order.
* **`EventOutbox`**: `sent` counts writes to a channel, which is all the code can know: there are no
  publisher confirms, and `publish` returning `false` means a full buffer, not a lost message. A
  channel is absent, open, or broken (closed by the broker, which the code is not listening for).
* **`OutboxReadiness`**: `check` is one request. `Promise.all` runs the two counts in either order and
  publishers and the retry pass go on between them; `this.channel` is read after both. `asked` is
  history: the events stored when the request came. `slipped` is history: rows still pending when
  the failed ones were counted and failed when the pending ones were, which neither count sees.
* **`FulfillmentHandoff`**: a longer look at `CallWarehouse` and `Dispatch`. The i-th reservation was
  made for the i-th line; which one a fulfil request meets is Warehouse's choice (`FulfilLine`), the
  order of the list it returns too (`FetchReservations`). `Lapse` is expiry or cancellation there.
* **`PricingSuggestions`**: a price is a whole number of units of which a cent has `Cent`; the change is
  that of the price as the AI named it from the unrounded average (`current`; a float column keeps it),
  while the price column keeps, and Catalog is sent, what `Rounded` makes of the price.
  An answer of the AI service is a body and the texts in it that may be JSON. `applied` is what Catalog accepted, whether or not the answer arrived.
  `overlapped` is history: two reviews of the row overlapped.
* **`OrderReads`**: orders are numbered by date. `Asked` is what the caller's scope and the channel
  filter leave. Callers are what Auth may answer; the guard's
  decision is `Permitted`, over the role list of every route, writing ones included. `Place` and
  `Change` are the effect of the other handlers. `LifecycleView` computes what is told of the page.
* **`AffinityReplay`**: orders are numbered by creation and carry the date the channel gave.
* **`AdminService`**, **`AdminDetail`**: `desk` and `detail` are a request and how far its queries are;
  `book` is the orders table, with a key's parts as sequences of characters because the code joins
  them with a bar, and `card` with `parcelRows` the order and the shipments of a detail page.
  `LinkParcel` saves what the body of a create says, over an existing row too if it names one: `given`
  is history, some body set the row's status or dates. The order is created at time 2, so that a body
  may name an earlier one. The database lists shipments of one date as it likes (`Listings`).
* **`AdminConsole`**: `session` survives a load of the page, `screen` does not; `calls` are requests on
  their way with the token they carry; a nonce is the number of the sign-in that made it. `late` is
  history: an answer was drawn that a newer selection, sign-in or sign-out had overtaken.
* **`CredentialSelfReport`**: `principal` is what Warehouse thinks of the credential now, `during`
  what it has thought since a run's probe began. `fetch` follows redirects, so that `ProbeRedirected` takes
  the status of whatever the probe ends at. `inbox` holds the report monitoring received last.
* **`LoggerService`**: a text is a sequence of pieces; the head and tail of a value that a pattern
  knows are two, so that cutting may part them. Metadata are the leaves of the object that was logged,
  each under its path of entries and items: the recursion of `sanitizeMetadataValue` ends at one depth
  of each path (`Reached`). What callers pass has values whole, and private ones only in fields whose
  name says so: nothing in the code can know others.

Code outside `src/` is modelled only by how it is used: a pod restart (`Crash`, `Stop`), the broker
going and coming back, Warehouse and Catalog acting, refusing, or acting with the answer lost.

## 3. What the runs check

Passing runs:

| Run | Instance | Shows |
| --- | --- | --- |
| `processing_serial` | one handler at a time, four requests of every kind, one fault, two payment references, orders created unpaid or paid | `StockConsumedOnlyIfPaid`, `PaidIsFinal` (of requests that do not overlap), `CancelledNeverPaid`, `StatusFollowsTable`, `CancelledHoldsNoStock`, that the handlers implement `PaymentBoundary` (`BoundaryKept`), and that every accepted request is answered or waits for Warehouse (`HandlersSettle`) |
| `processing_overlap` | two handlers at every interleaving, three requests, two items, one fault | `AnnouncedAfterWarehouse`, `DispatchedOnlyIfConsumed`, `HandoffTruthful` |
| `processing_items` | two status handlers against two item handlers and an added item, three and four requests; two shipment requests of four on one shipment | `ShippedMeansItemsShipped` although the handlers check a copy of the items, `ItemsMoveForward`, `EvidenceKept` |
| `creation` | three calls, fifteen bodies (five acceptable ones, of which two write one order and two a permutation of its lines, and ten refused), two lines, one fault | `OneOrderPerKey`, `CommittedIsReserved`, `AnnouncedOnce`, `FailedHoldsNothing`, `AnswersAgree`, `ConflictHasCause`, `EveryCallEnds`, and that the endpoint implements `OrderRegister` (`RegisterKept`) |
| `outbox` | two order events and one pricing event, batch of one, two attempts, one fault; readiness asked while one event is stored | `AttemptsBounded`, `ReadyMeansSent` (`ready` tells that every event stored at the request was written to the channel, but for a row that failed between the two counts), `DuplicatesBounded` (an event is written at most twice per attempt, and once more per fault), `StoredIsSent`, `OutboxDrains` |
| `pricing` | two products, two rows, one generator, two reviewers, prices in tenths of a cent, AI answers at both sides of the limit, past it by what rounding hides, in texts, useless or rounded to nothing, two faults | `ApprovedIsApplied` (within the limit and half a cent, at a real price), `DecisionsAreFinal`, `OneOpenSuggestion` |
| | beside it: two runs of the reporter with two rotations and redirects; log calls of seven texts in metadata up to and past every limit; nine paid orders of up to three lines, two lapses; four replayable orders, sixteen queries and more | `VerdictHonest`, `LogsAreClean`, `HandoffSound`, `ReplaySound` |
| `reads` | seven callers, every route, four orders of five kinds, limits one and two, sample of two, one change while counting | `OnlyOwnOrders`, `PageIsNewestMatching`, `ReportsAgree` (statistics, views and aggregates) |
| | beside it: three orders under four keys, of which two are joined to one text, and six filters; an order and two shipments, created from five bodies, moved by five writes around two queries; a tab with two tokens, two orders, two sign-ins and two requests on their way | `AdminToldTruth`, `ScreenIsOwn`, `SessionIsOwn` |

The modules of `pricing` and of `reads` that share no state with the first one are explored in the
same run, each while the others have not begun: their joint behaviours add no state worth seeing.

`processing_serial` checks the type invariant of its module too; those the others have are theorems. Deadlock is checked
where the system never stops (`outbox`, `reads`); in the others a bounded number of requests runs out.

Where a property is stated for less than every behaviour the limit is in its text, because the code
does not keep it further: the serial properties (`PaidIsFinal` among them) need requests on an order not to overlap
(`Overlap = FALSE`), `ShippedMeansItemsShipped` no warehouse report and no item added or saved stale afterwards,
`ItemsMoveForward` and `EvidenceKept` no such stale save, `ScreenIsOwn` no overtaken answer,
`ReadyMeansSent` no row that fails between the two counts, `ApprovedIsApplied` no more than the half
cent of the rounding, `VerdictHonest` no redirect, `DetailTruthful` (in `AdminToldTruth`) no shipment
whose status or dates a create request gave,
`ReportsAgree` (that a timeline ends at the order's stage) no order left handed over unpaid by overlapping
requests,
`FailedHoldsNothing` a call no fault hit, `DecisionsAreFinal` and `OneOpenSuggestion` rows whose
reviews did not overlap and one generation at a time.

Runs that find a disagreement between a document or test and the code:

| Run | Property | What happens |
| --- | --- | --- |
| `processing_double_payment` | `PaidAnnouncedOnce` | two overlapping reports of one payment both find it unpaid and both publish the paid event; `docs/orchestrator/PAYMENT_STATUS_BOUNDARY.md:63` says a replay does not |
| `processing_refused_stage` | `StageChangesAnnounced` | a payment that succeeds after a failed one is saved, then `payment_failed` to paid is refused as a stage transition: the request fails and no event is published; `SYSTEM.md:83` says every change is |
| `processing_warehouse_report` | `EveryReportFollowsTable` | a warehouse report overwrites the status with its projection, backwards or across steps; `docs/orchestrator/PROJECT_INVARIANTS.md:33` and `ORDER_STATUS_TRANSITIONS.md:70` forbid it |
| `creation_retry` | `RetryReplays` | a retry with the same key and payload is a conflict once the order has moved; `ORDER_IDEMPOTENCY_CONTRACT.md:60` calls it safe and takes the fingerprint at create time |
| `pricing_double_approval` | `ApprovedOnce` | two overlapping approvals both write the price and publish; `scripts/verify-pricing-safety.js:154` has a second approval refused |

## 4. Bounds, and why they are enough

Every constant named `Max...`, the sets of handlers, calls, runs, tokens and rows, `Lines`, `BatchSize`,
and the sets of bodies, orders, keys, texts and queries an instance may meet are the only bounds, all
constants of the modules.

* Two handlers are enough for every pairwise race on a row; three requests let one of them follow
  both. Four serial requests reach failed, paid, cancelled and a report after it. Two items make a
  partial warehouse loop; two references make a replacement.
* Three creates are two racing ones and a retry after either outcome.
* With a batch of one and two events, a row waits behind a full batch; two attempts against one
  fault are the least for which an event must still be sent. With as many faults as attempts an
  event may be lost for good, as in the code (rows that used up their attempts are not retried).
  Readiness is asked while one event is stored; another may be stored, fail and be retried beside it.
  Once a count has found a row the answer is certain, and the outbox stands still until it is given.
* Four orders exceed the three pages of one the stage filter is given, and two exceed the sample; they
  are of two customers, so that rows out of a caller's scope lie between those within.
* Five writes to an order and its shipments make a shipment that is created, picked up, delivered and
  overwritten, around the two queries of the page.
* Tenths of a cent are enough for a price to round either way at the limit.
* Three lines of which two are alike, and two lapses, make every way a reservation can be missed or
  met twice; an order of another customer in Warehouse's answer must not be used.
* Two tokens, two orders and two requests on their way make every pair of answers that overtake each
  other; two sign-ins make a fragment that is stale, and one of another tab is numbered past them.
* Texts of four pieces are longer than the limit of three, with a value across the cut; metadata
  reach one level below the depth limit and one item past the size limits. The code's own limits
  (500 rows, 80 keys, 1000 characters and so on) are constants here and small.
* A page of one to three against four replayable orders is short, full and cut in every way.

Every property has a mutant: a plausible bug (dropped guard, reset left out, swapped order, off by
one), written beside the definition it replaces and marked `Mutant`, under which the run finds the
property violated.

## 5. Fairness

* `OrderProcessing`: weak fairness of a handler's own continuations (`OwnStep`). The database
  answers or rejects, and the publish functions catch every error. Nothing is assumed of Warehouse:
  its clients use `fetch` without a timeout, so a handler may wait there for ever, and
  `HandlersSettle` says so. No request has to arrive.
* `OrderCreation`: weak fairness of a started call's steps, Warehouse's answers included:
  `EveryCallEnds` asks whether calls block *each other*, which needs Warehouse to answer. The
  database grants a free index entry to one of the inserts that wait.
* `EventOutbox`: the event loop runs continuations and the `setInterval` pass; the database answers
  (an error is an answer); an outage ends and Kubernetes restarts the pod. Recording is not fair.
  A request for readiness changes nothing and is not fair.
* The other modules have no liveness property: nothing must happen eventually beyond a request's own
  end.

## 6. What is proved

For every value of the constants allowed by the modules' assumptions (any number of handlers,
items, requests, faults, events, orders, callers):

| Theorem | Module | States |
| --- | --- | --- |
| `TypeCorrect` | `OrderProcessing_proofs` | `Spec => []TypeOK` |
| `EventsFollowWarehouse`, `DispatchSafe`, `HandoffSafe` | `OrderProcessing_proofs` | the three properties of `processing_overlap`, with any overlap and any failure |
| `StockSafe`, `PaidFinal`, `CancelledStaysUnpaid` | `PaymentBoundary_proofs` | the payment properties, under `~Overlap` |
| `StatusOnTable`, `CancelledLetsGo` | `PaymentBoundary_proofs` | `StatusFollowsTable` and `CancelledHoldsNoStock`, under `~Overlap` |
| `ImplementsBoundary` | `PaymentBoundary_proofs` | `~Overlap` implies `Spec => Boundary!Spec`: refinement of `PaymentBoundary` |
| `ItemsGoForward` | `OrderProcessing_proofs` | `Spec => ItemsMoveForward`, with any overlap |
| `ShippedItemsStayShipped` | `OrderProcessing_proofs` | `FulfillmentReports = {}` implies `Spec => []ShippedMeansItemsShipped` |
| `TypeCorrect` | `OrderCreation_proofs` | `Spec => []TypeOK` |
| `OneOrder`, `Reserved`, `Announced`, `NothingHeld`, `Agreement`, `Refusals` | `OrderCreation_proofs` | the six safety properties of `creation`, for any calls, bodies and faults |
| `Implements` | `OrderCreation_proofs` | `Spec => Register!Spec`: refinement of `OrderRegister` |
| `TypeCorrect`, `AttemptsSafe`, `ReadinessSafe`, `DuplicatesFew` | `EventOutbox_proofs` | the outbox's type and safety invariants; `ReadinessSafe` is `ReadinessSpec => []ReadyMeansSent`, whatever happens between the counts |
| `TypeCorrect`, `ApprovalsApplied`, `DecisionsFinal` | `PricingSuggestions_proofs` | types, and what a decision on a suggestion means (a price applied is within the limit and half a cent), with any overlap of reviews and generations |
| `OneOpen` | `PricingSuggestions_proofs` | one generation at a time implies `Spec => []OneOpenSuggestion` |
| `TypeCorrect`, `OwnOrdersOnly` | `OrderReads_proofs` | the reads' type invariant, and that a person sees only their own orders |
| `NothingSkipped` | `OrderReads_proofs` | `Spec => PageIsNewestMatching`, for any limit, filter and table: an order of the caller's own is left out only behind a window full of the caller's own |
| `EvidenceSafe` | `SideServices_proofs` | `ShipmentSpec => EvidenceKept`, however requests overlap |
| `VerdictsHonest` | `SideServices_proofs` | `ReportSpec => []VerdictHonest`, with any runs, outages, rotations and redirects |
| `HandoffsSound` | `SideServices_proofs` | `HandoffSpec => []HandoffSound`, for any lines, reservations and lapses |
| `ReplaysSound` | `SideServices_proofs` | `ReplaySpec => ReplaySound`, for any table and query |
| `ReportsSound` | `Reports_proofs` | `ViewSpec => []ReportsAgree`: statistics, views and aggregates, for any table, sample and filter |
| `AdminSound` | `Reports_proofs` | `AdminSpec` and `DetailSpec` imply `[]AdminToldTruth`: dashboard, overview, diagnosis, catalog and detail page, whatever is written between their queries and whatever bodies shipments are created from |
| `LogsClean` | `SideServices_proofs` | `LogSpec => []LogsAreClean`, for any texts, metadata and limits |
| `ScreenSafe`, `SessionSafe` | `SideServices_proofs` | `ScreenIsOwn` and `SessionIsOwn`, for any tokens, orders, sign-ins and requests on their way |

Assumptions: `KeyAssumption`, `ProcessingAssumption`, `CreationAssumption`, `NothingAssumption`, `OutboxAssumption`,
`PricingAssumption`, `ReadsAssumption`, `ShipmentAssumption`, `ReportAssumption`, `ConsoleAssumption`,
`HandoffAssumption`, `ReplayAssumption`, `MoneyAssumption`, `AdminAssumption`, `DetailAssumption`,
`LoggerAssumption` (typing of the parameters, null values outside their sets, a default limit within
the largest one, texts with their values whole), which TLC evaluates in the runs. `~Overlap`,
the absence of warehouse reports and `OneGeneration` are not assumptions about the code but hypotheses
of theorems: the code serialises neither requests nor generations, and Warehouse may report.

The arguments:

* **With overlap** the three properties are not inductive: they say nothing of handlers in flight.
  `OverlapInvariant` adds that an entity in flight carries an outcome only if Warehouse acted on
  every item (`Truthful`), which survives being written back late because `applied` only grows, and
  that a handler with a paid or cancelled event to publish is the one that asks Warehouse, and has
  asked once past that await (`CallBacked`).
* **Without overlap** `SerialInvariant` says that one handler is in flight; that before its save
  its entity agrees with the row as far as payment goes, and after its save equals it
  (`EntityFollowsRow`); and that a handler still to consume stock or announce a payment is the
  first to do so (`FirstPaid`). The refinement then has one step per action: `Save` is
  `RecordReference` or a stutter, `CallWarehouse` is `Consume`, `PublishCoarse` is `Announce`.
* **The status, without overlap**: `StatusInvariant` stands beside `SerialInvariant`. An entity before
  its save is one lawful move from the row, and equals it in status afterwards (`EntityIsLawful`);
  and, short of a fault, an entity that is cancelled with stock held has a warehouse call ahead of
  it that lets the stock go, which none that comes later takes back (`LetsStockGo`).
* **Creation**: the properties speak of calls that have ended. `CreationInvariant` says of the others
  that a key has one owner, in a transaction or committed (`OneOwner`: the unique index); that what
  Warehouse holds for a call is what its counters `reserved` and `released` say, as long as nothing
  went wrong with it (`Reservations`, `Compensations`); that the events follow how far it is
  (`Announcements`); and that an answer names an order of the key the call asked for, which
  writes the same (`Answers`). `ConflictHasCause` rests on a lemma for each part of the replay comparison.
  In the refinement the register's entry of a key is the order committed under it (`Kept`), so that the
  commit is `Make`, a replay or conflict found on reading the request is `Consult`, and the calls to
  Warehouse and their compensation are stutters.
* **Outbox**: `OutboxInvariant` adds that every copy a retry pass holds had attempts left when it was
  read (so writing it back cannot exceed the maximum, whatever the publisher wrote meanwhile), that
  the publisher writes back the row with no attempt counted, and that every "accepted" in flight or recorded has
  sent its event. For `DuplicatesFew`, `CountInvariant` counts what each of the two holds: a copy of a
  row counts no more attempts than the row but once the publisher has marked it, every write by the
  publisher or by a pass is paid for by an attempt one of the two has counted or by a fault.
  Readiness: no step makes a row pending again, stores it anew or unsends an event (`RowsOnlyMove`), so
  that what a count has shown of the events asked about stays shown (`CheckInvariant`).
* **Items**: `WritesAccepted` says that the step a request is about to save was allowed from the
  status it read, so an item goes back only where that status is no longer the item's.
  `StatusesFit` says of the row's status and of every entity in flight, which may be written back
  late, that the items not written off are far enough for it. It survives a later item write because
  items move forward (`FitsStays`), and a handler that chooses a status has looked at the items.
* **Pricing**: `ReviewInvariant` says of every review in flight that its row is stored and was pending
  when read, that its price is the stored one (`RowKnown`), and that before its save the stored row
  still equals the copy unless reviews of it overlapped (`RowKept`); `RowsNear` says of every row that its price
  is the AI's but for half a cent. `OneOpen` adds `CheckHolds`: a
  generation that is past its query still finds no open suggestion for its product, since reviews
  open none (`NothingOpens`).
* **Reads**: `ReadsInvariant` adds that a person who is past the guard is on the customer route (the
  only one whose roles take a signed-in customer, the writing routes included), that pages and reports exist only at
  their ends of a request, and that a customer's page comes from `Scope`. `NothingSkipped` needs of the
  operator `Newest` only that what it leaves out is older than what it keeps (`NewestFirst`) and that
  it keeps n if there are n (`NewestSize`); both follow from the oldest and newest of a finite set.
* **Shipments**: no update erases evidence from the row it read (`NothingErased`), so that only the save
  of a copy that is no longer the row does. It uses that no body of a create or update says null for
  such a column.
* **Credential**: `ReportInvariant` says of every run in flight that `during` holds what Warehouse thinks
  now while it probes, and that the verdict it is about to post is honest of `during`.
* **Console**: `ConsoleInvariant` says that, while no answer was drawn late, a request for a detail on its way
  with the tab's token, and not overtaken by a newer one, asks for the selected order (`CallsAreOwn`),
  beside `ScreenIsOwn` itself, and that the nonce kept in the session is of an open sign-in (`NonceIsOpen`).
* **Handoff**: `HandoffInvariant` counts: while the loop runs, as many of the order's rows are fulfilled as
  lines were asked for, so that none is left to expire when it ends (`AllFulfilled`). `TakenIsTaken`
  shows that the recursive function by which lines take reservations exists, by a least counterexample
  (`StepByStep`), which stands in for induction; `NoPairing` is a pigeonhole argument over the
  lines that look alike.
* **Replay**: the oldest n of some rows are older than the others (`OldestAreOlder`) and no more than n
  (`OldestAreFew`), and a finite set of numbers can be listed (`RowsCanBeListed`).

* **Reports**: a section is a function from the values an attribute takes to how many orders take
  them, and its sum is the number of orders (`CountedOnce`), by adding values one at a time to a finite
  set (`SumUnfolds`, `StepByStep`). `ViewInvariant` adds that the sections of a report in the making were
  counted over the sample (`CountedSections`). That a timeline ends at the stage follows from the order in
  which the stages are told (`StoryGoesOn`, `TimelineEnds`).
* **Administration**: orders are only added to the book and keep their keys, so what was counted in an
  earlier query is still there (`SelectedGrows`); `AdminInvariant` says of each query already made what
  it has read. Two keys joined to one text have a bar in their parts (`Unjoined`: a text without other
  bars can be taken apart in one way; `BarInBoth`), so a duplicate the overview reports is one of
  those (`SharedFew`). The detail page: one clock dates every write, the dates of a shipment that no body
  gave follow its creation (`TablesDated`), and sorting by date ranks each fact after the later ones
  (`ListedLatestFirst`); the invariant keeps what the two queries have read beside it (`DetailRead`).
* **Logger**: `Redact` leaves no half of a value (`RedactedIsClean`), a prefix of a clean text is clean
  (`CutIsClean`), which is false of texts cut before they are redacted, and no path goes on below a
  sensitive name (`SanitizedIsClean`).

Left to TLC: everything with fairness (`HandlersSettle`, `EveryCallEnds`, `StoredIsSent`,
`OutboxDrains`), which the prover does not do. Every other property of a passing run is a theorem.

## 7. Running it

    tlc -workers 2 -config processing_serial.cfg MCOrderProcessing.tla
    tlc -workers 2 -config outbox.cfg MCEventOutbox.tla
    tlapm OrderProcessing_proofs.tla

and likewise for the others; `PROJECT.json` pairs each configuration with its module.

## 8. What is not modelled

* The health answer, the business-health envelope and the landing page are constants; the markup of
  the console is too. The list of integrations in the operations overview repeats environment variables.
* Masking of names, e-mails and tracking numbers on the administrators' pages, the wording and payloads
  of events, messages and logs, and the copying of fields into answers that decides nothing.
* The browser that opens `/admin/orders` in several tabs: session storage is a tab's own.
* The statistics' newest-orders history, and the order of two orders with one date, which SQL leaves
  open. The stage the statistics count by is derived from the product's own lines, so an order may
  count as handed to delivery when only that line has shipped; no document forbids it.
* What Catalog asks for a product between generation and approval: the code does not read it.
* `scripts/`, which verify a deployment and are no part of the service. They are read as documents.
* The normalisation of strings character by character: inputs are the classes the code tells apart.

Known to the model and forbidden by no document, so no property: events are delivered more than once
(`DuplicatesBounded` says how often) and in any order, an event that could not be stored is lost, a
suggestion whose price was applied may be rejected after a lost answer, a country name with an
accented letter is not recognised and the order is passed over for its address, a credential probe
that is redirected is judged by the page it ends at.

Forbidden by a document, done by the code, and excepted in the text of a property instead of shown
by a run of its own: of two overlapping requests the save of the older copy may take paid away
(`PAYMENT_STATUS_BOUNDARY.md:84`; `PaidIsFinal` is checked of requests in sequence only) or an item
back (`ORDER_STATUS_TRANSITIONS.md:98`; `ItemsMoveForward` says that nothing else does), and an applied
price may pass the limit of 30 percent by the half cent the column rounds (`ApprovedIsApplied`).

## 9. Plan

Done, in this order: the rules; order processing with its abstract boundary; creation; outbox;
pricing; reads; items and shipments; the body of a create and the register it implements; the
administrators' service and console; fulfilment handoff; views, aggregates and the replay listing;
credential reporter; logger; and the proofs of every safety property, action property and refinement
above. What is left:

1. Abstract specification of delivery (stored, then sent at least once) that `EventOutbox` implements,
   whose point is liveness and so is TLC's to check.
2. Two generators in `PricingSuggestions`, with what `OneOpenSuggestion` becomes.
3. Lemmas on the transition tables and `DeriveStage` for their own sake (precedence, agreement of
   projection and table); the proofs use what they need of them.
