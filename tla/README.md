# Formal model of the order flow and the front end

TLA+ modules, TLC configurations and TLAPS proofs kept beside the e-commerce
platform (`src/`: Go, .NET and TypeScript services that talk over HTTP and
Kafka).  The core of the system is what happens to an order: the event-sourced
order service, the read model it serves, and the confirmation saga that spans
order, inventory and payment.  That core is modelled first.  On top of it stands
the Next.js front end, by far the largest body of code: a shop and its back
office whose pages keep state of their own, change it before a service has
answered and take answers in whatever order they come.

## 1. Inventory

### Components

| Component | State it keeps | Operations | Talks to |
|---|---|---|---|
| order-service, write side (`internal/domain`, `internal/eventstore`) | `events` table: one numbered stream per order, UNIQUE (aggregate_id, version) | create, add / remove item, confirm, cancel, ship, deliver, record payment / payment failure / reservation / release | projection (in process), Kafka topic `order-events` |
| order-service, read side (`internal/projection`, `internal/messaging/kafka_*`, `internal/api/query_handlers.go`) | `order_read_model`, `order_items_read_model`, consumer offsets | `projectEvents`, the Kafka consumer, `rebuildFromEvents` on GET | the topic it published to |
| order-service, saga (`internal/saga`) | in memory only: completed and attempted steps, reservation ids, payment id | reserve, record, pay, record, confirm; compensation in reverse | inventory and payment over HTTP, its own command handler |
| order-service, external consumer (`internal/messaging/external_consumer.go`) | Kafka offsets | payment events to Confirm / Cancel, shipping events to Ship / Deliver | the command handler |
| payment-service | payments, refunds | charge, gateway callback and IPN, cancel, refund | gateways, Kafka |
| inventory-service | items (on hand, reserved), reservations, movements | reserve, fulfil, cancel, adjust, transfer, expire | Kafka |
| shipping-service | shipments | create on order confirmed, status changes | Kafka |
| promotion-service | promotions, coupon usage, loyalty accounts | apply coupon, earn / redeem points | Kafka |
| cart-service | carts and a product-to-carts index in Redis | add / remove item, price and deletion events | Kafka |
| notification-service | notifications and attempts | send, retry, fail over | providers |
| user, tenant, product, review, vendor, config services | single-row records | create, read, update, delete | Kafka |
| search, recommendation, analytics | derived views | index, count | Kafka |
| shared libraries, infrastructure | none of their own that the order flow reads | | |
| front end: cart and checkout (`stores/cart.ts`, `(store)/checkout`) | items in the browser, requests in flight | add, update, remove, clear, fetch; quote, coupon, place order | cart, order, payment, promotion services |
| front end: session (`stores/auth.ts`, `app/api/auth`, `auth-guard.tsx`, `app/proxy`) | two HttpOnly cookies, the user and a marker in the browser | login, second factor, demo login, register, logout, guards | user-service through the server routes |
| front end: search, shelf, account (`instant-search.tsx`, `(store)/search`, products, wishlist, `(store)/account`) | persisted stores, page state | type, search, filter; heart, review; profile, password, addresses | search, product, review, user services |
| front end: shop desks (`admin/(dashboard)`: sales, categories, products, promotions, inventory, settings) | page state, persisted stores, notes in the session | ring up and sell; create, edit, delete; upload; adjust; save | order, product, promotion, inventory, tenant, config services |
| front end: platform desks (`super-admin/(panel)`: settings, plans) | page state | edit, switch, save | config and tenant services |
| front end: other pages (system, integrations, content, usage, users, reports, ...) | page state over constant data | list, filter, edit | various |

### How they interact

A command is an HTTP request, a step of a saga or an event taken by the external
consumer.  Each loads the order by replaying its stream, decides on that copy,
and saves under an optimistic version check.  A save that committed is handed to
an asynchronous Kafka writer and projected in process; the service's own
consumer projects it a second time from the topic.  `POST /orders/:id/confirm`
runs the saga synchronously in the replica that received it.  The payment
service publishes `PaymentCompleted` / `PaymentFailed` for the same charge the
saga made, and the external consumer turns these into commands on the same order.

In the browser everything is one thread, but every `await` is a place where
other handlers run.  A page or a store changes its own state, sends a request
(through the proxy, which adds the credential from the cookie) and goes on when
the answer comes, be it after the page was left, after another request was
answered, or never.  Stores outlast pages and, when persisted, reloads.

### What is hard

- **Interleaving.**  Handlers in several replicas, sagas, and two consumers issue
  commands for one order; nothing is locked between load and save.  Payment and
  inventory rows have neither a lock nor a row version.
- **Order.**  Kafka partitions, two projections of each event, and a GET that
  projects a whole history write one row; no statement compares versions.
- **Failure.**  The saga has no durable state; a lost answer leaves the outcome
  of a charge or a reservation unknown; compensation stops at the first failed
  step; a Kafka batch is given up after three attempts; the external consumer
  commits the offset of an event whose command failed.
- **Answers.**  The front end replaces what it shows by what an answer carries;
  only a few places (`_mutationVersion`, an abort signal, an in-flight map) tell a
  late answer from the wanted one.  Sequences of requests stop half-way, and the
  user tries again without a key that would tell a retry from a new request.
- **Time.**  A redirect payment is still processing when the order is confirmed;
  expired reservations are given back by a method nothing schedules.

`PROJECT.json` lists the hazards at their lines with the properties that cover
them.  Known and not listed there, because no property can be stated of them or
because a listed one covers them too: the saga that loses a race cancels the
winner's order (`order_saga.go:183`), charges for the items it loaded at the
start (`:210`) and does not know a hold whose answer was lost (`:223`); a failed
refund ends the unwinding (`:166`); the external consumer commits the offset of
an event whose command failed (`external_consumer.go:130`); callbacks and
cancellations overwrite one another's payment (`PaymentService.cs:229`, `:235`);
expired reservations are given back by nobody (`InventoryService.cs:529`).

### What makes each component correct

- *Write side*: the stream of an order is unbroken; the version a handler loaded
  stands for the state it decided on; an order only moves along its life; the
  whole behaves as if whole commands happened one at a time.
- *Read side*: nothing uncommitted shows; once everything is consumed the row
  shows the order.
- *Saga*: a compensation that reports success cleaned up; refunds precede
  releases; an order is confirmed once; a loser keeps neither stock nor money;
  every saga ends.
- *Payment*: one key is charged once; money given back is on record; the row
  never claims more than the gateway did; and while requests come one at a time
  it accounts for all of it.
- *Inventory*: what is on hand is what the movements add up to.  Planned: the
  reserved quantity covers the active reservations.
- *Cart and checkout*: what is shown, stored, ordered and paid for is what was
  asked for; one visit makes one order.
- *Session*: whom the pages show is whom the services act for; a guard lets
  nobody stay whose role is too low, and sends away once.
- *Search, shelf, account*: what is shown is the answer to what was asked last;
  nothing shows twice; there is at most one default address.
- *Desks*: receipts and orders agree; tables show every row once; saved means
  stored; whatever there must be exactly one of, there is one.
- *Shipping, promotion, cart* (planned): one shipment per order; usage limits
  hold; the index contains every cart that holds the product.

## 2. Modules

| Module | Models |
|---|---|
| `OrderAggregate` | the aggregate as data: events, commands, guards (`Accepts`), what a command raises (`Raised`), `apply()` (`Apply`) |
| `OrderLifecycle` | the abstract specification: one order, whole commands, one at a time |
| `OrderStore` | the command handlers over the Postgres event store; `Life` is the refinement mapping to `OrderLifecycle` |
| `OrderStoreProofs` | theorems about `OrderStore` |
| `OrderReadModel` | extends `OrderStore` with publishing, Kafka, the two projections and the GET rebuild |
| `OrderReadModelProofs` | theorems about `OrderReadModel` |
| `OrderSaga` | the confirmation saga and its compensation over an instance of `OrderLifecycle` |
| `OrderSagaProofs` | theorems about `OrderSaga` |
| `Payment` | one payment and its refunds under requests that race, are cut off or lose an answer |
| `PaymentProofs` | theorems about `Payment` |
| `ShoppingCart` | the cart store, its requests, and the cart service's answers |
| `Checkout` | extends `ShoppingCart` with quote, coupon and `handlePlaceOrder` |
| `Session`, `SessionProofs` | auth store, cookies, routes, guards and proxy; theorems |
| `ShopSearch` | the instant search panel, the search page and the recent searches |
| `ShopShelf`, `ShopShelfProofs` | home page, list, product page, reviews and wishlist; theorems |
| `AccountDesk` | profile, password, orders and address book |
| `PointOfSale` | the sales counter |
| `CategoryDesk`, `ProductDesk` | categories and products: pages, stores and uploads |
| `PromotionDesk` | promotions and coupons over time |
| `InventoryDesk` | the inventory page and the service's quantities |
| `StoreSettings`, `PlatformSettings`, `PlatformPlans` | settings of a shop and of the platform, plans and billing |
| `Storefront`, `BackOffice` | put the parts of the shop and the desks together |
| `StorefrontProofs` | theorems about the shop: cart, checkout, search, account, and that its parts do what they do alone |
| `BackOfficeProofs` | theorems about the desks, stated of the back office as a whole |
| `MC...` | instances for TLC (constants as definitions, symmetry) |

`OrderReadModel` composes the store with the read side by conjunction: each of
its actions conjoins an action of `OrderStore` with what the read side does in
the same step.  `OrderSaga` composes the saga with the order by `INSTANCE
OrderLifecycle`.  That the saga may treat a command as one atomic step is what
the theorem `StoreImplementsLifecycle` establishes.  `Checkout` is the cart with
the page that orders it: the same items, the same requests.  `Storefront` and
`BackOffice` join parts that share nothing but the browser: a behaviour chooses one
part at the start and stays with it, so that what is checked of each part is
what it does alone.

### Correspondence with the code

**OrderAggregate.**  `Apply` is the type switch of `apply()` in
`aggregates/order.go`; `Accepts` holds the early returns of the methods;
`Raised` the events a method passes to `applyChange`, with the second event of
`Cancel` when a payment was recorded.  The `Record...` methods have no guard.
Items are a set of ids: quantities and prices only feed the total.  A command
with a quantity or price that is not positive is refused before anything is
touched and is not an input.

**OrderStore.**  One handler invocation is `pc`, `cmd`, `copy`.
`LoadAndDecide` is `loadOrder` and the aggregate method (the copy is private, so
nobody can act in between that it would see), `CheckVersion` /
`VersionConflict` the `SELECT COALESCE(MAX(version), -1)` and its comparison,
`InsertEvents` / `DuplicateVersion` the inserts and commit or the violation of
the unique constraint, `SaveFails` any database error or stop before the commit,
`Return` the reply.  The expected version is computed as in the code: -1 for a
new order, otherwise the version minus the number of raised events.  A commit
whose acknowledgement is lost is, for the table, `InsertEvents` followed by the
return.  `head` is the replay of the stream; it is kept up to date by the same
`Apply` per inserted event by which `LoadFromHistory` computes it, because a
recursive replay could not be proved about.

**OrderReadModel.**  A `Handler` is a replica that handles one command at a time
and owns one Kafka writer.  `SaveAndPublish` is the commit together with handing
the batch to the asynchronous writer: nobody can see the batch before `Deliver`.
`Deliver` chooses the partition freely because the balancer is `LeastBytes`,
which ignores the key.  `ProjectNext` is one event of `projectEvents`, which
logs a failure and goes on; `Consume` is one turn of `consumeLoop`, whose position
advances whether or not the event was projected (`OrderRefunded` cannot be
decoded and is skipped); `CommitOffset` is the background commit; `Rebalance`
goes back to the committed offset; `GetFindsNothing`, `GetLoadsHistory` and
`GetProjectsNext` are the read, the load and the loop of `rebuildFromEvents`.
Duplicates made by a producer's retry are not modelled; those made by a consumer
that reads again are, and reach the same code.

**OrderSaga.**  `saga[s].step` is the position of `Execute` or of its
compensation, `held` the reservation ids it recorded, `paid` whether it knows a
payment id, `left` and `released` the position and the result of the release
loop, `failed` its first error.  Every call can be refused; under the faults
its answer can be lost after it took effect.  `Fault` is the set of things that
may go wrong in an instance, so that a property that needs a fault to be absent
says so in its configuration.  `ClientCommand` is what the API and the shipping
events may do meanwhile, `PaymentEvent` is `handlePaymentEvent` with its
fire-and-forget command.  Inventory and payment appear as the saga and the
customer see them: a hold and a charge per saga.

**Payment.**  A request is `req[r]`: where it is between two awaits (`pc`), the
row it loaded (`seen`), its tracked entity (`copy`) and the amount it refunds.
Saving is modelled by what Entity Framework writes: `UpdateAsync` marks every
column modified, so `WriteAll` replaces the row; the `SaveChanges` of
`RefundRepository.UpdateAsync`, on the same context, finds the columns of the
payment that changed and writes those (`WriteChanged`).  All requests to pay
carry one idempotency key; `KeyTaken` is the unique index.  `session`, `charges`
and `moved` are the gateway's side, `Charge` and `GatewayRefunds` the calls
together with the assignments to the entity that follow them, which nobody else
can see.  `Completed`, `NotCompleted` and `NotValidated` are `HandleIpn` with the
service method it calls.  Voiding is part of `Cancel` and changes nothing: the
simulated gateway's payments have no transaction id while they are Processing, and
the redirect gateway does not support it.  `Abort` ends a request at any await,
as a cancelled token or a stopped replica does.  `calm` is an auxiliary variable:
no two requests overlapped and nothing failed so far.  The rows of
`payment_transactions` are written and never read back, and are left out.

**The front end's modules** share a few conventions.  One action is one event
handler up to its first `await`, or what runs between an `await` and the next
one.  A request is a record in flight: sent, served (the service's side of it),
answered; it can be refused, or lost before or after it was served, and two
requests are served and answered in any order.  Plain inputs that only move
together are one input with few values.  A variable named `calm`, `smooth`,
`clean` or `serial`, or marked as history, is not the code's: it says that no
two requests overlapped and none failed so far, or what the user asked for.

**ShoppingCart.**  `AddItem`, `RemoveItem`, `UpdateQuantity` and `ClearCart` change
`cart` and `mutationVersion` at once and send a request if somebody is signed
in; `AnswerCall` replaces the items by the answer's (`FromBackend`), a fetch's only
when `mutationVersion` is still what it was.  `ServedCart` is the cart service:
it merges lines by product.  `wanted` is kept while the shopper waits for every
answer, `calm`.

**Checkout.**  `visit` is the page that is open, `placing` every `handlePlaceOrder`
so far: it captures lines and total at the click, creates, pays unless the
payment is on delivery or the shopper a guest, and clears the cart, whichever
page is open by then.  A unit costs one; the discount is half of what the
coupon was validated for.

**Session.**  `cookie` and `challenge` are the cookies, `me` the store's user, `page`
the page and what its guard has decided.  `LoginRoute` and `CodeAnswered` are the
server routes, which set the cookie when they answer; `SignIn`, `LoginAccepted`
and `DemoAnswered` what the store does then.  `AuthGuard` is the effect of
`auth-guard.tsx`, `ProxyActsFor` the account whose token the proxy attaches.
The answer to a profile update also writes the user; that one is in
`AccountDesk` and not here.

**ShopSearch, ShopShelf, AccountDesk.**  `lookups` are the panel's searches, live
until aborted; `searches` the page's, which nothing aborts.  In `ShopShelf`,
`Rerender` says what the page shows of the stores, and that the home page and a
product's page crash when a banner or a late product is not there on the render
that needs it (a finding in `PROJECT.json`).  Reviews are of one product; a review shows as
typed or as saved.  In `AccountDesk` a profile's answer is `SetAuth` with the user
of the click; the address book is kept by the browser alone.

**PointOfSale.**  `job` is `handleCreate` with what it closed over: create, one call
per line, confirm, receipt.  The screen stays editable meanwhile, so `receipt`
and `items` may part.  Sending the receipt by e-mail, the choice of a customer
and the notes are left out.

**CategoryDesk, ProductDesk.**  `catDesk.list` and `pdDesk.store` are the persisted
stores with their merge of what the service answers and what only the browser
has; an in-flight fetch is joined, not repeated.  `BuildTree` and `CategoryRow`
are the table.  `Paths` is what a form sends of its images.

**PromotionDesk.**  `promoClock` is the time, on which a promotion's status depends
in the service (`ServePromotion`) and on the page (`EffectiveStatus`); `promoNotes`
the browser's list of coupons.

**InventoryDesk.**  `ReadStock` and `WriteStock` are the two halves of the service's
adjustment, and of the fulfilment of a reservation, which asks nothing before it takes
what was reserved; `WriteStock(c, FALSE)` is a stop between the two saves.  Reserving is
part of `SaleElsewhere`: the reserved quantity is that of the sales in flight.

**StoreSettings, PlatformSettings, PlatformPlans.**  `ssPage.save` is where
`handleSave` is in its four writes; tabs that are never sent are `local`.  A platform
tab is written as one batch (`BuildEntries`).  Plans live in the page.

## 3. Runs

| Run | Question | Result |
|---|---|---|
| `order_store` | two handlers race through every command and failure | stream unbroken, decisions checked against what they were made on, life legal, `OrderLifecycle` implemented |
| `read_model_faults` | two replicas, two partitions, every fault | nothing uncommitted is ever projected, published or shown |
| `read_model_converges` | one writer, one partition, failed projections, a replay | the row settles on the order and stays there |
| `read_after_write` | "synchronously updates the read model for read-after-write consistency" | violated: the consumer puts an older event over the row |
| `saga_faults` | one saga, two items, every fault | a compensation that reports success is clean, refunds come first, the saga ends |
| `saga_race` | two sagas, failing commands, payment events | one confirmation, the loser keeps nothing |
| `unknown_charge` | "a sideEffectError always fails the saga" | violated: a charge with an unreadable answer is skipped as optional |
| `noted_refund` | "the payment service still handles the actual money movement" | violated: cancelling outside a saga refunds nothing |
| `payment_requests` | five requests of any kind on one payment, every fault | one charge per key, refunds on record, nothing overstated, balanced while calm |
| `double_refund` | a refund that "exceeds remaining" is refused | violated: two refunds check their own copies and both are made |
| `storefront` | every part of the shop, answers in any order, failed and lost | see below |
| `back_office` | every desk, with a second administrator where one matters | see below |

`storefront` shows that, whoever waits for answers and meets no failure, sees and
orders what was asked for (`CalmCartIsShared`, `CalmOrderIsWanted`) and pays the price
of it (`CalmPaymentFitsOrder`); and, however requests overlap, fail and overtake one
another: that one visit makes one order unless an answer was lost
(`OneOrderPerVisit`), that pages and proxy never disagree on the user
(`ShownUserIsServed`), that guards send away once (`RedirectsOnce`), that the
search panel never shows the answer to an earlier query (`SearchShowsAnswers`, its
half about the search page for searches that do not overtake each other), that
no review shows twice and a calm wishlist is the stored one (`ShelfShowsAnswers`),
and that a saved profile is the stored one and at most one address the default
(`AccountShowsAnswers`).

`back_office` shows that receipts list what the order service holds and that no order
left behind by a failed sale is confirmed (`SalesAreWhole`); that the category table
misses a row only in a circle of parents (`CategoryRowsComplete`); that a desk at
rest shows what is served if nothing overlapped or failed
(`CalmDesksShowWhatIsServed`); that the images of saved products exist
(`SavedImagesExist`); that noted coupons exist once, on active promotions
(`NotedCouponsAreStored`); that an item has one row (`OneRowPerItem`); that stock and
movements only part when requests overlap or stop half-way (`SerialStockAddsUp`);
that "Saved!" is true of the four documents (`SavedMeansStored`); that there is
always one default profile (`OneDefaultProfile`) and one enabled default language
and currency (`DefaultsStayUsable`); and that a renamed plan keeps its
subscribers (`PlanKeepsSubscribers`).

Several properties hold for *calm* behaviours only, because the code does not
promise more: overlapping requests do lose changes of the cart, of the
wishlist, of search results and of stock.  Where a comment or a text of the page
promises more, the disagreement is a finding in `PROJECT.json`.

### Bounds, and why they are enough

- `MaxEvents`: no command starts on a stream that long.  Five events hold a
  creation, an item, a payment, a confirmation and then a cancellation with its
  refund note, against a competing command at each place.  Two handlers are
  enough to disagree about one version; a third meets the same check.
- One item, payment and reservation in the store: the guards only ask whether an
  id is among the items and whether a payment is recorded.  The proofs have no
  such bound.
- Read side: two replicas and two partitions give every order of arrival;
  `MaxEvents = 2` already holds a row that is absent, created and changed.
  `MaxRebalances` bounds replays; one replay is repeated consumption, a second
  one repeats it again.
- Convergence is checked with one writer and one partition.  With several
  partitions the messages of an order are consumed in any order, an older event
  may be projected over a newer row, and the row need not settle on the order.
  The same holds for lost messages and for a GET that replays an old history late.
- Saga: two items give a first, a middle and a last place for a failure in the
  reservation and the release loop; two sagas give every race for one order.
- Payment: an amount of two units has a partial and a full refund.  Five requests
  hold a charge and its callback, two refunds and a cancellation, or two
  payers racing with a charge, a callback and a refund.  The proofs have no
  such bound.

- Front end: every part has a bound on what the user does (`MaxMutations`,
  `MaxCheckoutChanges`, `MaxShUses`, `MaxSfUses`, `MaxAcUses`, `MaxCatUses`, `MaxPdUses`,
  `MaxPrUses`, `MaxSkUses`, `MaxSsUses`, `MaxPsUses`, `MaxPpUses`, each three to twelve), on requests in
  flight (`MaxCalls`, `MaxCheckoutCalls`, `MaxFlights`, `MaxSearches`, `MaxShelfCalls`,
  `MaxPromoCalls`, `MaxSkCalls`, one to three) and on what is kept (`MaxCartQty`, `MaxQty`,
  `MaxVisits`, `MaxOrders`, `MaxPosOrders`, `MaxReviews`, `MaxAddresses`, `MaxPromotions`,
  `NotedLimit`, `RecentLimit`, `MaxSections`, `MaxProfiles`, `MaxPlans`, and the clock's
  `LastMoment`).  They hold two
  overlapping requests and a third that answers late, a failure and the retry, and a
  page that is left and opened again; a page's own handlers need no more than two
  rows to be confused.  Around a checkout the cart is changed three times and
  has one request running; the part `cart` checks it with three.  Parts that are
  not used by a behaviour stay in one initial state.
- Smaller bounds are stated where they apply: no more than one save and one
  deletion of products at a time, one edit of the counter's screen while a sale
  runs, two rows in a list, no change of session during a checkout, and no
  reopening of the platform's settings while a batch is written.

### Fairness

`FairReadSpec` asks that a handler that saved goes on projecting, that the writer
delivers what is queued and that the consume loop runs: each is a loop or a
straight line of the program with no external condition.  No command is ever
required.  `SagaSpec` asks that a running saga takes its next step: each call it
makes has a timeout, so an answer or an error always comes.  A crash is an end of
a saga, since nothing resumes one.  `PaymentSpec` has no fairness: a request that
is cut off is never resumed, and no liveness is claimed of it.  Nor is any of the
front end: a browser may be closed at any time.  Deadlock is not checked: the system may
stop when no command is left to issue.

## 4. Proofs

`OrderStoreProofs` proves, for every set of handlers, items, payments and
reservations and every `MaxEvents`, under `RefAssumption` (no id is the empty
string) and `MaxEventsAssumption`:

- `StoreInvariant`: `StoreInv` is inductive.  `UnbrokenStream` alone is not: that
  an insert continues the numbering needs the handler's version to be at most the
  length of the stream and its rows not to collide, hence a batch that starts
  right after the end; that the decision was legal needs the copy to *be* the
  head when the versions agree (`VersionStandsForState`); that an insert into an
  empty stream is a creation needs `EmptyIsBlank` and `DecisionAccepted`.
- `StreamIsUnbroken`, `VersionIsState`, `StoreTypes`: its parts.
- `CheckIsExact`: the version check passes exactly when the copy is the head.
- `OrderLivesLegally`: `LegalLife`.
- `RefundsAreNoted`: `RefundNoteFollowsCancel`, with `PaymentOnRecord`: the
  order shows a payment exactly if its stream recorded that payment last, so that
  a cancellation knows whether there is one to note.
- `StoreImplementsLifecycle`: every step is a step of `OrderLifecycle` or stutters.

`OrderReadModelProofs` proves, under `FaultAssumption` and those of the store:

- `OnlyCommittedShows`, for any handlers, partitions, faults and number of
  replays: what queues, topic, projections, rebuilds and the row hold are events
  of the stream (`ReadInv`).
- `RowSettles`: `SettledRowMatches`, when one replica writes, there is one partition,
  and nothing worse happens than that projections fail and consumers read again
  (`OneReplica`).  The invariant `SettledInv` is about single fields of the row,
  because an event overwrites what it touches whatever was there
  (`FieldOfApply`): queue and topic are the stream (`OneLog`), and a field agrees
  with the order unless the last event that touches it is still to be consumed.
  The hypotheses are not there for the proof's sake: with a second partition, a
  lost message or a late rebuild the statement is false (see the bounds).

`OrderSagaProofs` proves, for every set of sagas and items and every set of
faults, under `SagaAssumption`:

- `SagaInvariant`: `SagaInv` is inductive.  A clean compensation is not inductive
  by itself; the strengthening says how far the unwinding has got: past the refund
  the payment is refunded (`Refunded`), past place `left` of the release loop the
  holds are released unless an error is noted (`ReleasedSoFar`), and what the end of
  a saga says of the order (`Outcome`), which later commands keep because a
  cancelled order stays cancelled and no order becomes pending again.
- `CompensationIsClean`, `ConfirmedOnce`, `RefundsComeFirst`, `SagaTypes`.
- `NothingIsStranded`: `NothingStranded`, if commands are all that fails
  (`OnlyCommandsFail`).  `Accounted` says that every hold and every charge is known
  to the saga that made it until it is undone.  The other faults do strand: a lost
  answer leaves a hold nobody knows, a failed refund ends the unwinding.

`PaymentProofs` proves, for every set of requests, every amount and every set of
faults, under `PaymentAssumption`:

- `PaymentInvariant`: `PaymentInv` is inductive.  `OneChargePerKey` alone is not:
  `ChargeProgress` adds that only the request that inserted the row is ever about
  to charge, that it has not been charged then, and that no entity is a copy of a
  missing row, so that no save brings the row back to where it could be
  inserted again.  `RefundsOnRecord` needs `RefundProgress`: a refund's row is
  Processing until the answer is saved, and the entity differs from the loaded
  row exactly if the gateway gave the money back.
- `KeyChargedOnce`, `RefundsRecorded`, `PaymentTypes`: its parts.
- `RowNeverOverstates`: the sums over requests are cardinalities of sets of units
  (`GivenUnits`), so that a step moves one request's units and leaves the others.
  `MoneyProgress` says of every request's copy what the property says of the row, so
  that a stale copy that is written back claims no more than was given back either.
- `CalmPaymentBalances`: `CalmProgress` says, while requests come one at a time,
  who is inside (`Active`, `HoldsTheRow`) and that row and gateway differ by what
  that request is about to save.

`SessionProofs` proves, for any accounts with any roles and any number of requests
in flight, under `SessionAssumption`:

- `ProxyActsForTheUserShown`: that in production cookie and shown user are the same
  account or one of them is nobody.  It is inductive once requests are known to
  be made for somebody (`SomebodyLogsIn`): every step that sets one of the two to
  an account sets both.
- `ShownUserIsActedFor`: adds `MarkerInv`, which says, while all was smooth, where the
  one request in flight has got with the cookie and the marker.
- `GuardsHold`, `GuardsSendAwayOnce`: from the order of the roles (`Levels`).
- `SessionTypeCorrect`.

`StorefrontProofs` proves of the shop, under the assumptions of its parts:

- `ShopIsItsParts`: `StorefrontSpec` implies `CheckoutSpec`, `SessionSpec` and
  `ShelfSpec`, the specifications of three parts by themselves, so that what is
  proved of those holds in the shop.  The cart alone is a checkout nobody visits
  (`NoVisit`).
- Of `CheckoutSpec`: `CheckoutTypes`; `CartStaysShared` (`CalmCartIsShared`): while
  calm, `CartInStep` says which of cart, request and service already has the
  change; `VisitsOrderOnce` (`OneOrderPerVisit`): `VisitsInOrder` ties the orders
  that stand to the step of `handlePlaceOrder`; `OrdersAreWanted` and `PaymentsFit`
  (`CalmOrderIsWanted`, `CalmPaymentFitsOrder`): `CalmScreen`, `CalmForm` and
  `CalmPlacing` follow the lines from the screen through the order to the payment.
  Units are counted by cardinality, so that no induction over lines is needed.
- `SearchesAreAnswered` (`SearchShowsAnswers`): `PanelInv`: of the panel's searches at
  most the one for its query is not aborted; `ResultsInv`: a calm search page waits
  for at most one answer, to the inputs it shows.
- `AccountsAreTold` (`AccountShowsAnswers`): `ProfileInv`: a calm profile page has no
  save in flight but its own, and once served the service holds it; `AddressInv`:
  every address has an id of its own and at most one is marked.

`BackOfficeProofs` proves of `BackOfficeSpec`, through `DeskSteps` (a step of the back
office is, for every desk, a step of it or nothing):

- `DefaultsAreUsable` (`DefaultsStayUsable`), from `PlatformSettingsInv`.
- `StockAddsUp` (`SerialStockAddsUp`), from `StockInv`: `ReadIsFresh` says that a request
  that has read a row is alone with it, and that the row still holds what it
  read, unless two requests were inside with one row (`serial` is then false).
- `ItemsHaveOneRow` (`OneRowPerItem`), from `RowsInv`: the rows of a list in flight
  are distinct too, and an addition that is answered is not in the table yet.
- `ImagesAreServed` (`SavedImagesExist`), from `ImagesInv`: forms, rows, uploads and
  saves in flight name images that exist, or wait for one that is not sent.
- `DesksAreServed` (`CalmDesksShowWhatIsServed`), from `ServedInv` and `CatListInv`.
- `NotesAreTrue` (`NotedCouponsAreStored`), from `PromotionInv`: what each call of a
  creation carries is what the calls before it stored.
- `ShopsHaveADefault` (`OneDefaultProfile`) and `SavedIsTrue` (`SavedMeansStored`), from
  `SettingsInv`: a save on its way holds, document by document, what was sent.
- `PlansKeepSubscribers` (`PlanKeepsSubscribers`, an action property), from `PlansInv`:
  the form is a new plan under an id nobody has, or has the tier of the plan it
  was opened with.
- `SalesAreTold` (`SalesAreWhole`), from `SalesInv`: what was sent to the order is a
  prefix of the lines of the click, and no receipt is shown while a sale runs.
- `RowsAreComplete` (`CategoryRowsComplete`), for finitely many ids and from no
  invariant: `TableDrawsAll` holds of any list.  The functions that walk down and up
  exist (`GrowingExists`), and meet after as many levels as there are ids
  (`HangingMeetsClimbing`).  The induction is by least elements, over a set
  (`CountingUp`).

`ShopShelfProofs` proves `ShelfIsWhatWasWritten`, for any products, banners and calls,
under `ShelfAssumption`.  No review showing twice needs every list in flight to hold stored
reviews only, each once (`CallKnown`); the wishlist needs `HeartsKnown`: either
its list is the only call in flight, or what is shown is what the service will
have once the calls in flight are served (`HeartsToBe`).

The theorems of `SessionProofs` and `ShopShelfProofs` and those of the checkout are
about `SessionSpec`, `ShelfSpec` and `CheckoutSpec`; `ShopIsItsParts` carries them over
to `StorefrontSpec`, which the run `storefront` checks.

Proving changed the models in places.  Conditions of a `CASE` that could both hold
were made exclusive (`EffectiveStatus`, `PromotionCallFails`, `LocalWrite`, the status of
a stock row): TLA+ takes any of them, the code takes the first.  Lines and addresses
that a handler filters out are taken out by position (`WithoutLine`,
`WithoutAddress`), since an id occurs once.  And `CalmProfileIsServed` turned out to be
false just beyond the former bound of ten uses: a profile page that is opened while
the save of an earlier one is still running was counted as calm.  `OpenProfile` now
records that, and `MaxAcUses` is twelve, which holds the whole scenario.

Only model-checked:

- `RowConverges` and `SagaEnds`: liveness under fairness, which the prover does not do.

## 5. Limits

- The parts of the shop do not share state in `Storefront`: that signing out
  elsewhere empties a page, or that another tab changes a store, is only modelled
  where a module has it.  The wishlist of a guest is local.
- Not modelled of the front end: the platform's system, integrations, content,
  usage, tenant and user pages, and the admin's orders, customers, vendors,
  reports, billing, e-mail and audit pages.  They are lists and forms in the
  memory of one page, many over constant data, whose loss with the page is all
  that can happen to them.  Rendering, formatting, validation texts and the
  mapping of payloads in `lib/api.ts` are left out everywhere.
- Not modelled of the services: shipping, notification, tenant, vendor, search,
  recommendation and analytics; sessions of user-service are seen through its
  answers.  `PROJECT.json` gives the reason for each.
- Two orders do not interact in these modules.  They do in one table:
  `order_items_read_model` is keyed by item id alone (planned).
- `NothingStranded` is checked with failing forward commands only.  A compensation
  whose own command meets a version conflict aborts and leaves what it had not
  yet undone; `CompensatedIsClean` says this is never reported as success.
- A hold whose answer was lost is not known to the saga and is not released.
- Amounts, currencies, addresses, tracking data and texts are left out, as are
  tenants: every query filters by tenant before anything else.

## 6. Plan

1. `Reservations`: reserved quantities over `InventoryDesk`'s writes, first one
   request at a time with crashes (the reserved quantity covers the active
   reservations), then concurrently.
2. `ItemReadModel`: item rows shared by orders.  `Shipment`: one shipment per order
   under redelivery.  `Coupon`: usage limits over `PromotionDesk`'s coupons.  The
   product-to-carts index of the cart service.
3. Front end: one session shared by the parts of `Storefront` (signing out while
   another page waits); the admin's order page over `OrderReadModel`.
4. Proofs: every safety property that the passing runs check is a theorem.
   Left are the abstract specifications worth refining to: a cart that is one set of
   units for `CalmCartIsShared`, and a projection that is a fold of the stream for
   `RowSettles`; and the invariants of the modules planned above.
