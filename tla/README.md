# QBusto in TLA+

QBusto sells cinema food. A customer orders from a seat, a lobby or a kiosk
(`consumer/`), pays at a hosted checkout (Cashfree), the kitchen works from a wall
screen (`kitchen/`), staff watch and correct from the Dashboard (`dashboard/`), and
one Express/Sequelize process over SQL Server (`backend/`) holds the truth. This
directory models the parts of it that are hard to get right and hard to test:
many writers of one order row, money that is discovered from several sides,
screens that act on what they read some time ago, a cache and a schedule that
mirror something else, and a price that is computed twice.

Run a check with `tlc -config <run>.cfg <module>` and a proof with
`tlapm <module>.tla`. `PROJECT.json` lists every run, mutant, mapped definition,
hazard and theorem. Its map leaves out the actions of the environment (the gateway,
the browser, the clock, other screens, crashes) and helpers that read one line.

## The system

| part | state | operations | talks to |
|---|---|---|---|
| Fulfilment (`fulfilment.service.js`) | `orders.status_id`, `order_status_logs` | `applyStatusTransition`, `confirmOnPayment` | called by Dashboard, kitchen and the payment seam |
| Settlement (`paymenttransition.service.js`) | `orders.payment_status_id`, `payment_status_logs` | `applyPaidTransition` | called by webhook, reconciliation, coupon path |
| Dashboard orders (`order.service.js`) | the same row | `updateOrderStatus`, `updatePaymentStatus`, `createOrder` | fulfilment |
| Webhook (`paymentwebhook.service.js`) | `payment_webhook_events` | `verifyIncomingWebhook`, `processWebhookEvent` | Cashfree, settlement |
| Consumer payments (`consumer.service.js`) | `orders.gateway_order_id` | `paymentInit`, `paymentVerify`, `reconcilePaymentFromGateway` | Cashfree, settlement |
| Consumer orders (`consumer.service.js`) | `orders`, `order_items`, `idempotency_keys` | `createOrder` | pricing, coupons, sessions |
| Message (`notification.service.js`) | `orders.whatsapp_status`, callbacks in memory | `queueOrderConfirmed`, `notifyOrderConfirmed` | WhatsApp provider |
| Kitchen (`kitchen.service.js`) | none of its own | `updateKitchenOrderStatus`, `getKitchenOrder`, `listKitchenOrders` | fulfilment |
| Kitchen board (`kitchen/src/stores/board.store.ts`) | lanes, pending set, request token | `load`, `transition`, `reset` | kitchen API |
| Payment screen (`consumer/src/pages/PaymentPage.tsx`, `utils/paymentState.ts`, `utils/paymentAttempt.ts`) | phase, stored attempt | init, pay, check, recover | payment endpoints, Cashfree SDK |
| Checkout session (`consumer/src/utils/checkoutSession.ts`) | idempotency key per fingerprint | create, reuse, clear | `createOrder` |
| Catalogue cache (`cache.service.js`, `config/redis.js`) | entries and a generation in Redis | `wrap`, `invalidateCatalogue` | every catalogue read and write |
| Show sync (`showSync.service.js`) | `session` rows | `syncIntegration` | POS adapter |
| Categories (`category.service.js`) | names, per-cinema order | create, rename, `setCategoryOrder` | Dashboard, catalogue |
| Coupons, pricing (`coupon.service.js`, `pricing.service.js`, `availability.service.js`, `utils/businessDay.js`) | offers, rates per day and channel, hours | `validateCoupon`, `unitDiscountPaise`, `unavailableReason`, `assertNoOverlap` | catalogue, order creation |
| Cart and sheet (`consumer/src/stores/cart.store.ts`, `CatalogPage.tsx`, `CheckoutDrawer.tsx`) | lines with their prices, the coupon applied | add, change, apply, submit | catalogue, coupons, `createOrder` |

What is hard, part by part:

* **One row, five kinds of writers.** Every transaction reads first and writes
  with a compare-and-set. SQL Server runs at READ COMMITTED (`config/database.js`
  sets nothing else), so anything may happen between the two.
* **One payment, discovered four ways.** Webhook, payment-verify, payment-init
  and staff may all find it; side effects must happen once.
* **Deliveries repeat, fail after committing, and come late.** The dedup row
  decides what a redelivery may still do.
* **Money and food are separate axes** that touch at one seam.
* **Screens act on old reads**: the kitchen board and the payment screen, whose
  requests outlive the page that made them.
* **Redis may lose any command**, and a slow reader may store what a write has
  just made stale.
* **A feed may be late, empty or partial**, and what it does not mention is closed.
* **A price is computed twice**, once for a card that is cached and once for the
  bill, from rates that depend on channel, day and hour.

## The modules

| module | models |
|---|---|
| `OrderRow` | one `orders` row with its audit trails, the graphs, and the body of every committed write |
| `OrderLifecycle` | all requests, webhook deliveries, the gateway, the message and crashes over that row |
| `OrderPromise` | the abstract order: two graphs, two histories, one seam |
| `OrderCreation` | checkout sheet, stored key and idle reset over `createOrder`'s transaction |
| `KitchenBoard` | the kitchen screen's store over a server other screens share |
| `PaymentScreen` | the payment page, its stored attempt, every request and its answer, reloads and the browser's buttons |
| `Catalogue` | the category order, its transaction and its page, behind the generation cache in Redis |
| `ShowSync` | overlapping passes over the POS integrations, their feeds, the upsert and the closing of shows |
| `Selling` | rates, hours, business day, listing, cart, coupon and the order priced again |
| `MCOrderLifecycle`, `MCPaymentScreen`, `MCCatalogue`, `MCShowSync`, `MCSelling` | instances for TLC, symmetry |
| `MCOrderCreation` | what comments say and the code does not keep, one property each |
| `OrderLifecycleProofs` | lemmas about the writes for any row, the inductive invariant, its theorems, the refinement |
| `OrderMoneyProofs` | the same module's money: what entries, answers, events and messages prove |
| `OrderCreationProofs`, `KitchenBoardProofs`, `PaymentScreenProofs`, `CatalogueProofs`, `ShowSyncProofs`, `SellingProofs` | the inductive invariants of those modules and their theorems |

The order modules meet in the row: an order `OrderCreation` commits is the row
`OrderLifecycle` starts from (`NewOrder`), and `KitchenBoard`'s `status` is that
row as `eligibilityWhere` shows it. Each takes what the other does as actions of
its environment (`Pay`, `OthersMove`), so they are checked apart. `PaymentScreen`
sees of `OrderLifecycle` what its endpoints answer (`Truth`, `Answer`); `Selling` has of
`createOrder` the price and the count of redemptions (`PriceOrder`), then the commit or
the rollback, because `OrderCreation` has the steps between, and takes the listing cache
as atomic, because `Catalogue` has its races.

### How state and actions correspond

`row` is the `orders` row; `row.statusLog` and `row.paymentLog` are the two log
tables restricted to it, in commit order. A log entry's `by` stands for its
`changed_by_user_id` and `reason`: it tells which code path wrote it. `events` is
`payment_webhook_events` reduced to the outcome per payment: the dedup key is
`<event>:<cf_payment_id>`, and an attempt reaches one final state, so a payment
has one event. `None` is "no row". `pc`, `goal`, `seen` and `reply` are the local
variables of the requests in flight; a request is one HTTP call and each of its
database reads, network calls and transactions is one action. A transaction is a
read action and a write action: the row is X-locked from the UPDATE to COMMIT, so
the write, its log rows and the seam behind it are one step. A transaction that
fails before COMMIT is the write step not taken (the caller's crash), except for
the webhook's, whose failure is answered (`DeliveryFails`).

`gateway`, `session` and `deliveries` are Cashfree and its customer, modelled from
what the code assumes of them: an attempt needs a session, ends once, and its
event is sent until it is acknowledged. Which cinema's secret signs a delivery is
looked up through `gateway_order_id`, so `ReceiveDelivery` needs that column.
`MISMATCHED` stands for a success of another amount or currency. Prices, items,
customers, tenants and logging are not in the model: none decides a transition.

`Crash` kills the process between any two steps: open requests answer `lost`,
received deliveries are sent again, queued messages are gone.

`OrderCreation`: a request is one submission and names the order row it may insert
and the key it may mint. `stored`, `busy` and `screen` are `qbusto_checkout_key`,
the sheet's pending promise and `qbusto_order_id`; `visitor` counts the customers
a device has served. `createOrder` goes `lookup`, `show`, `coupon`, `order`, `key`,
`logs`. Its lookup is inside the transaction but takes no lock that lasts; the
unique index makes a second insert of a key wait for the transaction that holds
it. Error 2627 ends the statement and not the transaction, so the code that
catches it goes on to commit, its own order included. A basket is what
`orderFingerprint` covers, a coupon what it does not; `ForAShow` are the baskets with a
`sessionId`, which is optional. The reload drops the promise
and keeps the key; `Abandon` is the idle reset, which asks nobody whether a
submission is in flight; axios has no timeout in the consumer app.

`KitchenBoard`: `requestToken` is only compared with a load's own token, so `newest`
names the load that holds it. The lanes are fetched with two requests, each
answered from the server's rows at a moment of its own; a transition reads the order,
writes it with a compare-and-set that may lose to another device, and is read back
later. Search, sort and filter force a load in the same way and are
one action. `trouble` bounds changes of query, failures and sign-outs together. A
new call takes the first free name, which only removes permutations.

`PaymentScreen`: `page` is the mounted page and its reducer's state, `record` the one
slot of `qbusto_payment_attempt`, `orderKey` and `session` the order id and the
checkout key of the device. A request keeps `live`, whether the page that made it
is still on screen: React drops what an unmounted page sets, while the stores and
`sessionStorage` are written all the same. `modal` is the open checkout; loading the
gateway's SDK, double taps refused by a ref and timers are part of the step that
follows them. `habits` is what the customer does besides paying: ordering again, or
the browser's back button; every instance has the customer who does both. `erased` is
history: the orders whose record was cleared by an answer about another order.

`Catalogue`: a response is the version of the catalogue it was loaded at, because
the cache never looks inside. `setCategoryOrder` is its transaction row by row, with
row locks; a link that is not there yet is neither reset nor locked by its UPDATE, which
is one step. `unlinked` and `overlooked` are history: what the reset did not find, and what
of it another save had linked by the commit. Any other write of staff is `WriteRow`, one row and then the bump. Each
Redis command fails on its own; the code takes a failed command for a miss or goes
on. Every category has a product on sale and is visible, so that pages can be
compared with the order saved.

`ShowSync`: a pass is one run of `scripts/sync-shows.js`, started from outside
whether or not the last has ended. A feed is fetched and later committed; inside the
transaction, row locks serialise passes over one cinema, so a commit is one step.
An adapter is what it may answer: everything in the window, part of it impossible to
map, nothing, or an error. `session` may start with rows the client loaded, of any status.
No adapter in the repository answers with the whole window in a form that maps
(`showSync.service.js:412`: without end times every row is skipped), so what the model says
of feeds that do is about the adapters the contract in `adapter.js` asks for.

`Selling`: an instant is a date and a slot, and the business day begins at slot
`BUSINESS_DAY_START`. `shop` holds what staff configured, and `EditCatalogue` is any one
of their saves with its bump. `cache` is the listing per channel. `asOf` in a listing,
a line and an answer is history: it records which configuration and day produced it,
so that a property can say when two prices must agree. `isActive` and the two dates of
a cinema product are "not carried". The offer is `None` while the cinema has coupons
off, the code does not exist, is inactive or outside its period. A refused order
changes nothing. `counted`, `open`, `givenUp` and `redeemed` count the orders with the
coupon that are past the check and not committed, committed and unpaid, written off,
and paid; a written-off one may be reopened, or paid, without another look at the limit.
`overdraft` is history: how many were under way when the limit was reached.

### The abstract specification

`OrderPromise` has no requests and no gateway: a status and a payment move one
edge at a time, histories grow beside them, and a payment that becomes `paid` on
an `initiated` order confirms it in the same step. `LifecycleKeepsPromise` is
`OrderPromise` with `row`'s columns for its status and payment and the trails'
`new` columns for its histories.

## The runs

| run | instance | shows |
|---|---|---|
| `LifecycleSettlement` | 1 init, 1 verify, 1 staff payment request, 2 payments, each event twice, 1 fault | one settlement, one message, honest dedup rows, nobody is told `paid` without money, the webhook can always find its order, the promise; captured money reaches its order by the webhook alone |
| `LifecycleFulfilment` | 2 status, 2 payment, 2 kitchen requests | trails replay, paid orders are work, the kitchen works for money |
| `CreationRaces` | 2 submissions, 1 kiosk, 2 customers, 2 baskets, 1 coupon | one opened order per key, retries agree, answers are the customer's own, inserts do not wait for ever |
| `KitchenBoard` | 1 order, 2 loads, 2 transitions, 3 calls together, 2 filters, 1 disturbance | loads never go back, the query is current, locks are released, no double submit, the board converges |
| `PaymentScreen` | 2 orders, 3 checkouts, 2 requests at a time, a customer who orders again and goes back | until another order's answer clears the record, paying again is offered only when no earlier payment can land and moving money is remembered; a confirmation is true, no spinner for ever |
| `Catalogue` | 3 categories, 2 lists, a cinema never ordered, partly linked or linked, 2 writes, 2 readers, 4 kinds of fault | an answered save is seen, the menu shows the list saved last but for what was linked beside it, pages tile it, nothing stale stays |
| `ShowSync` | 2 cinemas, one of them dead and first, 2 shows, 2 passes, 2 days, 2 changes | a session closes only if the POS dropped the show; the schedule is mirrored in the end |
| `Selling` | 2 products, 2 configurations, 1 coupon, 2 visits, 2 pieces, 2 days of 4 slots, limit 1, 2 orders under way, 2 changes | the card is the bill, the coupon's limit is exceeded by no more than the orders under way when it was reached, hours are read as they were checked |
| `Claim...` (4) | the smallest instance with the race | the finding of that name |

The bounds: two requests of one kind make every pairwise race, and the write
that loses a race answers and stops, so a third adds nothing but length; two
payments let one fail or mismatch while the other settles; two copies make a
duplicate concurrent with its original; one fault puts a crash
or a lost answer at any one point of a schedule. Two racing payment-inits, a status
request beside a settlement and a second fault are in no run: the safety of those is
proved, for any number of each. `Copies` bounds how often the
gateway sends an event in parallel (its copies are alike, and arrive by number), `MaxFaults` crashes and failed deliveries
together. Logs are bounded by the graphs: six status entries, at most a few
payment entries per staff request. Requests, gateway and process may stop
anywhere, so deadlock is not checked in these runs.

`CreationRaces` has no symmetry, which liveness does not admit; two submissions
already make the race for a key, the retry and the answer to the wrong customer,
and its safety properties are proved for any number. In `KitchenBoard` a load that is
overtaken needs one other, a double submit one other transition, and orders do
not interact on the board: one is enough.

`PaymentScreen` (2 orders, 3 checkouts, 2 requests at a time): one order is kept while a
second is placed, each with an answer that is late; one customer does everything a
customer may do, and so whatever others do.
`Catalogue` needs two writes and two readers for a reader that stores between a commit
and its bump while another reads; three categories make a page of two with the fixed
section and a rest; a cinema starts with no link (every live one, by
`consumer.service.js:290`), with some, or with all. In `ShowSync`, shows start on day 0 or 3: inside the window, or
outside it today and inside it tomorrow; a dead integration comes first in every pass;
the second cinema starts empty or with rows the client loaded.
`Selling` runs two days because the day before the first is the last, and four slots
because windows that wrap, touch, contain and are empty all fit in four (the proof is
for any number). `MaxChanges` is shared by `Tick`, `EditCatalogue`, `EditOffer`, `Expire`
and `OthersBrowse`: two are enough to price a listing, change what it was priced from
and let another channel warm it. A percentage that rounds, an amount above its price and
one coupon with a cap and a range (half, 6 at most, from 6 to 16) put each clamp at its edge.

### Fairness

Most of it is weak. `FairSpec` (`LifecycleSettlement`, `ClaimCapturedMoney`) assumes it of
`ReceiveDelivery` and `ProcessWebhookEvent` of each delivery, because the gateway keeps sending
until it gets a 2xx and the server runs what it received. `ServedSpec` assumes it
of the server's own steps for a request it has (a blocked insert is not enabled,
so nothing grants it the lock). `PollingSpec` assumes it of the interval's tick, of
the server's answers and of the promise callbacks. `AnsweringSpec` assumes that a request is answered or given
up and that its handler runs; `ScreenMovesOn` promises nothing to a customer who
reloads for ever. `ExpiringSpec` assumes of Redis that an entry with `EX` expires, and
nothing of writers or readers. `ServedSpec` of `ShowSync` assumes that the scheduler
starts passes and that a pass ends; and, strongly, that among the passes of a day not
every one dies before a given integration, not every answer of a POS in order is
useless and not every transaction fails. Customers, cooks, staff, the
message, signing in and the gateway's decisions have none: convergence is
promised only while the screen stays signed in. Faults are bounded, which says
that they stop at some time, not when.

### Findings

1. `ClaimCapturedMoney`: a success event that arrives while staff hold the payment
   at `failed` is filed as `already_settled` and acknowledged. Once staff reopen the
   payment, the dedup row refuses every redelivery, and only a customer's call can
   find the money again.
2. `ClaimBrokenRecord`: two submissions under one key both miss the lookup; the
   loser has inserted its order before the key is refused, and commits it without
   log entries or key.
3. `ClaimNextCustomer`: a submission in flight when the idle reset fires opens the
   payment page on the previous customer's order for the next one.

4. `ClaimPaidTwice`: a late answer about an order the customer left clears the one record
   of the device, which may be of the order being paid now, although
   `paymentAttempt.ts:135` says it is called only for a settled outcome. A customer who
   orders again and goes back from the checkout is then offered Pay for an order whose
   payment is pending (17 states), the double charge the record is there to prevent.

Others are visible in the models and have no run of their own:

* `KitchenRead` and `KitchenWrite`: a refund between the kitchen's read and its write goes
  unnoticed, as the WHERE clause is on the status alone (`kitchen.service.js:440` says
  otherwise). `KitchenReread`: a committed move answers 404 when a refund comes before
  the re-read (`kitchen.service.js:467`).
* `SettleReconciled`: `reconcilePaymentFromGateway` reports `settled` whatever
  `applyPaidTransition` did, so a customer is told `paid` of an order staff failed.
* `KeyFor`: the fingerprint omits the coupon, so a cart resubmitted with one is
  answered with the order made without it.
* `LoadLands` after `MoveLands`: a poll that read the server before a transition puts the
  old card back. `MoveLands` after `SignOut`: an answer reaches the emptied board.
* `HandlePayNow` overwrites the one record with the second order's. By then the device holds
  no key of the first, whose money is left to the webhook. `ConfirmPaid` without `live` moves
  a customer who is paying a second order to the confirmation of the first.
* `ReadGeneration` with `"generation"` in `Faults`: a read of the counter that fails once
  serves entries of generation 0 after a delivered bump (`cache.service.js:78`).
* `Reset` and `Place` when a cinema has links missing: a category without a link is neither
  reset nor locked. From no links, a save of `<<3, 2>>` and one of `<<1>>` both reset
  nothing, insert, and commit; the menu is a blend that nobody saved, although
  `category.service.js:323` says that a category absent from the list is reset and that a
  half-applied order is worse than none. `ShownAsSavedUnlessOverlooked` leaves out the categories of
  this case alone (`overlooked`); without that, TLC finds it in 10 states. Two saves that
  insert the same link make one of them fail.
* `Commit` of overlapping passes: an older feed may overwrite a newer one until the
  next tick. The ShowBiz adapter asks for the date of `fromUtc` only while the window has
  two days; what it does not list inside the window would be closed.
* `OrderSource`: a `seat_qr` link without a seat shows the lobby rate, but the form does
  not submit without a seat, so the order is charged the seat rate. The comments at
  `consumer.service.js:384` and `CatalogPage.tsx:88` say the two cannot differ.
  `CardIsBill` excludes this case, a cart line loaded before a repricing and a card
  cached before the business day turned (an entry lives for one TTL).
* `Clashes` is checked and then written without a transaction, so two staff saves can
  both pass. A window that contains 06:00 and is filed on one day is two stretches,
  one at each end of its business day.
* `ValidateCoupon` and `Total`: a coupon can make an order free, against the comment at
  `coupon.service.js:175`. The limit is counted before the order's transaction, so it may be
  exceeded by the orders racing for it, which `memory.md:1026-1031` accepts; and by the
  written-off ones that staff reopen, which it does not mention.

## The proofs

The first half of `OrderLifecycleProofs` proves for any row that each committed write
preserves `RowInv` (`RowMovesAreSound`): the row is typed, both trails replay along
their graphs to the columns (`FulfilmentPart`, `MoneyPart`), the payment trail says
`paid` once at most and only while the column says paid or refunded (`SettledOnce`), and
a paid or refunded order is not `initiated`. `SettledOnce` is stronger than the property
checked, `SettledAtMostOnce`: without its second half, a second `paid` entry cannot be
excluded. `ConfirmOnPayment` runs on a row that is already paid and still
`initiated`, which breaks the last conjunct for a moment, hence the two parts.

The second half adds what a request knows while it waits to write
(`LocalsOK`: the goal is an edge from the value it read), shows that every step of
`Next` is one of the row moves (`StepsMoveRows`), and concludes for every value of
the constants, under `NoneIsNoValue` and `BoundsAreNaturals` only:

* `TypeCorrect`, `TrailsAlwaysReplay`, `PaidOrdersAlwaysWork`, `NeverSettledTwice`;
* `PromiseKept`: `Spec => LifecycleKeepsPromise`, by mapping each row move to
  `Fulfil`, `Settle` or a stutter (`RowMovesKeepPromise`, `HistoryGrows`).

`OrderMoneyProofs` reads the two trails as sets of entries. What a process relies on
between two of its steps is a fact that never becomes false again (`Grows`: entries,
captured payments, attached orders, records), so a step of another process cannot
disturb it, whatever order they run in; `LocalTruth` says what each process holds at
each of its steps, `Books` how dedup rows, messages and entries balance. On top of the
invariant of `OrderLifecycleProofs`, and with `NoneIsNoOutcome`, this gives `MoneyIsReal`,
`EventsAlwaysTellTheTruth`, `KitchenAlwaysWorksForMoney`, `OneMessageAtMost`,
`AttemptsAreAlwaysFindable`, `PaidIsNeverSaidInVain`.

`OrderCreationProofs` needs, beyond types, where a key comes from: it is the name
of the request that minted it, minted by the customer who holds it for the basket it is bound to
(`MintsAgree`, `StoredIsMinted`), the key table names committed and opened orders that
were sent under that key (`TableNamesOpened`, `OpenedAreNamed`), at most one
transaction is past the insert of a key (`HolderIsAlone`), and answers come from
the table (`AnswersFromTable`). From these and `NoneIsNoRequest`, `LimitsAreNaturals`:
`CreationTyped`, `OneOrderPerKey`, `RetriesAgree`, `OwnAnswers`.

`KitchenBoardProofs`: types by group of variables, then the query and the two halves
of the lock. `LockedMeansUnderWay` is inductive; `OneTransitionPerOrder` needs its
converse (`UnderWayMeansLocked`), which a reset in the middle of a transition
breaks, so both hold up to the first sign-out. Under `FiltersAreStatuses`,
`NoneIsNoCall`, `NoneIsNoRecord`, `BoundsAreNaturals`: `BoardIsTyped`, `QueryIsCurrent`,
`LocksAreReleased`, `NoDoubleTransition`. For the order in which loads land: server rows only
move along the workflow or leave the board, so what a load read or landed stays true
(`SyncedIsPast`, `AnswersArePast`), and while a load holds the token no other one changes
`lastSync`, so what it reads is no further back (`NewestIsAhead`): `NoLoadGoesBack`.

`PaymentScreenProofs`: an answer `paid` is given for a settled order only
(`AnswersAreSettled`), a settled order has a captured payment (`SettledIsCaptured`) and
stays settled (`ConfirmedAreSettled`), whatever the device holds is an order that was
placed (`OnlyPlaced`), and a request or a checkout that is `live` has its page on screen
(`Wired`), which `TypeOK` needs. Under
`CustomersHaveHabits`, `NoneIsNoName`, `NoneIsNoAnswer` and `NoneIsNoRecord`:
`ScreenIsTyped`, `ConfirmationsAreTrue`.

Its second half follows the money of the order the device holds, until another order's answer
has cleared its record (`Kept`). A customer has one hand: at most one request or checkout
acts on the page (`OneHand`). The one attempt of the order that may take money is on record,
and is the one in the checkout or asked about (`RecordHolds`, `PageRemembers`); an answer
"nothing" stays true until it lands (`NothingIsNothing`); while the page is before a checkout
and there is no record, nobody asks about an attempt either (`UnpaidIsClear`). These are
`Remembered`, which `Sound` asks for while the order is kept; requests of orders the
device has left may be there, but act on no page (`CallsAreOurs`). One lemma per handler
shows that it keeps `Sound`, and `MovingMoneyIsRemembered` and
`NothingIsPaidTwiceUnlessErased` follow for every set of customers.

`CatalogueProofs`: `seen` changes only with the counter, so reads that began under one
generation have one floor (`SameGenerationSameFloor`), what they load is no older
(`LoadedIsNew`), nor is what is stored under that generation (`StoredIsNew`): a reader
that is slow stores under the generation it read first, which is why it does no
harm. `AnsweredSavesAreAlwaysSeen` has the hypothesis `"generation" \notin Faults`, without
which it is false (see the findings); `CatalogueTyped` needs none.

`MenuIsShownAsSaved` is about the rows. A transaction that places has written, and so holds,
every link its reset found and every one it has placed since (`HoldsItsRows`); what it wrote are
the places of a prefix of its list (`PlacedBy`). No other save can then write those, so what it
commits is the whole list and nothing of an earlier one, but for categories that had no link
at its reset and were linked by another save (`overlooked`, `LinksAreOfTheLast`). Nothing is
assumed of the links a cinema has. `PagesAlwaysTile` holds of any list: an entry put before it
moves each of its parts by one (`PartBehindAnEntry`), which is what `realOffset` undoes.

`ShowSyncProofs`: a feed is the part of the POS's schedule in the window when it was
asked, or nothing (`FeedsAreHonest`); with the refusal to reconcile on less, this gives
`OnlyDroppedShowsClose`, an action property. `SyncTyped` gives the types.

`SellingProofs`: `Clock` says what a remainder is on a circle of any length, for numbers
below twice the divisor. With it, two windows overlap exactly when some time of day is
in both (`OverlapIsACommonTime`), every time of day occurs on every business day
(`DayHasEveryTime`), and so `WritersAndReadersAgree` for any length of day and week and
any beginning of the business day. `CapHoldsUpToOrdersUnderWay` is inductive with the
types of the counters (`CouponsCounted`): an order passes the check only below the limit, each
later step moves it from one counter to another, and from the payment that reaches the
limit on no other comes under way.

The rest of `SellingProofs` is about sums, which are folds. The fold is a recursive
function, so that it exists (`FoldsToTheEnd`) and does not depend on the order it takes its
elements in (`PartSumProperties`) has to be shown by induction, here from the least
counterexample (`LeastNat`, `SmallestPart`): the library's induction theorems take an operator,
and cannot be used. `SumOfNaturals` and `SumOfDifferences` follow. `PricesInv` says
that each price on a menu, each line of a cart and each coupon is what the configuration it
remembers makes it; hence `SellingTyped`, and `CardIsAlwaysBill`: the Consumer adds
up discounted prices, the server subtracts one sum from another and caps what is left, and the
two agree. `ProductsAreFinite` is the one assumption these add.

Every invariant and action property of the passing runs is a theorem; `AnsweredSavesAreAlwaysSeen`
alone has a hypothesis beyond the assumptions on the constants. Only model-checked are the liveness properties
`CapturedMoneyIsSettled`, `KeyInsertsEnd`, `BoardConverges`, `ScreenMovesOn`,
`FreshInTheEnd` and `ScheduleIsMirrored`: they need fairness and ENABLED, which the prover
cannot reach.

## Plan

Done: `OrderRow`, `OrderLifecycle`, `OrderPromise`, `OrderCreation`, `KitchenBoard`,
`PaymentScreen`, `Catalogue`, `ShowSync`, `Selling` and the proofs above. Next: kiosk and
staff sessions (`auth.store.ts`, token refresh) as a module, and the Dashboard's own screens
once they keep state between requests.

## Not modelled

Authentication, CRUD administration, uploads, health checks, HTTP plumbing,
rendering, generated clients, migrations and scripts: stateless, or I/O around
one call. Signature arithmetic; prices and money formatting inside the order
lifecycle, whose properties only tell a right amount from a wrong one (`Selling` has the
arithmetic).
