# Verification of the tapapp backend

TLA+ modules for the tapapp API (NestJS, TypeORM, Postgres, Redis, Payconiq): bar orders,
their items, the cash, free and Payconiq payments that finish them, the sessions of the
staff, the categories they see, and the workers, read followers and log all of it runs with.
TLC checks small instances; the TLA+ proof system proves every safety property of the
passing runs, two refinements among them, for every instance.

Paths below are relative to the repository (`src/` in `PROJECT.json`).

## The system

| Component | Where | State | Operations |
|---|---|---|---|
| orders API | `apps/api/src/orders` | tables `order`, `order_item` | create, update, delete, get |
| payments API | `apps/api/src/payments` | table `payment`, `order.isFinished` | cash, free, Payconiq; get, cancel |
| webhooks | `apps/api/src/webhooks` | `payment`, `order.isFinished` | Payconiq update |
| Payconiq client | `libs/payconiq` | none (the service keeps the payments) | create, cancel, fetch, conversions |
| models | `libs/models`, `data/migrations` | the Postgres tables | repository calls, constraints |
| sessions | `apps/api/src/authentication`, `shared/guards`, `session.middleware.ts` | sessions in Redis, table `user` | log in, log out, guard |
| categories | `apps/api/src/categories` | tables `category`, `category_sorting`, `product_sorting` (read only) | get |
| bootstrap and clustering | `main.ts`, `session.middleware.ts` | the worker processes | fork, listen, die |
| logger | `libs/logger` | none but the log | the levels, the proxies, the interceptor |
| configuration | `config.ts` | none | replication: reads go to followers; log levels |

**Interaction.** Controllers call one handler and, for a creation or an update, answer with
a query afterwards. A handler is a sequence of awaited repository calls, each a statement or
transaction of its own: no handler holds a transaction or a lock over two calls. `main.ts`
starts several workers (throng) on one database, so any two handlers may interleave at each
`await`. Payconiq payments go through an external service that reports progress by calling
the webhook; the webhook's controller does not await its handler.

**What is hard here.** Checks that are stale when used (`isFinished`, the client name, the
list of items, the total); saves that write back everything that was loaded; writes in
several steps, any of which may fail; callbacks that are late, repeated or early; a
cancellation against a payment that is settling. `PROJECT.json` lists each at its line.

**What makes each component correct.** Orders: totals match items, open client names are
unique in an organisation, finished orders keep their row and their items, an answer shows the lines that were
sent, a rejected request writes nothing. Payments: a finished order has been paid, a payment
keeps its order and amount, cash pays the total once. Webhooks and Payconiq: a row never
claims more than Payconiq does, and a succeeded payment finishes its order. Sessions: a
session is of one who has logged in on it, a destroyed one is gone, a deactivated user's ends
at the next request, and nobody else loses one. Categories: the answer shows what exists,
all of it, once, in the stored order. Workers: several, any of which may die, serve the same
sessions, and every request ends. Logger: the line about a request tells how it ended. Replication: a stale read must not make a handler
break what the tables promise.

## The modules

| Module | Models | State |
|---|---|---|
| `Models` | tables, constraints, repository calls | `orders`, `items`, `payments` |
| `Orders` | the three order handlers | `oreq`: one record per request |
| `Payconiq` | client, status conversion, the external service | `payconiq`, `callbacks` |
| `Payments` | cash, free, Payconiq payments, cancellation | `preq` |
| `Webhooks` | deliveries of callbacks | `hreq` |
| `Tapapp` | all of them together; properties | - |
| `Ledger` | abstract: what the API promises of orders and payments | `exists`, `finished`, `pays`, `settled` |
| `Followers` | `Tapapp` with its reads on followers of the database | `copies` |
| `Tapapp_proofs` | theorems and proofs: what every handler may rely on | - |
| `Payments_proofs` | theorems and proofs: payment rows and what Payconiq says; that `Tapapp` implements `Ledger` | - |
| `Items_proofs` | theorems and proofs: whose items are whose; the answers to creations | - |
| `Serial_proofs` | theorems and proofs: what holds of handlers that run one at a time | - |
| `Totals_proofs` | theorems and proofs: sums; amounts that fit their column; totals | - |
| `MC`, `MCFollowers` | values of the constants for TLC | - |
| `Sessions` | session middleware, serializer, guard, log in and out; Redis and the clients' cookies | `store`, `cookies`, `active`, `sreq` |
| `Logger` | log levels, the TypeORM and Nest proxies, the interceptor, as operators | - |
| `Workers` | `Sessions` served by worker processes that die and are forked, with its log lines | `workers`, `owner`, `reported`, `config`, `lines` |
| `Followers_proofs` | theorems and proofs: the invariant on a database with followers; that `Followers` implements `Ledger` | - |
| `Sessions_proofs` | theorems and proofs: the invariant; what holds of one request at a time; the same of `Workers`, and its log lines | - |
| `MCSessions`, `MCWorkers` | values of their constants for TLC | - |
| `Categories` | GET /categories and the edits of its tables | the tables, `creq`, `edits`, `touched` |
| `Categories_proofs` | theorems and proofs: the sorts; what an answer shows | - |
| `MCCategories` | values of its constants for TLC | - |

`Payments` extends `Orders` and `Payconiq`; `Webhooks` extends `Payconiq`; all extend
`Models`; `Tapapp` composes them and instantiates `Ledger`; `Followers` extends `Tapapp` and
instantiates it once more per follower, with the tables of the follower for those of the
master. `Sessions` stands apart from `Tapapp`: the other handlers only need the organisation
of the user that the guard has let through, and touch no session. `Workers` extends
`Sessions` and `Logger`. `Categories` stands alone: it reads tables that no other handler
writes.

A request is a record with a program counter that names the next awaited call; each action
is that call with the synchronous code up to the next `await`. `oreq[r].row`, `loaded` and
`bare` are what the handler has in memory, so stale reads are explicit. A request ends as
`done` (2xx), `rejected` (4xx) or `failed` (500, or its worker died).

| Code | Actions |
|---|---|
| `CreateOrderHandler` | `CreateCheck`, `CreateSaveOrder`, `CreateSaveItems`, `Respond` |
| `UpdateOrderHandler` | `UpdateFind`, `UpdateCheck`, `UpdateSaveOrder`, `UpdateDeleteItems`, `UpdateCreateItems`, `UpdateFindItems`, `UpdateSaveItems`, `Respond` |
| `DeleteOrderHandler` | `DeleteFind`, `DeleteDeleteItems`, `DeleteDeleteOrder` |
| `CreatePaymentHandler` | `CreatePaymentFind`, `CreatePaymentSave`, `CreatePaymentFinishOrder` |
| `GetCategoriesHandler` | `Receive`, `ReadCategories`, `ReadCategorySorting`, `ReadProductSorting` |
| `run`, `bootstrap`, the listener for Redis errors | `Fork`, `Bootstrap`, `RedisError`; `Disconnect` for a request whose worker has died |
| the requests of `Sessions` on a worker, with their log lines | `WorkerReceives`, `SerializeLogged`, `HandleLogged`, `LoginLogged`, `GetUserLogged`, `DestroyLogged`, `Silently`, `FailLogged`, `LoadFails` |
| TypeORM's choice of a connection | `OrderReads`, `PaymentReads`, `WebhookReads` (a follower); `OrderWrites`, `PaymentWrites`, `WebhookWrites` (the master) |
| Postgres replication, administrators | `Replicate`; `Edit` |
| `CreatePayconiqPaymentHandler` | `CreatePaymentFind`, `CreatePaymentCallPayconiq`, `CreatePaymentSave`, `PayconiqRespond` |
| `CancelPayconiqPaymentHandler` | `CancelFind`, `CancelCallPayconiq`, `CancelUpdatePayment` |
| `WebhooksController`, `PayconiqUpdateHandler` | `WebhookReceive`, `WebhookFind`, `WebhookUpdatePayment`, `WebhookFinishOrder` |
| `addSessionMiddleware` | `LoadSession`, `SaveSession`, the cookie in `Answer` |
| `SessionSerializer`, `AuthenticatedGuard` | `Serialize`, `DestroySession` |
| `AuthenticationController`, `LoginHandler` | `Receive`, `Login`, `GetUser`, `DestroySession`, `Answer`; `Handle` for any other guarded handler |
| a failing query or Redis call, a dying worker (sessions) | `Fail`, `Abort` |
| Redis, administrators | `Expire`, `Deactivate` |
| a failing call, a dying worker | `OrderAbort`, `PaymentAbort`, `WebhookAbort` |
| Payconiq | `PayconiqMove`, `PayconiqCreate`, `PayconiqCancel` |

### Abstractions

* The uuids an entity draws are named after the request that draws them; a request happens
  at most once. Retries of a client are further requests.
* The name check and the read of the products are one action, since products are constant:
  no operation of the API writes them.
* A create or update carries a set of lines. A client knows an order by the answer to its
  creation. Beside any product of a line it sends no item id or any that some answer may have
  shown, of whatever product, order and organisation (`UpdateOrderItemRequest.id` takes any
  uuid); ids nobody was shown are not sent, as they are random. "Careful" clients
  (`CarefulClients`) send the id of every item they keep, and no other.
* Names, emails, timestamps and descriptions are left out, except the client name.
* A payment's `data` is reduced to the Payconiq status; the reference is a wrapped id.
* In `Sessions` any guarded request but a log out is one kind, "use". Its handler is one
  action, `Handle`, which answers with 200 (any success), 400 (whatever it refuses) or 500:
  what it does to the other tables is the matter of `Tapapp`. `handled` says that a handler of
  the request has begun: only then has the interceptor a line about it. A session is its user id; one that is not
  in the store has `Null`. A finished request forgets its device and its copy. `isActive` is
  only ever cleared: no operation of the API sets it, and a user who is activated again would
  only have more sessions pass. Names of session ids are those of the requests.
* In `Workers` a log line is its source, its level and what it is about (the trace id of a
  request, a worker); two equal lines are one. A worker is down, starting or up. A Redis
  error is an element of `RedisErrors` and happens at most once, which bounds the crashes.
  A worker may die between any two calls of its requests; what a request has done by then
  stays done. An answer that was lost with the worker is a failed request.
* In `Followers` a follower catches up in one go, at any time or never, with all that the
  master has; that it stops on the way at states the master has left is not modelled. What
  `save()` reads before it writes it reads on the master, as TypeORM does.
* In `Categories` a sorting is a list of ids, the json value null, or a row that is missing.
  The database returns rows in any order. The administrator makes one edit at a time.

### Assumptions on what is not in the repository

* **Postgres**, READ COMMITTED, as the code opens no transaction of its own; foreign keys as
  the migrations declare them; `integer` columns refuse a larger value.
* **TypeORM** (`^0.2.30`). `save()` of a loaded order compares what was loaded, as the
  handler changed it, with the row at the time of the save and writes every difference:
  stale values overwrite newer ones (the `loaded` items are linked again, other items of the
  order are unlinked, a row that has gone is inserted again, without the organisation that
  was not loaded). One `save()` is taken as atomic although TypeORM reads before it opens
  its transaction: finer steps would only add interleavings. `delete([])` throws. `update()`
  of a missing row does nothing.
  `findOne(conditions, options)` takes the conditions for the `where` of the options, so that
  `findUnfinishedOrderWithClientName` asks for the client name alone: the order of any
  organisation, finished or not, is found (`OrdersWithClientName`; of several the database
  returns any). Its `where` names `organisationId`, which is no property of `Order`, so that
  releases of TypeORM that look at it throw: with a client name the call may therefore
  also fail (`NameQueryMayThrow`), as a choice of its own besides `Failures`.
* **Payconiq**. A payment may change until it is settled (succeeded, failed, expired,
  cancelled), then never; every change is announced to the webhook, once, more often, late
  or never, in any order; a cancellation of a settled payment is refused; an answer may be
  lost after the call took effect. **Callbacks come from Payconiq only**: the webhook checks no
  caller (`webhooks.controller.ts:22-33` takes any body), what others might send it is left out,
  and what is said of payments holds under that assumption.
* **express-session** with the options of `session.middleware.ts`. A request takes a copy of
  the session of its cookie, or a new one. At its end an existing session is written back
  whether it changed or not (`resave`), a new one if it changed (`saveUninitialized` off); a
  destroyed one is not. A changed session sets the cookie. An error of the store while saving
  or destroying does not keep the answer back; one while loading ends the request.
* **TypeORM replication** (`config.ts:102`): `find`, `findOne` and query builders read from
  any follower, anew each time; writes go to the master. `Tapapp` without followers is the
  case in which none is configured.
* **node's cluster, throng**: a connection is accepted by any worker that listens; when a
  worker dies its connections are closed, and another is forked.
* **pino**: a line is written at its level or above, none at `silent`. **Nest**: guards run
  before interceptors, and an error that is no HTTP exception is logged by its filter.

## Properties and runs

Deadlock is not checked: requests are finitely many and each is used once, so the system
stops when all have been made. Symmetry is used where no liveness is checked. `MaxOverlap`
bounds the handlers that run at a time and is no part of the program; `MaxEdits` bounds the
edits of the categories.

| Run | Question | Instance |
|---|---|---|
| `serial` | Is each handler right on its own, across a sequence of requests? | 2 organisations, 3 order requests, 2 cash payments, overlap 1; carts with an overflow, an inactive and a doubled product; no failures, careful clients |
| `races` | What survives overlap, failures and stale or foreign item ids? | 3 order requests, a free payment, overlap 3; carts of two products and of an inactive one; failures |
| `payments` | Do rows and Payconiq agree whatever the order of events? | 1 order, 3 payment requests, 2 deliveries, overlap 2, failures |
| `followers` | Do all handlers together finish exactly what is paid, and keep the ledger, when their reads are old? | 1 follower, 2 order requests, 2 payment requests, 1 delivery, overlap 2, carts of two products, fairness |
| `sessions_serial` | Do log in, guard and log out do what they say, one request at a time, and is a deactivated user shut out? | 3 requests, 2 devices, 2 users (one of no organisation), overlap 1, deactivations, fairness; no failures, no expiry |
| `workers` | Do workers that die keep sessions to those who logged in, does every request end, and does the log tell how? | 2 workers, 1 Redis error, 2 requests, 1 device, 1 user, overlap 2, failures, expiry, deactivations, fairness; two pairs of log levels |
| `categories` | Does the answer show all that is sold, once, sorted as the lists say? | 2 organisations, 3 categories, 2 products, 1 request, 2 edits; lists that leave out, repeat and lose ids, null, or are missing |

`serial`: `TotalMatchesItems`, `UniqueOpenNames`, `CashPaysTheTotal`, `UpdateAnswersItsLines`,
`AmountsStorable`, `PaymentKeepsOrganisation`, `FinishedKeepsItems`. These hold when handlers
do not overlap; several of them fail when they do. `FinishedKeepsItems` is about the row of a
finished order, which items it has and of which product, and does not rest on careful clients:
its theorem is proved for clients that send any item id. That the amounts of the items stay
would rest on them, and does not hold (`foreign_item`).
`races`: `FinishedIsPaid`, `ItemsStayHome`, `RejectedWroteNothing`, `CreateAnswersItsLines`.
`payments`: `TypeOK`, `RowAgreesWithPayconiq`, `PaymentsAreKept`.
`followers`: `FollowersTypeOK`, `FinishedIsPaid`, `CreateAnswersAllOrNothing`, the refinement
`ImplementsLedger`, and the liveness properties `SucceededCallbackFinishesOrder` and
`SavedCashFinishesOrder`. What needs one view of the database does not survive: with a
follower the answer to a creation may have no body at all (201 and nothing, since the order
is not on the follower yet), so `CreateAnswersItsLines` is replaced by "all or nothing".
`sessions_serial`: `DestroyedIsGone`, `LoginGivesSession`, `ActiveStaysLoggedIn`, and the
liveness property `DeactivatedLosesSession`; the first is refuted below when requests overlap.
`workers`: `WorkersTypeOK`, `SessionComesFromLogin`, `RequestLinesTellOutcome`, and the
liveness property `EveryRequestEnds`.
`categories`: `TypeOK`, `UntouchedAnswer`.

**Why the bounds suffice for the questions asked.** Every hazard listed involves at most two
handlers that write and one that reads what they wrote; `races` lets three of any kind
overlap on one order (an update and a deletion against a payment, after the creation).
`payments` has room for a payment, its cancellation and a competing payment, each callback
being delivered twice. `followers` has one follower: it already shows a handler any
earlier state at each of its reads. With two, a later read may also see less than the one
before it; that instance is too large to finish, and is not checked. `workers` starts with the workers up: the one error can hit any
of them at any point of any request, after which it is forked, listens and takes requests
again. A session needs a log in to exist, and one more request to undo or use what the other
did. `categories` has two edits, so that a list may come to name what is gone and leave out what
is new before a request begins.
The totals of the carts lie on both sides of `MaxInt` = 6.

**Fairness.** `FairSpec` and `FollowersFairSpec` assume weak fairness of each started
handler: Node runs the continuation of every call that has been answered, and nothing in a
handler waits for another one. Nothing is assumed of clients, of Payconiq, of the network or
of replication: no request need be made, no callback delivered, no payment settled, and a
follower may lag behind for ever. With `Failures` a handler may stop, so their liveness is
stated without. `CalmSpec` of `Sessions` is the same for sessions in which nothing fails or
expires. `WorkersFairSpec` has weak fairness of each request on a worker that lives, and of
the system closing the connections of one that has died; throng need not fork it anew.

### Two refinements

`Ledger` is what the API promises of orders and payments, in four variables and six actions:
an order is placed, deleted while no payment was ever registered for it, and finished when a
payment of its own is settled; a payment is registered once, for an order that is stored,
and is never moved, removed or unsettled. It has one action that nobody would ask for,
`Reopen`, because an update that overlaps a payment does that (below). `Tapapp` implements it
(`ImplementsLedger`) with `settled` mapped to the cash and free payments that are saved and
the Payconiq payments that Payconiq has settled: the row of a Payconiq payment is no witness,
as a late callback may change it back. `Followers` implements it as well: however old the
rows a handler reads, it never finishes an order that is not paid.

### What the code says and the runs refute

Each is a run that TLC must refute; the `findings` of `PROJECT.json` quote the line.

| Run | Property | What happens |
|---|---|---|
| `race_update` | `FinishedStaysFinished` | an update saves the `isFinished` it loaded before a payment |
| `early_callback` | `FailedWebhookIsReported` | a callback before the payment is saved fails, after the 200 |
| `foreign_item` | `FinishedIsFrozen` | no overlap needed: an update of one order names an item of another that is finished, and changes its amount |
| `line_without_id` | `UpdateAnswersItsLines` | no overlap needed: a line without an id is dropped when its product was there, as item deletion goes by id and creation by product |
| `logout_race` | `DestroyedIsGone` | a request that overlaps a log out saves its copy of the session back |

More of the same kind follow from these models when the bounds of a run are changed, and are
not kept as runs:

* a deletion that overlaps a cash payment removes the items of the order that the payment has
  just finished, and only then fails on the payment's foreign key
  (`delete-order.command.ts:46`);
* without any overlap or failure, the deletion of an order for which a Payconiq payment
  waits, or has been cancelled, removes its items and is then refused by the same foreign
  key: the order stays, with its total and without items (`TotalMatchesItems` with
  `PAYCONIQ` among the payment commands of `serial`; `delete-order.command.ts:51`);
* two overlapping cash payments of one order both pass the check and are both saved
  (`create-payment.command.ts:46`);
* two overlapping creations of one client name both succeed: it is looked up and saved in two
  calls, and no constraint of the table holds it (`UniqueOpenNames` with overlap 2;
  `create-order.command.ts:40`);
* a creation is refused for a client name that only a finished order has, or one of another
  organisation, as the name check asks for the name alone (`order.repository.ts:37`, where the
  comment at `update-order.command.ts:66` says "another unfinished order");
* an error of Redis is in no log, although a comment says "Be sure redis errors are logged"
  (`session.middleware.ts:27`): the listener is a method without its object, throws, and
  ends the worker (`RedisError`);
* an update without a client name writes back the name it has loaded over one that an
  overlapping update has set (`update-order.command.ts:95`);
* an error of Redis while a session is destroyed is ignored, so that a log out is answered as
  done and the session stays (`authenticated.guard.ts:40`).

Known and covered by no property: a late PENDING callback sets a settled row back to
PENDING; a Payconiq payment may succeed on a total that an update has changed since; an
order that an update inserts again after its deletion has no organisation, so
`PaymentKeepsOrganisation` is checked in `serial` only; a request that the guard refuses has
no line from the interceptor; the database level `silent` is the lowest number, so that it
lets every line about a query through that the main level shows; a log in whose second query
fails is answered with 500 and leaves the device logged in (`authentication.controller.ts:42`;
`SessionComesFromLogin` allows for it); an organisation without a
row in `category_sorting` gets 500 for its categories, and the seeds create none.

## What is proved

`Tapapp_proofs` proves, from the assumptions named in the modules (the shape of the
catalogue, `Null` being none of the values it is told apart from, sane lists of commands)
and for every set of requests, deliveries, organisations and products and every overlap:

* `InvariantHolds`: `Spec => []IInv`
* `TypeCorrect`: `Spec => []TypeOK`
* `FinishedIsPaidAlways`: `Spec => []FinishedIsPaid`

Neither property is inductive: whether a step is right depends on what its
handler read some steps ago. `IInv` adds what each handler may rely on at each program
counter. `PaymentHasOrder`: no payment is without its order, as the foreign key has it.
`OrderShape`: the row an update or deletion holds was not finished, so that writing
it back can reopen an order and never finish one. `PaymentShape`: a handler about to finish
an order has its own saved payment, and no payment is registered or saved before its own
request does so. `WebhookShape`: a SUCCEEDED callback, however old, is about a payment that
Payconiq has settled, and a delivery past its first read has a payment on the order it holds.

The argument has three layers. `OrderStepKeepsIInv` says what an order handler owes: it
finishes no order and removes none that has payments. `PaymentStepKeepsIInv` says what every
other step owes: payments persist with their order and type, settled payments stay settled,
an order is only finished when it has been paid, a new payment has an order. One lemma per
action then shows that it does. `FinishedIsPaid` follows because payments persist and a
settled payment stays settled.

`Sessions_proofs` proves, for every set of users, organisations, devices and requests and
every overlap, with failures and expiry:

* `SessionsInvariant`: `Spec => []SessionsIInv`
* `SessionsTypeCorrect`: `Spec => []TypeOK`
* `SessionComesFromLoginAlways`: `Spec => []SessionComesFromLogin`

`SessionComesFromLogin` speaks of the store only, and a request may write a copy that is
arbitrarily old. `RequestShape` says the same of every copy, and that no request has a status
before the guard or the log in has decided. `LoginsKept` shows that a log in, once it has
succeeded, is not forgotten; `RequestStep` reduces each action to what the request's next
record must satisfy (`Fits`).

The other properties of sessions hold when requests do not overlap and nothing fails
(`logout_race` refutes one of them otherwise), so they are proved as they are checked, with
`MaxOverlap = 1` as an assumption and of `CalmSpec`:

* `SerialInvariant`: `CalmSpec => []SerialIInv`
* `DestroyedStaysGone`: `CalmSpec => []DestroyedIsGone`
* `LoginAlwaysGivesSession`: `CalmSpec => LoginGivesSession`
* `ActiveAlwaysStaysLoggedIn`: `CalmSpec => ActiveStaysLoggedIn`

`SerialIInv` says that one request is open at most, that what it holds is what the store has
until it is saved and that a session it has found is that of its device's cookie
(`AloneShape`), and that no one else knows the session id a request may still take
(`FreshId`), which is why a destroyed session is not saved again under its old id.

`Payments_proofs` proves `LedgerImplemented`: `Spec => ImplementsLedger`. The invariant `IInv`
is what makes it go: that an order handler holds a row that was not finished makes its save a
`Place`, a `Reopen` or a stutter and never a `Finish`; that a handler about to finish an order
has a settled payment of that order makes its step a `Finish`; and that no request registers
a payment before its own makes every insertion a `Register`. Lemmas such as
`DeleteUnreferenced`, `FinishByPayment` and `RegisterNew` say when a call is which action of
`Ledger`; one lemma per handler puts them together.

It also proves `RowInvariantHolds`: `Spec => []RowInv`, and from it

* `RowAgreesAlways`: `Spec => []RowAgreesWithPayconiq`
* `PaymentsAreKeptAlways`: `Spec => PaymentsAreKept`

A row is written from a callback that may be very old, or after a cancellation, so that
`RowAgreesWithPayconiq` needs to know of everything that is on its way. `RowInv` adds
`Announcements` (each callback, sent or being handled, says nothing that Payconiq does not
confirm) and `RowShape` (a handler about to save has registered that amount, one about to
cancel a row has cancelled at Payconiq). Two facts carry it: `MovesOn`, that Payconiq never
takes back an end or an amount, so that what was confirmed stays so; and `RowStep`, that a
handler leaves the rows alone, saves its own, or updates one with a confirmed status.

`Items_proofs` proves `ItemInvariantHolds`: `Spec => []ItemInv`, and from it

* `ItemsStayHomeAlways`: `Spec => []ItemsStayHome`
* `RejectedWroteNothingEver`: `Spec => []RejectedWroteNothing`

An update saves the order with the items it loaded earlier, and that save links them to the
order again, even those that have been unlinked since. That it links no other order's items
is `HomeShape`: until it has saved, a handler has loaded items of requests about its own
order only. `WrittenByOwner` says that what is not past its checks has written nothing.
`Forward`, `ItemStep` and `OrderRowStep` are what every step grants to all the others; one
lemma per action shows that it does.

It then proves `AnswerInvariantHolds`: `Spec => []AnswerInv`, relative to `IInv` and `ItemInv`,
and from it

* `CreateAnswersItsLinesAlways`: `Spec => CreateAnswersItsLines`

Nothing locks an order between its insertion and the answer to its creation. What protects
it is that nobody knows of it: `SecretsKept` says that no handler has loaded, and no client
has sent, an item of a creation that still runs, and `CreationShape` that what the creation
has stored is there as it was sent. `ItemsOfACreation` uses `ItemInv` to show that no other
request has added an item. This rests on clients learning ids from answers only, as ids are
random (`uuid`).

The properties of `serial` need one handler at a time, as the run has it: with overlap most
of them fail (above). `Serial_proofs` therefore takes `MaxOverlap = 1` as an assumption, and
proves `SerialInvariantHolds`: `Spec => []SerialInv`, relative to `IInv` and `ItemInv`, for
every sequence of requests and callbacks, careful clients or not, and from it

* `UniqueOpenNamesAlways`: `Spec => []UniqueOpenNames`
* `PaymentKeepsOrganisationAlways`: `Spec => []PaymentKeepsOrganisation`
* `FinishedKeepsItemsAlways`: `Spec => FinishedKeepsItems`
* `CashPaysTheTotalAlways`: `Spec => []CashPaysTheTotal`, if in addition nothing fails

`SerialInv` says that one handler is open at most (`OneHandler`) and that what it has read is
what the tables still have: the name that was free is free, the order is there, not finished
and of the organisation, and its items are the ones loaded (`OrderCurrent`); the order of a
payment is there, not finished, and its total is the one to be paid (`PaymentCurrent`). That
a handler may fail after any call is part of it: a handler that stops half-way leaves nothing
behind that the next one relies on. Only `HandsPayTheTotal`, that a payment by hand is the
one of its order and has finished it once its handler has ended, needs that nothing fails, as
the payment is saved before its order is finished. `UniqueNames` is
stronger than `UniqueOpenNames`: no two orders at all share a name, as the name check turns a
request away for any order with its name. Each step of a handler keeps the finished
orders as they are (`FrozenStep`) and leaves the organisation of orders with payments alone
(`PaidOrdersStay`); steps of payments and callbacks, other than an insertion, only finish
orders (`RowsFinish`) and change how a payment stands (`BillsStay`).

With `CarefulClients` added, as the run has it too, `Serial_proofs` proves
`UpdateInvariantHolds`: `Spec => []UpdateInv`, relative to `IInv` and `SerialInv`, and

* `UpdateAnswersItsLinesAlways`: `Spec => UpdateAnswersItsLines`

A careful client sends the id of every item it keeps; without that the run `line_without_id`
refutes the property. `UpdateInv` follows an update from call to call (`UpdateShapeOf`): a
line with an id names an item of the order that has its product, a line without one has a
product that the order has not, or that it keeps no item of once the items are deleted; from
the creation of new items on, the items of the order are those of the lines, and before the
answer they have their amounts (`ItemsAreOfLines`). `ItemIsOfItsProduct` is needed as the
code deletes by id and creates by product. An update that fails on the way leaves its order
half-way, and the next one starts from what it finds.

`Followers_proofs` proves, for every set of followers, `FollowersInvariant`:
`FollowersSpec => []FollowersIInv`, and from it

* `FollowersTypeCorrect`: `FollowersSpec => []FollowersTypeOK`
* `FollowersFinishedIsPaid`: `FollowersSpec => []FinishedIsPaid`
* `FollowersImplementLedger`: `FollowersSpec => ImplementsLedger`
* `CreateAnswersAllOrNothingAlways`: `FollowersSpec => []CreateAnswersAllOrNothing`

`FollowersIInv` is the three invariants of `Tapapp` on the master and `CopyInv`, what a
handler may rely on in a copy, however old: a payment that was copied is still there, with
its order and type (`PaymentsCopied`); an item that was copied is of a request that is past
its checks, and was at home (`ItemsCopied`); the items of a creation were copied all or none
(`CreationCopied`). What a copy says of `isFinished`, of the client name or of the lines of
an order may be wrong, and nothing proved rests on it. The writing calls are those of
`Tapapp`, so their lemmas in `Tapapp_proofs`, `Items_proofs` and `Payments_proofs` are
used again; a reading call moves its handler on to its next call, with
what it has read (`GoesOnToSave`, `Reloads`), or ends it (`EndsOnRead`). `Forward` says what
all of them grant to `CopyInv`.

Each action of `Workers` is one of `Sessions` with its log lines, or leaves its state alone
(`WorkersTakeSessionsSteps`), so that the theorem about `Sessions` gives the corollary
`WorkersKeepSessionComesFromLogin`. For the log `Sessions_proofs` proves
`WorkersInvariant`: `WorkersSpec => []WorkersIInv`, and from it

* `WorkersTypeCorrect`: `WorkersSpec => []WorkersTypeOK`
* `RequestLinesTellOutcomeAlways`: `WorkersSpec => []RequestLinesTellOutcome`

`RequestLinesTellOutcome` is about requests that are done, and its line is written long
before, in one of five places: a guarded handler that answers, refuses or throws, a log in
that is refused, that is accepted and answered or whose queries fail, a log out. `LinesShape`
says where: a request has no line before its handler has ended, none at all if the guard
refused it or the serializer failed (`HandledShape`), none that says otherwise than its
status, and the one that is due before it is saved and answered, although its worker may die,
and others may log, at any time. The status of a log in that was accepted is open until its
second query is answered (`Undecided`).

`Totals_proofs` is about money. `TotalPrice` is a fold (`MapThenSumSet`) over a set of lines
of any size. The library's induction over finite sets takes an operator and cannot be used;
`SubsetInduction` says the same with a set of subsets for the operator, and is proved by a
least counterexample, as strict inclusion of finite sets is well-founded. From it follow that
the fold is a sum (`SumUnfolds`, `SumTakesOut`: whichever member is taken out first), that no
positive term exceeds it (`SumBounds`), and that a bijection carries it over (`SumOfBijection`).

* `AmountsInvariantHolds`: `Spec => []AmountsInv`
* `AmountsStorableAlways`: `Spec => []AmountsStorable`

hold whatever overlaps and fails. The code checks no amount: it stores the total first, and
Postgres refuses one that is too large. As prices are positive (an assumption on the
catalogue) each amount is at most the total, so that the items saved later fit.
`AmountsShapeOf` carries that from the call that saves the order to those that save its items.

* `TotalsInvariantHolds`: `Spec => []TotalsInv`
* `TotalMatchesItemsAlways`: `Spec => []TotalMatchesItems`

are proved for one handler at a time, without failures, with careful clients and without
Payconiq payments, as `serial` checks it. None of these can be left out. With overlap a stale
update saves a total over the items of another; a failure leaves the total of one list with
the items of the other; a client that drops an id loses the line and pays for it
(`line_without_id`); and beside a Payconiq payment a refused deletion loses the items, which
came out when this proof did not go through (above). `TotalsInv` says that every order is
priced at the sum of its items but the one a handler is half-way through with (`HalfWay`),
which has the total of the handler's lines. At the answer the items are those of the lines,
one for one (`UpdateInv`, `CreationShape`), and `SameTotal` turns the bijection between them
into the equality of the two sums.

`Categories_proofs` proves, for every set of categories, products, requests and lists of any
length, however often the tables are edited, `CategoriesInvariant`: `Spec => []CategoriesInv`,
and from it

* `CategoriesTypeCorrect`: `Spec => []TypeOK`
* `UntouchedAnswerAlways`: `Spec => UntouchedAnswer`

`Sorted` puts each element in its `Place`, the number of those that come before it, itself
included. `PlacesDiffer` shows that this order of positions, and of the old order where they
are equal, is total, so that places differ; since there are as many places as elements each is
taken, and the sort is a permutation in order (`SortedPermutes`). Positions order what a list
names by its first place in it, and what it does not name comes first (`InOrderOfPositions`).
`RowsShape` says what a request has read: categories of its organisation, nothing twice, and,
unless somebody has edited the tables since, all that is sold and the list that is stored.

The inductive invariants are defined in the proof modules, before the lemmas about them; each
was checked by TLC on the instances above before it was proved.

Only model-checked is liveness (`SucceededCallbackFinishesOrder`, `SavedCashFinishesOrder`,
`DeactivatedLosesSession`, `EveryRequestEnds`): the prover handles neither fairness nor
`ENABLED`. What the code breaks (the table above) is refuted by TLC: those properties have no theorem, or
one for the case in which they hold.

## Not modelled

The path from a session to the organisation of an order or a payment (their requests are
taken as authenticated). The log lines of orders, payments and webhooks, the redaction of
fields and the pretty printer. The rate limit, whose counter in Redis is a library's, CORS,
helmet, compression, Swagger and Sentry, which are installed once and hold no state of the
application. Values of the environment beyond the followers and the log levels. String
validation (`libs/common`), which no request of the orders and payments APIs uses. Seeds and
test helpers, which run outside the API; the constraints of the migrations are in `Models`
and `Categories`. `PROJECT.json` gives the reason for each.

## Plan

Done: all modules above, their runs, the refinements, and proofs of every safety property the
runs check, under overlap or for one handler at a time. What would add most from
here: the log lines of the orders and payments APIs, with the actions of `Tapapp`.
