# Vitja service: specifications, model checking and proofs

Vitja is a second-hand marketplace: a TypeScript service on Backk, a framework
that is kept in the same repository. The shop's rules live in `src/src/services`,
everything they rest on (database managers, transactions, jobs, queues, request
execution) in `src/src/backk`. This directory specifies the parts where several
requests, jobs or replicas work on the same rows, checks them with TLC and
proves the main results with TLAPS for any number of users, items, orders, replicas,
requests, connections, operations and consumers.

Paths below are relative to `src/src/`. `PROJECT.json` maps every definition to
the lines it models.

## 1. The system

| Component | State | Operations | Interacts with |
|---|---|---|---|
| Sales items (`services/salesitem`) | row per item: state `forSale`/`reserved`/`sold`, buyer, last modification, likes | create, update, delete, like; state moves for carts and orders; jobs `changeExpired...ToForSale` (each minute), `deleteOldUnsold...Daily` | carts and orders call it inside their transactions |
| Shopping carts (`services/shoppingcart`) | row per user, association rows to items | get, add, remove, empty; delete by `payOrder` | reserves and releases items |
| Orders (`services/order`) | row per order with payment data; row per order item with its state | place, pay, discard, delete, deliver, receive, return, receive returned, remove item; job `deleteUnpaidOrders` (every five minutes) | sells and releases items, deletes carts, sends refund and notification messages |
| User accounts, tags, users, audit log (`services/...`) | rows | follow and unfollow, favourites, tags, ... | following an account or liking an item touches rows other parts use |
| SQL entity operations (`backk/dbmanager/sql/operations`) | tables of entities, sub-entities, associations and array values | create, read, update, delete entities with sub-entities, filters, hooks, locks | every service function |
| MongoDB manager (`backk/dbmanager/MongoDbManager.ts`, `backk/dbmanager/mongodb`) | collections of documents | the same operations, each statement by itself | every service function, instead of the SQL operations |
| Transactions and connections (`backk/dbmanager/AbstractSqlDbManager.ts`, `continuationlocalstorages`) | per call: connection and transaction flags; the pool | reserve, release, begin, commit, roll back, nest | every operation |
| Request execution (`backk/execution`, `backk/authorization`, `backk/captcha`) | per call: counters and flags; cached responses in Redis; the audit log | single calls, multiple calls in sequence or in parallel, with and without a transaction; who may call, what is cached, what is logged | services, connections, remote services |
| Cron jobs (`backk/scheduling`) | row per job: the next tick | tick, attempt, execute, retry; initialise at start-up | all replicas share the row |
| One-off jobs (`backk/scheduling`) | row per job, timers | schedule, reschedule at start-up, execute, retry | as above |
| Messaging (`backk/remote`) | Kafka topics with offsets, Redis lists | send, send in a transaction, consume, answer, resend | request execution; post-hooks of entity operations |
| Start-up (`backk/initialization`, `.../ddl`) | row per application version | create or alter tables, mark as initialised | all replicas share the row |
| Validation, encryption, metadata, generators, observability | none shared | conversions and checks of one call | |

What is hard in it:

* Service functions run concurrently in one process and in several replicas. A
  transaction locks the rows it reads as roots of a query; rows that come in by
  a join are not locked, so a joined value may be stale when it is used.
* Jobs race with requests, and with themselves in other replicas.
* The time in a filter is evaluated statement by statement, and time passes
  between the statements of one transaction.
* Hooks run between the read and the write of an operation and may themselves
  execute operations, which can fail.
* Some results are produced by callbacks that run after the function that
  returns them; some statements run after the operation they belong to has failed.
* Flags in continuation-local storage say who owns a connection and who ends
  its transaction; multiple calls share them with the calls they execute.
* With MongoDB no statement is part of the transaction it is executed in.
* Checks and messages come before or after a commit that may have another outcome.
* Replicas crash and restart; attempts of jobs fail and are repeated.

What correctness means, by component: an item is sold to one customer at a time
and is released exactly with the order that holds it; a reservation belongs to
one user and ends while its job runs, as does an unpaid order, and a paid one is not
cleaned up; money
goes back only for what was paid, and what is refunded can be sold again; an
operation on one order does not touch another; a job is executed once per tick
by some replica, and goes on being executed; a transaction is all or nothing, and
what a call answers agrees with what it committed; connections are not shared; an
update builds on the row it has read; the rows of an entity's relation are touched
through that entity only; transactions that wait for each other come to an end;
what was committed is in the audit log; no committed offset passes a message by
before it was dealt with or has expired, nor is an operation committed without the
messages it owes. Where the code does not keep to this, the property names the case.

## 2. Modules

| Module | Content |
|---|---|
| `OrderBook` | the abstract specification of what the order service promises |
| `Checkout` | sales items, carts and orders up to delivery, with the jobs; implements `OrderBook` |
| `ScheduledCheckout` | `Checkout` with its jobs under the scheduler, which may stop: liveness |
| `OrderItems` | order items on their rows, from the order to delivery or return |
| `CronScheduling` | which replica executes a periodic job, and when |
| `Transactions` | connections, flags and transactions of single and multiple calls |
| `SqlEntities` | the entity operations on PostgreSQL: rows, locks, constraints, deadlocks |
| `MongoEntities` | the entity operations on MongoDB: statements without a transaction |
| `Hooks` | what comes of a hook before or after a statement; used by the two above |
| `ServiceCalls` | a request from its arrival to its answer: checks, cache, audit log |
| `MessageDelivery` | the abstract specification of a message: accepted, handled, lost, skipped, expired, dismissed |
| `MessageQueues` | sending from post-hooks and consuming, over Kafka and Redis; implements `MessageDelivery` |
| `MC...` | symmetry sets, small sets of inputs and action constraints of the runs |
| `CheckoutProofs` | invariants, refinement and step properties of `Checkout` |
| `OrderItemsProofs`, `CronSchedulingProofs`, `TransactionsProofs`, `SqlEntitiesProofs`, `MongoEntitiesProofs`, `ServiceCallsProofs`, `MessageQueuesProofs` | invariants and step properties of the module each is named after |

They fit together as the code does. `Checkout` and `OrderItems` take each service
function that is one transaction as one step, which is what `Transactions`
(all or nothing, no shared connection) and `SqlEntities` (what is read FOR UPDATE
is what is written) are about one level down. `ServiceCalls` takes a local
transaction as one step that commits, and `MessageQueues` takes the execution of a
message as one step that ends with a status.

In each module an operator that is defined right above another one, with the
same parameters, and is used nowhere, is the other one with a plausible mistake
in it. With the mistake in place the property named next to it in `PROJECT.json`
("mutants") is violated.

### Checkout

`state`, `buyer` and `stale` are the columns of the sales items that matter:
`stale` abstracts `lastModifiedTimestamp` to whether the item has been reserved
for the maximum time. `carts`/`cartOwners` are the cart rows, `status`,
`customer`, `contents`, `overdue` the orders, where ended ones keep how they
ended. `placing`, `cleaning`, `selected` and `releasing` are the local state
of the two functions that are not one step.

* `PlaceOrderRead`, `PlaceOrderCommit`, `PlaceOrderAbort`: `placeOrder` reads and
  locks the cart, whose items come in by an unlocked join, and writes later.
  Everything but the cart may change in between.
* `DeleteUnpaidOrdersSelect`, `...Commit`, `...Abort`: `deleteUnpaidOrders`
  reads and locks the overdue unpaid orders and puts their items back for sale;
  then it deletes by the same filter, evaluated again.
* Every other service function is one action with its hooks: `AddToShoppingCart`
  includes the reservation of the item, `PayOrder` the deletion of the cart.
* `CartFree`, `OrderFree`, `ItemFree` are the row locks of the two functions: an
  action that would have to wait for a lock is not enabled.
* `ReservationBecomesStale` and `OrderBecomesOverdue` are the passing of time.
  They may happen at any moment, so the model has more behaviours than the
  clock allows; a safety property that holds for it holds for the service, and
  the run `checkout_leak` excludes the one behaviour that would be unfair to it
  (an order placed and overdue within one transaction). The filter of a statement is
  evaluated at the time of that statement, as on MySQL; PostgreSQL's
  `current_timestamp` is constant within a transaction.
* `DeleteOldUnsoldSalesItemsDaily` deletes any set of items for sale (age is not
  tracked).
* A deleted sales item takes its association rows along (`ON DELETE CASCADE`,
  `initializeDatabase.ts:166`). `carts` and `contents` keep its name, which no
  reader of the code sees (`Exists`, `VisibleItems`).

Assumptions: a locked read locks its root rows until the end of the transaction.
With PostgreSQL it does. **The application is wired to MySQL** (`main.ts:16`,
`app/app.module.ts:34`): there the outer `FOR UPDATE` of a query over a derived table
with a `LIMIT` (`MySqlDbManager.ts:132`) does not lock the inner table's rows, and
more interleavings are possible than those of the model. The same assumption is made
by `OrderItems`, `CronScheduling` and `SqlEntities`: what the four show is about
the code with a manager whose locks are locks. One cart per user is taken
from the data model. The quota of 100 items for sale, the maximum of 50
items per cart and the page of 1000 in `deleteUnpaidOrders` are above the bounds.

### ScheduledCheckout

`scheduled` is the set of jobs that will be started again. A job starts while it is
in the set (`JobStarts`). It leaves the set when a tick passes that no replica
has executed, because its row then names a time in the past, or when there is no
connection left for an attempt, as each attempt keeps one
(`scheduleCronJobsForExecution.ts:88`): `JobStops`, at any time, and `JobFails`, an
execution that is rolled back. It comes back only when a replica is started and
initialises the rows (`RestartReplica`). How a tick comes to be missed is
`CronScheduling`'s matter, how connections are lost `Transactions`'.

### OrderBook

Orders are placed for items that no current order holds, may be settled, and end
once; clearing out in bulk ends open orders only. `Checkout` implements it under
`phase <- Phase` (unpaid = open, paid = settled) and `entries <- contents`.

### OrderItems

Here the rows of the order item table are explicit, because the code addresses
them in three ways: by order and index (`id`) when it checks, by index alone when
it updates (`updateEntity.ts:323`), and by an index taken for a key (`_id`) when
it removes what an update does not list (`updateEntity.ts:164`). `rows[r]` is the
row with `_id` = r, `nextRow` the auto-increment. `refunds` and `orderRefunds`
record the messages that were sent; `everPaid` is history for the properties.
Sales items are only sold, unsold or deleted; carts and reservations are
`Checkout`'s. Each function locks its order and is one action.

### CronScheduling

Ticks are numbered. `tick` is the last that has passed, `near` the tick (if any)
that is within the half second of the time check. `next` is
`nextScheduledTimestamp`, `holder` whoever has locked the row, `callback[p][t]`
what has become of the callback that replica p started at tick t, `attempts` and
`advances` how often it has tried and how often it has called `interval.next()`.
An attempt is the locked read with its check (`StartExecution` or
`SkipExecution`), then `FinishExecution` or `FailExecution`; `AttemptFails` is
everything that fails before or around them. `Crash` rolls back, `Restart`
includes `tryInitializeCronJobSchedulingTable`.

Retry intervals go from 1 to 500 seconds by default, so the retries of a job that is
executed every minute or every five reach the time of later ticks, as does a first
attempt that waits for a connection. Such an attempt is late. It executes the job if
the row names the tick it meets, and commits what its own `interval.next()` gives,
which goes on from its own tick: the row may come to name a tick that was executed,
or the very tick at which it commits, and other replicas execute it then. `late`
remembers the ticks that a late attempt has executed; the properties except these
(`AtMostOncePerTick`) and the steps at which the job is being executed by a late
attempt or initialised after one (`ScheduleNeverGoesBack`), and nothing else.

Assumptions: retry intervals are at least a second; the lock is a lock (see above); a
callback parses its schedule at the time of its tick. `Punctual`, for the run about
liveness only, says that attempts are made within half a second of their tick.

### Transactions

`connection[c]` and `flags[c]` are the continuation-local storage of request c:
`multipleConnection` and `multipleTransaction` are `connection` and
`globalTransaction` in the namespace of multiple calls, `globalTransaction` and
`localTransaction` those of a call. `idle` is the pool, `session[k]` the
transaction of connection k and the statements in it, `committed` what others
see. `pooled` says which manager it is: PostgreSQL's connections go back to a
pool as they are, MySQL's are destroyed with their transaction.

A service function is what the framework sees of it: operations
(`StartOperation`, two `Statement`s in parallel, `OperationSucceeds` or
`OperationFails`), executables (`EnterTransaction`, `LeaveTransaction`,
`CommitFails`), a result (`ReturnSingle`, `AnswerInMultiple`) or an exception
(`ThrowInSingle`, `BreakMultiple`). `LateStatement` is a statement of an operation
that failed while the statement was queued: `Promise.all` does not wait for it.

Behind the function come four checks (`FailsCheck`, `tryExecuteServiceMethod.ts:349-400`):
several operations outside a transaction, an operation and a remote call, several remote
calls, an operation after a remote call. Each makes an error of the result unless the
function is annotated, whatever has been committed. `PossibleRemoteCalls` are the
remote calls a function may have made; they change nothing here.

Abstracted: what statements write; queries differ from writes only in
`ReadAbandonsTransaction` (the early return of `getEntityByFilters.ts:116`). A
function returns the error it got, as all services of the shop do.

What the properties except is what the code does: `AllOrNothing` is about the
executables of single calls that are not nested; `ErrorsLeaveNothing` about calls
that were one unit of work and called no other service, because the checks on
remote calls refuse what is committed; `RequestsGetConnections` about requests while there is
a connection that was not lost.

### SqlEntities

One entity class with one relation: one-to-many whose class declares its `_id`
("keyed") or does not ("numbered"), many-to-many, or array values. `rows` and
`children` are the two tables, `serials` the last serial numbers, `request[r]` an
operation and its transaction: the rows it has locked (`locks`) or refers to
(`shares`), the snapshot its select has taken (`seen`, before the lock is there),
and the rows it removes and adds. `Plan` says of each operation of
`AbstractSqlDbManager` what it reads first, what it does when there is none, and
what it writes; `PlanOf` is the table of all of them. `SelectEntity`,
`LockEntity`, `LockSubEntity`, `WriteChildren`, `WriteRow` are the statements in
their order, `Deadlock` the database's choice of a victim. `Duplicates`,
`Violates` and `RowRefused` are the constraints that `initializeDatabase`
and `createEntity` leave in the tables.

Abstracted: sub-entities are ids and values; projections, sorting, pagination and
encryption are left out; a post-hook of a relation's entities too.

### MongoEntities

`docs` is a collection, a document has a name with a unique index, a field, an
array of values, a one-to-many list (`subs`), a one-to-one object with a list of
its own (`nested`) and references to other documents (`links`). `PlanOf` is the
table of the operations of `MongoDbManager`; the actions are the statements:
`ReadEntity`, `ReadAgain` (updateEntity reads again within other operations),
`UpdateEntity`, `RewriteEntity`, `AddSimple` (`$push`), `PullSimple` (`$pull`),
`UpdateMatches` (`updateMany`), `DeleteEntities`, `CreateEntity` and `ReadBack`.
No statement is given the session, so each commits by itself; the one that sets
`_backkLock` locks nothing after it has committed and is left out.
`MatchExpression` is the conversion of filters, with the object spread by which
conditions replace each other. A condition is on a field or on a function of it, asks
for a value or for one of several (`IN`), or is an OR of such conditions. A function
becomes a `$where` expression, and there is one `$where` in an expression, whatever
the fields (`Key`). `Asked` is what the condition asks for, `Accepted` what its
conversion accepts: the same but for the conditions that are `Misconverted`: an
`IN` on a function is a list of objects that no value is equal to, DAY is converted
to `getDay` (the day of the week) and MONTH to `getMonth` (which counts from 0).
`ResultOf` and `Evaluated` are constants, so the functions are any functions.
Left out: the functions of texts, whose value gets into the expression without
quotes, NOT IN on a function, which accepts everything, WEEK and WEEKDAY, which throw,
and filters that are queries of MongoDB's own (`MongoDbQuery`).

### Hooks

`tryExecutePreHooks`, `tryExecuteEntityPreHooks`, `tryExecutePostHook` and
`tryExecuteEntitiesPostHook` as functions of what the condition and the hook give
(a value, a pair with an error, an exception), and the sets of outcomes over all
hooks.

### ServiceCalls

`call[c]` is the progress of a request through `tryExecuteServiceMethod`: its
stage, response, error, counters of local transactions and remote calls, and
whether an effect was committed and audited. `version` is the version of the
entity that the service function reads and writes, `cache` the entry in Redis,
`service` what kind of service function it is (its access, whether it is cached,
its transaction annotations, whether the versions of its responses are texts, whether
a header is generated from them). `Crash` is the end of a replica in the middle of a
request, `RedisFails` a failing command, `EntryExpires` the time to live.
`undisturbed` is history: none of this has happened, and no two requests were
between looking up and storing a response at once.

The answer may fail after the commit: a response whose version the client knows is
replaced by null, which is then asked for its version (`KnownVersion`,
`tryExecuteServiceMethod.ts:505-517`), and a header generator may take a response apart
that is not there (`LacksResponse`, line 555). These are TypeErrors, which the `finally`
block cannot audit. `EffectsAreAudited` excepts them by name (`HeadersFail`).

Abstracted: arguments and responses to what the stages ask of them; tokens to
whom they name.

### MessageQueues

`operation[o]` is an entity operation that sends one message or, in a transaction
of messages, two from its post-hook; `queue` is one partition of a topic, or one list,
and `start`, `position`, `offset` and `owner` say of the partition what has
expired, what its owner has passed, what the group has committed, and who has it.
`consumer[k]` is what a consumer is doing with its message.

* `SendToKafka`: a message may be there although sending fails. `acknowledged` is
  `sendAcknowledgementType`: with the acknowledgement of all replicas, the default,
  sending succeeds only when the message is there; with `NONE` or `LEADER_ONLY`
  (`sendOneOrMoreToKafka.ts:89-91`) it may be lost after all. A transaction never
  succeeds, as the producer is made without a `transactionalId` (lines 41 and 54).
* `PushToRedis` pushes one by one, `EndSendToRedis` is the `exec` that fails.
* `SendAgain` is the copy that is sent ten seconds after a failure. Nobody looks at
  whether that succeeds: `settled` if it does, `lost` if not.
* `Reply` gives up: the header `responseUrl` is always sent (line 96) and
  arrives as a buffer, which is true even if it is empty and cannot be parsed. So a
  message over Kafka that succeeded is delivered again, and passed only by one
  of the failures that send it again.
* `ExpireMessages` is the retention of five minutes with which consumers create the
  topic (`consumeFromKafka.ts:37-46`). As `subscribe` is given no `fromBeginning`
  (line 158), a consumer begins at the end of the partition (`BeginAtTheEnd`) when the
  group has committed no offset or one whose message has expired (`TakePartition`), or
  when the message it wants next has (`ResetPosition`). What it passes over is `skipped`.
* `LosePartition` lets a session time out while its consumer goes on; `Crash` stops a
  consumer, `LoseOperation` an operation that has sent before its commit.

The brokers are external: Kafka delivers from the committed offset to whoever owns
the partition, Redis pops once. Duplicates from the retries of the client library are
left out. `FreeOperations`, `Resent` and `MaxCopies` bound which operations may use
transactions and acknowledgements, and how often whose messages are sent again.

### MessageDelivery

What a service may rely on, without topics, offsets and consumers. A message is
accepted, handled (it succeeded, or another was accepted in its place) and dismissed
(it is not delivered any more), and none of these is undone. The guarantee is a matter
of order. Over Redis ("atMostOnce") a message is dismissed before it is handled, so it
is lost with its consumer. Over Kafka ("atLeastOnceUntilExpiry") only what was handled
is dismissed, with two exceptions, which are actions of their own: a message that failed
and could not be sent again is lost (`Lose`), and messages are skipped (`Skip`) before
the first was dismissed, or once some have expired. So the promise is weak, but it
says where messages go: as long as nothing expires and a group has committed once, none
is passed by unless it was executed or its re-send failed. The mapping takes `sent`,
`settled`, `lost` and `skipped` as they are; dismissed is what lies before the committed
offset, or is not in the list any more (`Dismissed`). That a message is handled in
the end is not promised: one that is refused blocks those behind it until it expires.

## 3. Runs

Where a run has a `SYMMETRY` it is the permutations of sets of model values, which
is sound because no definition tells the elements apart; runs with liveness
properties use none.

| Run | Instance | Shows |
|---|---|---|
| `checkout` | 2 users, 2 items, 2 orders; 80 451 states | an item is in one current order (`NoDoubleSale`), stays sold to that order's customer (`OrderItemsStaySold`) and is released only with it (`SaleUndoneOnlyWithItsOrder`); reservations do not change hands (`ReservationNotTakenOver`); cleaning never meets a paid order (`CleaningWorksOnUnpaidOrders`) and releases all it has read (`ReadOrdersAreReleased`); the order book is implemented (`ImplementsOrderBook`) |
| `checkout_live` | `ScheduledCheckout`: 1 user, 2 items, 2 orders, `FairSpec`; 90 832 states | unpaid orders end unless `deleteUnpaidOrders` stops; reservations of items nobody keeps liking end unless the expiry job stops |
| `checkout_leak` | 1 user, 1 item, 1 order; expects a violation | see below |
| `items` | 3 orders, 3 items, 4 rows; 150 802 states | refunds follow payments (`RefundsOnlyForPaidOrders`) and release the item (`RefundReleasesItem`), although updates and deletions reach rows of other orders |
| `cron` | 3 replicas, 3 ticks, 2 retries, 2 failures, attempts at any time; 2 095 382 states | at most one execution per tick, unless a late attempt has executed that tick (`AtMostOncePerTick`) |
| `cron_live` | 2 replicas, 3 ticks, punctual, `FairSpec`; 48 077 states | a tick is executed unless something failed since the row was initialised |
| `transactions` | 2 requests on 1 connection, one of any kind with 2 operations and an executable, one simple, `FairSpec`; 310 133 states | connections are not shared (`ConnectionsAreExclusive`) and come back without writes (`IdleConnectionsHoldNoWrites`); what a call answers agrees with what it committed (`AllOrNothing`, `ErrorsLeaveNothing`, `SuccessIsDurable`); a waiting request gets a connection unless all were lost (`RequestsGetConnections`) |
| `sql` | 2 requests, 2 entities, every operation, every relation; 431 419 states | an update builds on the committed row it read (`UpdatesBuildOnTheirRead`); a relation keeps its maximum (`MaximumIsKept`) and is touched through its entity (`OthersKeepTheirSubEntities`) |
| `sql_live` | 2 requests with the operations that lock, in every order; 67 798 states | every operation is answered: deadlocks are broken |
| `mongo` | 2 requests, 2 documents, every operation, lists of up to 2, 5 lists of filters; 1 783 966 states | versions lag but are not invented, sub-entities pushed meanwhile survive a rewrite, deleted documents stay deleted, an error leaves nothing but what the property excepts, filters miss nothing unless one is misconverted |
| `service_calls` | 5 kinds of service functions, a request of any kind and one GET, 2 steps; 3 907 648 states | what was committed is in the audit log with the outcome the caller saw, unless the headers of the answer fail (`EffectsAreAudited`); cached responses expire while nothing fails (`UndisturbedEntriesExpire`) |
| `message_queues` | 2 operations with 1 or 2 messages, one of them with transactions, acknowledgements and a copy that is sent again, 2 consumers; 1 350 332 states | an acknowledged operation that has committed has sent all its messages (`CommittedOperationsHaveSent`); the order in which messages are accepted, handled, lost, skipped and dismissed (`ImplementsMessageDelivery`) |

Bounds: two orders and two items suffice for a double sale, two users for a
reservation that changes hands, one job between its statements and one request
for each race with it; a third actor of a kind adds no step that two do not
have, and the theorems cover the rest. Two orders share an index and two rows of one
order are enough for a wrong row; the third order of `items` lets an ended, a
current and a paid order coexist. Three ticks let a late attempt, the tick it
belongs to, the one it executes and the one it names coexist; two failures are
a first attempt that makes a late one possible and one more. Orders and rows are never reused in the
model, as their keys are not in the database.

In `transactions` one connection is the worst pool; a function with two operations
and an executable has everything that the flags tell apart (an operation before,
in and after an executable, a local and a global transaction), and the second
request shows what it finds on the connection it gets. In `sql` and `mongo` two
operations are enough for one to come between the read and the write of another,
two entities for a deadlock and for a row of another entity, and a maximum of 3
for an addition that just exceeds it. In `service_calls` a second request
reads what the first has changed or cached. In `mongo` the lists of filters have each
way for a condition to get lost: by its field, by an OR, by a `$where`, and by a
misconversion within an OR. In `message_queues` the second
consumer takes over from the first; the message of the second operation can be in
front of, between and behind those of the first, and expire with or without
them; one copy is enough for a message that is executed, fails, and is found
behind the next one.

`CHECK_DEADLOCK FALSE` is set where the bounded rows, ticks, requests or messages
run out.

### Disagreements between the code and what it says

| Run | What happens |
|---|---|
| `checkout_leak` | an order that expires between the two statements of `deleteUnpaidOrders` is deleted and its items stay sold. This is so where the time is that of the statement, as on the configured MySQL; PostgreSQL's `current_timestamp` is constant within a transaction |

### Behaviours seen while modelling

The models contain these; the properties above are stated so that they hold in
spite of them. Each can be seen at the line.

* Orders. `SalesItemServiceImpl.ts:372` compares the buyer with itself: an item
  whose reservation has passed to another user since the cart was read is sold to the
  first. With more rows than a batch (500), `transformRowsToObjects.ts:60` maps them
  after the result was returned: `deleteUnpaidOrders` releases nothing and deletes
  the orders. `discardUnpaidOrder` has no condition on the payment, so a late
  failure call of the gateway deletes a paid order (the order book allows it).
  An update of an order item writes the item with the same index of other
  orders (`updateEntity.ts:323`), and delivering one may delete its own row
  (`updateEntity.ts:164`). A return never completes once the seller has deleted
  the item.
* Jobs. After a tick that nobody executed the row names a tick in the past and the
  job stops in all replicas until one is restarted. A retry that comes at the time of
  a later tick executes the job and sets the row by its own interval: the row may go
  back, and a tick may be executed twice. Every attempt keeps its connection (next item). A one-off job is never executed
  though its row is deleted: the result of the deletion is a pair and taken for an
  error (`scheduleCronJob.ts:40`).
* Connections. `scheduleCronJobsForExecution.ts:88` and the end of
  `executeMultipleServiceFunctions.ts` release a connection under the flag that
  makes the release do nothing. A multiple call without a transaction sets the flag
  that there is one (line 177), so its calls have none; one with a transaction
  commits whatever its calls answered (line 174). Nested executables begin
  and commit on the same connection. The executables of `updateEntities` and
  `deleteEntitiesByIds` return no pair, and `executeInsideTransaction` throws before
  it ends the transaction. Statements queued beside one that fails run after the
  ROLLBACK and commit by themselves.
* Calls. With an operation and a remote call, several remote calls, or an operation
  after a remote call, a function that is not annotated gets an error after it has
  committed (`tryExecuteServiceMethod.ts:362-400`). The `finally` block asks any error
  for its status, which only an `HttpException` has: a TypeError takes the place of the
  audit entry. Such a TypeError comes after the commit when the client knows the
  version of the response: it is replaced by null (line 507) and asked for its version
  (lines 512 and 514). With the versions of entities, which are numbers, the comparison
  with the header is never true, so nothing is ever answered with 304. A header generator
  (line 555) may throw at the same place. Two requests that miss at once, or a failing
  EXPIRE, leave a cached response without expiry. Who gives his `userId` instead of his
  name is never recognised as himself, because `getUserNameById` is called with a
  string (`tryAuthorize.ts:74`). The sample cache configuration names a service that
  does not exist.
* SQL. Sub-entities that an update adds are inserted without the id of their parent
  (`updateEntity.ts:188`); a sub-entity is selected by `id` or by `_id`, whichever
  is equal (`AbstractSqlDbManager.ts:865`); values added at once share an id;
  the ids of many-to-many entities are all undefined and so compare as equal
  (`getSubEntitiesByAction.ts:6`).
* MongoDB. No statement has the session of its transaction. Additions to a nested
  list add what was there again. Of two conditions on a field the last one wins, and of
  two on functions of any fields. `IN` on a function matches nothing
  (`convertUserDefinedFiltersToMatchExpression.ts:130`), DAY is the day of the week (64),
  MONTH counts from 0 (73).
* Messages. `multi()` opens a pipeline that is not used, so `exec()` fails after all
  was pushed. A Kafka transaction fails always, for want of a `transactionalId`
  (`sendOneOrMoreToKafka.ts:41`). Without the acknowledgement of all replicas an
  operation commits though its message may be lost. Headers of Kafka are buffers: an
  empty `responseUrl` is true, its parsing throws, and a message that succeeded is
  delivered again. One that is refused blocks the partition, and within five minutes
  what is behind it expires. A message whose re-send failed counts as done
  (`consumeFromKafka.ts:182`). The consumers are commented out in the application's
  `main.ts`.
* Start-up. The query that asks whether another replica has initialised the
  database lacks `FROM` (`initializeDatabase.ts:35`), and the row that says so is
  removed for all but SQL databases (`removeDbInitialization.ts:12`).

## 4. Fairness

`ScheduledCheckout!Fairness`: time passes (weak fairness of the two time steps); a job
is started while it is scheduled (weak fairness of `JobStarts`), and its executions do
not fail for ever while it stays scheduled (strong fairness of the commit, which
failures disable repeatedly). The last is no promise of success: every failure may also
stop the job, and a tick at which no attempt succeeds is one that stops it. A job may
stop at any time, by a missed tick or because its attempts have used up the connections,
and nothing makes anybody restart a replica; so the two properties say what holds
until the job stops, and no more. Nothing is assumed of users, sellers or the gateway.
`ReservationsEnd` is also conditional on the item not being touched for ever,
because likes and followers renew `lastModifiedTimestamp`.

`CronScheduling!FairSpec`: time passes, timers go off, transactions end. No
failure, crash or restart is ever forced. `Punctual` says that first attempts are
made within half a second of the tick and that executions are over before the
next one; without it no code could promise an execution.

`Transactions!Fairness`: a service function goes on (weak fairness of the steps of
a request), and a pool that has a connection again and again gives it to whoever
has been waiting (strong fairness of `Reserve`: the pool of `pg` is a queue).

`SqlEntities!Spec`: the database executes the statements of every transaction
(weak fairness per request). Nothing makes an application send one, and its
deadlock detection is a step like any other.

`MongoEntities`, `ServiceCalls`, `MessageQueues` and `OrderItems` have no
fairness: their properties are about safety. That messages are executed in the end
is no promise of the code: one that is refused blocks those behind it.

## 5. Proofs

All theorems are about the specifications above for every value of the
constants, under the modules' named assumptions. These only say what the constants
are:

* sentinels are not values: `NoUserAssumption`, `HolderAssumption`,
  `ConnectionAssumption`, `NoVersionAssumption`, `NobodyAssumption` (nobody is not a
  consumer, nor a message);
* bounds are numbers, and some operations are among the operations:
  `BatchAssumption`, `BoundsAssumption`, `TimingAssumption`, `MaxStepsAssumption`,
  `MaxCopiesAssumption`, `SimpleCallsAssumption`, `PlainCallsAssumption`,
  `FreeOperationsAssumption`, `ServicesAssumption` (a service function has the flags
  that its annotations give it);
* filters are lists of conditions, and functions have results: `FiltersAssumption`,
  `FunctionsAssumption`;
* there are names for all entities, as names are unique: `NamesAssumption`;
* `SizesAssumption`: the maximum of a relation is at least two, as the entities that
  exist at first, and those that are created, have up to two sub-entities. (What is
  created is validated against the maximum before the operation.)

Every proof module has an inductive invariant `Inv` with the theorem
`Invariance == Spec => []Inv`, one lemma per action, and the theorems that follow
from it. The type invariant of each module is among them (`TypeCorrectness`).

`CheckoutProofs`. `Inv` = `TypeOK`, `TablesConsistent`, `NoDoubleSale`,
`OrderItemsStaySold`, `CleaningWorksOnUnpaidOrders`. `NoDoubleSale` alone is not
inductive: `placeOrder` checks only that its items are reserved, so one needs that
items of current orders are sold or deleted; and that survives
`deleteUnpaidOrders` only because what it has read is locked, unpaid and the
owner of what it releases. Theorems: `TypeCorrectness`, `NoItemSoldTwice`,
`OrdersKeepTheirItems`, `CleaningIsSafe`; and about steps `Refinement` (the order
book), `ReservationsAreKept`, `SalesAreKept`. In the refinement `PlaceOrderCommit` is a
`Place`, `PayOrder` a `Settle`, discarding and refunding a `Cancel`,
`DeleteUnpaidOrdersCommit` a `ClearOut` or a stutter, all else a stutter.
`ExpiredOrdersReleaseTheirItems` is `ReadOrdersAreReleased` under a hypothesis about
the behaviour, `[]RowsFitBatch`: beyond 500 joined rows (`RowBatchSize`) the driver
gives the items to callbacks after the code has gone on without them, and the property
is false (the configuration of the run keeps to the hypothesis as well). Its
invariant, `ItemsAreReleasing`, says of each order that was read that its items are
among those that are put back, or deleted.

`OrderItemsProofs`. `Inv` = `TypeOK`, `RowsBelongToCurrentOrders`,
`PaidOrdersWerePaid`, `RefundsOnlyForPaidOrders`. Rows are unambiguous because
an order inserts its rows at once, with distinct indices; deletions by a wrong
key only remove rows. Theorems: `TypeCorrectness`, `RowsAreUnambiguous`,
`NoRefundWithoutPayment`, `RefundsRelease`.

`CronSchedulingProofs`. Who executes holds the row, which names a tick that is not
before its own (`ExecutorHoldsRow`); if it is its own, this is its first attempt
(`TimedAttemptIsFirst`: retries miss their own tick), so it commits the next one. A tick
that no late attempt has executed was executed once at most, and then the row is
behind it or its time is over (`ExecutedTicksArePast`): if a late attempt moves the row
back to such a tick, no attempt comes at its time any more. Theorems `ExecutedAtMostOnce` and
`RowGoesBackOnlyByLateAttempts`, without any assumption about when attempts come. The
types have an invariant of their own (`TypeInv`), in which the failures of a
callback leave it the attempts it has not made (`TypeCorrectness`).

`TransactionsProofs`. The properties of a single call depend on five values only:
the progress of its function, its flags, the session of its connection, the writes it
has executed and those that are committed. `SinglesOK` relates the five; the
first lemmas show that it survives every step of the call as statements about the
values, and later ones that a step of another request changes none of the five. For
that, connections must be exclusive, and `SessionsOK` says that what waits for a
COMMIT on a connection was written by the request that has it; `RequestsOK` says
how far a request is and what it has by then. Within a call, `FlagsOK` ties the flags
to the progress of the function, `SessionOK` the session to both, `WaitingOK` and
`AnswerOK` the writes to all three. Of multiple calls only what they do to
connections matters here, and the properties say no more. Theorems:
`TypeCorrectness`, `ConnectionsStayExclusive`, `IdleConnectionsAreClean`,
`TransactionsAreAtomic`, `FailedCallsLeaveNothing`, `SuccessfulCallsAreDurable`.

`SqlEntitiesProofs`. That an addition keeps the maximum is not seen from the number it
has computed: its snapshot (`seen`) misses the rows that were committed while it
waited for the lock. What bounds the sub-entities is that every row which is in the
table, was seen by somebody or is about to be added has a place below the maximum
(`PlacesOK`), and that places are taken once, whichever open transaction commits next
(`UniqueOK`): a row can be added only if its place is free and no open transaction
takes or frees it. That rows found again by `_id` belong to the entity needs that
serial numbers are given once (`KeysOK`, over all rows that anybody knows). The
operation's entity keeps the version that was read since it is locked
(`HoldsItsEntity`), which each commit preserves for all other operations
(`CommitStep`). `ChangeOfChildrenOK` has a lemma for each thing an operation may do
to the relation, and `CallsFit` shows that the operations asked for are among them.
Theorems: `TypeCorrectness`, `SubEntitiesKeepTheirMaximum`, `UpdatesBuildOnReads`,
`OthersAreSpared`.

`MongoEntitiesProofs`. No statement is part of a transaction, so nothing an operation
has read need still be true when it writes. What remains true is that the version it
holds is not ahead of the statements that wrote the entity (`DocFits`), whose number
only grows: a step of one request preserves this for all others (`InvIsKept`). For
that, what is held must be of the entity that is written, which for `updateEntity` rests
on its being called by id only (`AllCallsAreOK`, over every call, and `PlanFacts`, over
the table of methods). `RequestFits` also says at which points an operation has not yet
written, and that behind those an error is one that `MayFailLate` names. Lists of
sub-entities, values and filters have any length, so what the code's loops do to them
is a recursive function over indices (`SetSubs`, `Without`, `MatchExpression`) and is
proved by induction. The module derives the induction it uses from the library's
theorem that `<` is well-founded on the naturals, stated about sets and functions, which
every prover can instantiate: a set that holds 0 and is closed under successors holds
all numbers up to a bound (`AllOf`), a sequence of values stays in a set that each step
stays in (`StaysIn`), and a recursive definition has a function that satisfies it
(`Recursion`). With these, `SetSubsKeeps` shows that setting fields at indices neither
removes, moves nor renames an element that is there; `WithoutType`, that a removal
leaves a list; `MatchExpressionMatches`, that an entity which satisfies all filters
satisfies those that are left of them, when none is misconverted; what the functions
give and how they are evaluated does not matter. `RequestFits` also says that what an
operation is about to rewrite can be set (`~CannotSet`). `SubEntitiesStay` then needs
one lemma per statement, about the lists before and after it. Theorems:
`TypeCorrectness`, `VersionsComeFromWrites`, `FailedOperationsLeaveNothing`,
`DeletedEntitiesStayAway`, `FiltersMissNone`, `SubEntitiesStay`.

`ServiceCallsProofs`. `ErrorsOK` is the reason why an audit entry agrees with the
answer: an error that comes after a commit is an `HttpException`, unless it is one of
the headers (`HeadersFail`), so the `finally` block does not fail on it. `AuditOK` says by stages what is in the log. `CacheOK`: an
entry without expiry was stored by a request that has `withoutExpiry` and is about to
set one, while no other is between looking up and storing. `CountersOK` bounds
what a function does. Theorems: `TypeCorrectness`, `CommitsAreAudited`,
`EntriesExpire`.

`MessageQueuesProofs`. `SendingOK` relates the progress of an operation to what is in
the broker, part by part; `HoldingOK` says that queues and consumers hold what has been
sent; `KafkaOK` that everything before the position, and before the offset, is
settled, lost or skipped (`Fates`), that the owner is not behind what is committed, and
that it works on the message at its position; `RedisOK` that a message is in
the list once or with one consumer, and is not settled before. A consumer that has lost
its partition goes on, so the position binds the owner only. Theorems:
`TypeCorrectness`, `CommittedHaveSent`, `DeliveriesAreSettled`, and `Refinement`
(of `MessageDelivery`): `SendToKafka` and `PushToRedis` are an `Accept` when the
messages arrive, `Succeed` a `Handle`, `SendAgain` a `Handle` or a `Lose`,
`TakePartition` and `ResetPosition` a `Skip` when they begin at the end,
`ExpireMessages` an `Expire`, `CommitOffset` and `PopFromRedis` a `Dismiss`, all else a
stutter. A commit does not bring the offset back because the owner is not behind it,
which is why `KafkaOK` says so; and messages are skipped only while there is no offset,
and so nothing that is dismissed, or when the message that is next has expired.

`TablesConsistent`, `RowsBelongToCurrentOrders` and `ScheduleNeverGoesBack` are
proved and in no run: they support the others. So does
`DeliveriesAreNotLostOrRepeated`, which says of states what the refinement of
`MessageDelivery` says of behaviours.

Model-checked only: the liveness properties (`UnpaidOrdersEnd`, `ReservationsEnd`,
`UndisturbedTicksExecuted`, `RequestsGetConnections`, `RequestsAreAnswered`), as the prover has no rule
for fairness and `ENABLED`. Every invariant and every action property of a run has a
theorem.

## 6. Not modelled

* Start-up (`backk/initialization`, `.../ddl`): one insertion guarded by a primary
  key, then DDL that is another one in every version. As two of its statements always
  fail (above) there is no hand-over between replicas to model. What a start does to
  the rows of jobs is part of `CronScheduling`; the indexes and foreign keys it
  creates are part of `SqlEntities`.
* One-off jobs: no service of the shop schedules one; a job is an insertion and a
  deletion, and its function is never called.
* User accounts, tags, users: single operations of `SqlEntities`; `followUser` is two
  many-to-many additions in one transaction, whose locks `sql_live` is about.
* Likes, the quota of a seller, listings: likes enter `Checkout` as what they do to
  a reservation; the like count and the quota are computed by unlocked reads and
  guard nothing else. A user's second cart, made by a race of two requests, is not
  modelled either.
* MySQL's locking: the outer `FOR UPDATE` of a query over a derived table with a
  `LIMIT` (`MySqlDbManager.ts:132`) does not lock the inner table's rows. `Checkout`,
  `OrderItems`, `CronScheduling` and `SqlEntities` are about a manager where it does,
  which `MySqlDbManager`, the one that `main.ts:16` and `app/app.module.ts:34` configure,
  is not; `Transactions` covers both managers.
* Pages: `deleteUnpaidOrders` reads a page of 1000 orders and deletes all; the
  maximum of 50 items in a cart is above the bounds of `Checkout` and
  modelled in `SqlEntities`.
* Validation, encryption, response assembly, GraphQL parsing: stateless conversions
  of one call's data. Generators of metadata, documentation, types and test
  collections; logging, metrics and tracing: output only.
