# Verification of kitchen-api

TLA+ models of the order platform kitchen-api (Go) and of the kitchen service
that ships with it (`restaurant-example/`), their TLC runs, and TLAPS proofs.
The models are translated from the Go code and the SQL it runs. Line numbers of
every definition are in `PROJECT.json` under `map`.

## 1. Inventory

| Component | State it keeps | Operations | Modules |
|---|---|---|---|
| Order status machine (`internal/domain/state_machine.go`, `models.go`) | none | `Validate`, `CanTransition` | OrderFSM |
| Order store (`internal/domain/domain.go`, `internal/repository/repository.go`, PostgreSQL) | tables `orders`, `order_events`, `outbox_events`; identities; row locks; pool connections | create, cancel, partner patch, status event | OrderLifecycle, OrderStore |
| Outbox relay (`outboxWorkers` in `cmd/api/main.go`, `GetOutboxEvents`, `MarkOutboxEventProcessed`, `internal/kafka/producer.go`) | flag `processed`; the batch and the jobs channel; per-worker event and attempt | fetch, publish, retry, mark, shut down, restart | NoticeQueue, OutboxRelay |
| Kitchen (`restaurant-example/main.go`) | sync.Maps `activeOrders` and `cancelledOrders`; pipelines; contexts; wait group | start up, poll orders, poll cancellations, cook, shut down | ProcessLife (start-up), Kitchen, KitchenSystem |
| Status consumer (`ordersWorkers`, `internal/kafka/consumer.go`) | position and committed offset; message in hand | read (and commit), `UpdateOrderStatus`, stop, restart | StatusConsumer, KitchenSystem |
| Menu (`UpsertMenu`, the FOR SHARE check of `CreateOrder`) | table `menu_items`, row locks | sync, price, lock, recheck | Menu |
| Order pricing (`CreateOrder`) | none | merge lines, multiply, add, store | OrderPricing |
| API process (`main` of `cmd/api/main.go`) | place in `main`; HTTP server, gRPC server, workers; pool and Kafka clients; calls under way | start, serve, graceful shutdown, crash | ProcessLife; for its workers OutboxRelay and StatusConsumer |
| HTTP and gRPC front ends, API-key authentication | calls under way | accept, refuse, answer | ProcessLife, OrderStore and Menu for what the calls do |
| Read-only queries, mappers, generated code | none | | not modelled (section 8) |

How they interact:

    customer, partner --HTTP--> order store --outbox_events--> relay --orders.created,
          ^                        ^                                   orders.cancelled--> kitchen
          |                        |                                                          |
          +---- answers            +-------- status consumer <----- orders.status.updates ----+

The order store writes the row that announces a creation or a cancellation in
the transaction that makes the change. The relay reads those rows every 5
seconds and publishes them; the kitchen reads the topics with committed
offsets, cooks, and publishes a status per stage; the status consumer passes
each to the same `UpdateOrderStatus` that the HTTP handlers use.

What is hard, and the properties that make each part correct:

- **Order store.** Decisions are made twice: by the domain on an unlocked read,
  by the repository under `SELECT ... FOR UPDATE`. Several callers race on one
  order; any statement can fail; a commit can succeed and its reply get lost; a
  transaction waits for a row lock while it occupies a connection. Correct
  means: the trail in `order_events` is a legal path to the current status, the
  outbox owes the kitchen exactly the notices the status calls for, answers stay
  true, only the authorised change an order, and every call is answered.
- **Relay.** Publishing and marking are not atomic, the row locks of the fetch
  end with the statement, a failed publish is skipped. Correct means: nothing is lost, duplicates are bounded, everything
  Kafka accepts arrives.
- **Kitchen.** Two goroutines check one map and store into another; the
  deferred cleanup of a pipeline deletes by order id; contexts are cancelled by
  two parties; messages are duplicated. Correct means: the map is exactly the
  set of running pipelines, a cancelled pipeline goes quiet, shutdown ends.
- **Status consumer.** The offset is committed before the update is made;
  statuses are repeated and overtaken by cancels and patches. Correct means: an
  order none of whose statuses was lost is not behind its kitchen, and no status
  blocks the next.
- **Menu.** An order is priced by a menu read outside its transaction; row locks
  are taken in no fixed order. Correct means: an order is committed only at the
  prices of that instant, a sync is all or nothing, and everybody gets an answer.
- **Process life.** Two servers and two workers are started at once and stopped
  one after the other, HTTP with a deadline and gRPC without; calls are under way
  at every moment; the kitchen waits for both servers and then syncs its menu with
  a deadline of its own. Correct means: nothing is closed under a user, a
  shutdown answers what it accepted, and nobody takes orders without a menu.
- **End to end.** An order crosses three queues and two processes, each of which
  can lose it. Correct means: it comes to an end, or a fault that can be named met it.
- **Pricing.** 64-bit arithmetic without bounds. Correct means: the order
  records what was asked for and costs what it costs, and no order is refused
  without a reason.

The hazards found, line by line and with the properties that would catch them,
are in `PROJECT.json` under `hazards`.

## 2. Plan

Done, in this order: OrderFSM, OrderLifecycle (abstract), OrderStore with its
refinement and proofs, OutboxRelay with proofs, Kitchen with proofs,
StatusConsumer with proofs, Menu with proofs, OrderPricing, ProcessLife with
proofs, KitchenSystem, which composes Kitchen and StatusConsumer, with the
proofs that it implements both, the proofs of OrderPricing, and NoticeQueue
(abstract), which OutboxRelay implements.

Next: a composition of OrderStore with NoticeQueue, so that what KitchenSystem
takes from the relay (`Notify`) is proved of the store in front of it.

## 3. Modules

| Module | What it is | Extends |
|---|---|---|
| OrderFSM | statuses and transitions | |
| OrderLifecycle | the promise: status, trail and notices of an order change in one atomic, legal step | OrderFSM |
| OrderStore | the calls, statement by statement; implements OrderLifecycle | OrderFSM |
| MCOrderStore | instances for TLC | OrderStore |
| OrderStoreProofs | theorems | OrderStore |
| NoticeQueue | the promise of the relay: what was committed is written at least once | |
| OutboxRelay / MCOutboxRelay / OutboxRelayProofs | the relay, its instances, its theorems; implements NoticeQueue | |
| Kitchen / MCKitchen / KitchenProofs | the kitchen, its instances, its theorems | |
| StatusConsumer / MCStatusConsumer / StatusConsumerProofs | the status consumer, its instances, its theorems | OrderFSM |
| Menu / MCMenu / MenuProofs | menu syncs against orders, instances, theorems | |
| OrderPricing / MCOrderPricing / OrderPricingProofs | the arithmetic of an order, its instances, its theorems | |
| ProcessLife / MCProcessLife / ProcessLifeProofs | the processes and the calls under way, instances, theorems | |
| KitchenSystem / MCKitchenSystem | kitchen and status consumer over one topic, instances | Kitchen; instantiates StatusConsumer |
| KitchenSystemProofs | theorems of the composition | KitchenSystem, KitchenProofs; instantiates StatusConsumerProofs |

Operators whose name has a suffix (`LockFree_PlainSelect`, ...) are slips: what
the definition would be after a plausible mistake in the code. No specification
uses them; they serve to show that each property notices a mistake.

### OrderStore

One *session* is one call in progress. `pc[s]` is the statement it is about to
run, `tx[s]` the set of tables its open transaction has written, `old[s]` the
variable `oldStatus`, `reply[s]` the last answer. Uncommitted writes are only in
`tx[s]`: `Commit` applies them to `orders`, `events` (order_events) and `outbox`
(outbox_events), which is READ COMMITTED for the statements this code runs.

| Action | Code |
|---|---|
| `Submit` | a handler or `ordersWorkers` starts a call |
| `ReadMenu` | the checks of `OrderService.CreateOrder`; their outcome is left open |
| `ReadOrder` | `GetOrderByID` and the early returns of `CancelOrder` and `PartnerService.UpdateOrderStatus` |
| `Begin`, `LockOrder`, `UpdateRow`, `InsertEvent`, `InsertOutbox`, `Commit` | the statements of `Repo.UpdateOrderStatus`, with its early returns |
| `InsertOrder` | menu recheck, INSERT of order and items in `Repo.CreateOrder` (then audit, outbox, commit as above) |
| `Fail` | any statement fails; the deferred rollback |
| `Crash` | the process dies, PostgreSQL rolls back |

A lost reply to COMMIT is the second outcome of `Commit`. The row lock is a
fact about program counters (`HoldsLock`), so it cannot be forgotten when a
transaction ends. Pool connections are counted the same way (`FreeConn`).

### OutboxRelay

Events are numbered by `created_at`. A replica's life is the ticker (`tick`),
the running fetch statement (`rows`, the only time its row locks exist) and the
batch (`work`); its workers take the oldest job, publish with up to `MaxAttempts`
attempts, and mark. `AckLost` writes the message and lets the attempt fail;
`MarkFails`, `Shutdown` and `Crash` are the other faults that can repeat a message,
and `faults` counts them; `FetchFails` waits for the next tick. A shutdown drops what the channel still holds. `Enqueue` is the order
store: rows of different orders appear in any order, since `created_at` is the
start of a transaction. An order has two rows, and the transaction of its
cancellation begins after `CancelOrder` or the partner's handler has read the
committed order, so its rows appear in the order of their numbers. To those who read the topics
all this is NoticeQueue: `Enqueue` is `Owe`, a message written is `Write`, `Mark`
is `Settle`, and everything else is invisible.

### Kitchen

`poller` and `canceller` are the two polling goroutines with one action per map
operation. A pipeline is a *run* `<<order, n>>`; `active[o] = n` says that
`activeOrders` holds the CancelFunc of run n. `CtxDone(p)` is `orderCtx.Err() !=
nil`: its own CancelFunc was called, or `cancelPoll` was. `Publish` under an
ended context returns an error, but the writer may have taken the message
(`SendLate`); the select of `sleepContext` may prefer the timer to a context that
ends in the meantime (`Wake`), while `sleepContext` entered with an ended context
returns at once (`EnterSleep`; this takes a positive STEP_DELAY). `ReadMessage` commits
before it returns, so a read message is not seen again; `DropOrder` and
`DropCancellation` are the reads whose result the loop discards. `announced` and
`revoked` count the copies written of either message: the relay delivers at least
once. Two history variables belong to the process in memory and end with it:
`handled` remembers each cancellation dealt with, with the run whose CancelFunc was
called or 0 if the order was stored; `crossed` the runs whose start crossed the
storing of a cancellation, both pollers having made their lookups before either
stored (`Crossing`).

### StatusConsumer

`topic[o]` is what the kitchen published about order o, `position` what the
reader has taken, `committed` the offset of the group. `ReadMessage` moves both,
since `Reader.ReadMessage` of a group commits before it returns; `ReadFails` is
the read whose result the loop discards (failed commit, bad payload, a context
that ends meanwhile). `Update` is `Repo.UpdateOrderStatus`, one step because
OrderStore implements OrderLifecycle; `UpdateFails` is its error return. `Change`
stands for cancels and patches. A kitchen publishes a stage only after the one
before it (`Due`), since `processOrder` gives up when a stage cannot be published.

### Menu

A call is one request. `want[c]` lists its rows in the order it locks them: the
order of the items in a sync, whatever order the scan takes in a `SELECT ... FOR
SHARE`. `got[c]` counts the rows locked, which are `Held(c)` until `End`. The
entries of a sync become visible at `CommitSync`. `entry[c]` of an order is the
menu it was priced by; `stale[c]` remembers that a locked row differs from it.
`BreakDeadlock` is PostgreSQL ending a member of a cycle. A row is a price or on the stop
list; its name does not matter. The lock that the foreign key of order_items
takes conflicts with no sync and is left out.

### OrderPricing

`MergeLine` and `PriceItem` are one round each of the two loops of `CreateOrder`,
`Insert` what the columns accept. `Wrap` is two's complement at width 2 * `Half`.
`Asked` and `Due` are the reference: the sums over the lines of the request as it
came, in integers without a width.

### ProcessLife

`main` is the place in `main()` of kitchen-api. The actions follow its
statements: `Start` (GetDB and the Kafka clients), `Launch` (Listen and the four
goroutines), `Signal`, `Shutdown`, `Drained` or `GiveUpDraining` (the two returns
of `server.Shutdown`), `Join` (`workersWg.Wait`), `Stopped` (`GracefulStop`
returns), `Exit` (the deferred closes; `pgxpool.Pool.Close` waits for connections
in use). `ServeHTTP` and `ServeGRPC` are the goroutines of the servers, which may
come to it later than anything in `main`. `Die` is a crash and every `log.Fatalf`
after the start, none of which runs a deferred close.

A call is `accepted`, `working` (it holds a connection), `worked` (committed) and
`answered` or `refused`; the end of the process makes it `cut` (`main` returned) or
`crashed`. There are HTTP requests, health Watch streams and the SyncMenu calls of the
kitchen, one for each start of it. `kitchen` is the place in the kitchen's
`main()`: the waits for both servers, the sync, and polling; every failure is `log.Fatalf`.

### KitchenSystem

Every step is one of Kitchen or of StatusConsumer, and `PublishStatus` is one of
both: the status of the pipeline (`pipe[p].k`) is appended to the topic of its
order exactly when Kitchen says it was written. `RepeatStatus` is the writer that
sends a status again whose acknowledgement was lost. `Notify` is the relay:
`Announce` any time and as often as Kitchen allows, `Revoke` only for an order the API
has cancelled. `ChangeOrder` is a cancel or a patch. `missed` remembers orders
whose message the kitchen took and did not use.

## 4. Runs

| Run | Instance | Shows |
|---|---|---|
| orders_any | 2 sessions, each any call; 1 order, 2 customers, 2 restaurants, 1 status that does not exist | all order properties |
| orders_live | 3 sessions (creating and patching, cancelling, status events) on 1 order, 2 connections | `EveryCallAnswered`, with a third actor and a full pool |
| relay_one | 1 replica, 1 worker, as `main` starts it; 3 events of 2 orders, one of them poison | `ProcessedWasPublished`, `DuplicatesBounded`, `InversionNeedsFailure`, `EventuallyProcessed` |
| relay_two | 2 replicas, 3 workers | `DuplicatesBounded`, `ImplementsQueue` |
| kitchen_one | 1 order, 2 copies of its message and of its cancellation, 1 shutdown or crash | `ActiveIsCooking`, `LateStatusAtMostOne`, `CancelStopsUnlessCrossed`, `StopsCleanly`, `EntryReleased` |
| consumer_one | 1 order, 5 statuses, 1 worker, as `main` starts it | `CaughtUpUnlessLost`, `EveryStatusTaken`, `WorkersStop` |
| menu_any | 2 syncs, 1 order, 2 items, 2 prices | `NoMixedMenu`, `OrderedAsOffered`, `EveryRequestEnds` |
| pricing_any | 3 lines of 2 items, 5-bit integers | `ExactUnlessWrappedRound`, `RefusedForCause` |
| process_any | 2 starts of the API, 2 of the kitchen, 1 request, 1 watcher | `ClosedHasNoUser`, `CutOnlyOverdue`, `PollingMeansSynced`, `StopsUnlessWatched` |
| system_one | 1 order, 1 copy, 1 worker, 1 shutdown or crash of the kitchen, 5 statuses, 1 repeated | `QuietMeansEnded`, `ImplementsConsumer`, `EveryOrderEnds` |
| relay_order, kitchen_cancel | | the divergences of section 5 |

### Bounds

- *Orders.* `OrderId` bounds how many orders are created; nothing in the code
  relates two orders except the connection pool, which three sessions on one order
  exhaust as well. The same goes for the kitchen, whose maps are keyed by order.
- *Sessions.* Two sessions that submit calls of any kind again and again cover
  all pairwise races and retries; three add a waiter behind a waiter. The proofs
  hold for any number.
- *Requested.* The statuses asked for are a subset that reaches each kind of
  verdict (legal, illegal, already so, unknown); the machine has no cycles, so a
  trail has at most five entries without a bound.
- *Relay.* Three or four events, a batch limit and attempts of two: enough for a
  full batch, a last attempt, and a second tick that overlaps another replica's.
  `MaxFaults` bounds the faults, and the bound on duplicates is stated in terms
  of `faults`, so a larger bound says nothing new.
- *Kitchen.* `MaxCopies = 2` is the smallest number with a duplicate. `MaxDowns`
  bounds shutdowns and crashes.
- *StatusConsumer.* Five messages hold the four stages and a repetition; stops,
  crashes and restarts are unbounded. Orders meet only in the worker.
- *Menu.* Two items are enough for opposite locking orders and for a mixed menu;
  two syncs and an order for every kind of conflict. Each call is made once, the
  first sync on the empty menu of a new restaurant.
- *ProcessLife.* Two starts of each process: a crash or shutdown of one at every
  place of the other, and a second life after it. One request, one watcher and
  one sync per start of the kitchen stand for many, since calls do not relate to each other.
- *KitchenSystem.* One order with one copy of its message: duplicates are
  `kitchen_one`'s, and orders meet only in the worker and the pollers, which
  hold one at a time. The API's process stops and restarts without a bound. Five
  messages hold the four statuses and the repeated one.
- *OrderPricing.* Quantities are one refused, ordinary ones, the largest the
  column takes and the largest there is; three lines merge and wrap.

Deadlock checking is off where the system may come to rest: the kitchen and the
relay when everything is read and no fault is left, the two processes when nobody
starts them again, menu and pricing when every call is made. Symmetry (of sessions, users and
restaurants) is only used in a run of safety properties.

### Fairness

- *OrderStore.* Weak fairness of each session's statements: nothing in a call
  waits except for the pool and the row lock. Strong fairness for `Begin`, the
  unlocked reads and `LockOrder`: pgxpool and PostgreSQL serve their waiters in
  order of arrival, so no caller is overtaken for ever.
- *OutboxRelay.* The ticker and goroutines run (weak). Strong fairness of a
  successful fetch, publish and mark: a broker or database that is asked again and again
  answers at last. Weak fairness of `Restart` is an assumption on the operator:
  `docker-compose.yml` has no restart policy.
- *Kitchen.* Weak fairness of pollers and pipelines (Publish has timeouts and a
  bounded number of attempts, timers fire) and of `Exit`. None of `Timeout`, so
  `StopsCleanly` means that the 30 seconds of `cookCtx` are not needed. None of
  the reads: messages need not arrive.
- *StatusConsumer.* Weak fairness of the worker's steps and of `Exit`; strong
  fairness of reading each order, because the broker serves all partitions to a
  worker that asks again and again. None of `Restart`: `EveryStatusTaken` speaks
  of a process that is up.
- *ProcessLife.* Weak fairness of `main`'s steps, of each worker noticing that its
  context is cancelled, of each call's handler and of the kitchen's start-up: all of
  them return by themselves or at a deadline. None of `Leave` (a watcher stays as
  long as it likes), of `Signal`, `Accept`, `Start`, `KitchenStart` or `Die`.
- *KitchenSystem.* Weak fairness of `Work` as a whole: some goroutine of either
  process that can run does. None of its steps can go on for ever, so this weak
  assumption is enough. None of `Notify`, `ChangeOrder`, faults and restarts.
- *Menu.* Weak fairness of each call's next statement and of PostgreSQL's
  deadlock detection. None of `Fail`.

## 5. Divergences found

1. **relay_order** (`cmd/api/main.go:71`): README.md:215 promises the strict
   sequence of an order's events in the topics. A publish that fails is skipped;
   the next event of the order, its cancellation for instance, is published
   before it. `InversionNeedsFailure` shows that in the shipped configuration
   nothing else breaks the sequence.
2. **kitchen_cancel** (`restaurant-example/main.go:304`): docs/cjm-restaurant.md:57
   says that reading a cancellation stops the cooking. The order poller looks into
   `cancelledOrders` before it stores into `activeOrders`; the cancellation poller
   does the converse. When both lookups precede both stores the cancellation
   reaches nobody and the order is cooked to the end. `CancelStopsUnlessCrossed`
   shows that among the cancellations the process has dealt with there is one other
   kind that leaves a pipeline cooking: one that finds a pipeline is not kept, so that
   a later copy of `orders.created` starts the order again. What an earlier
   process dealt with is forgotten with its maps and outside this property.

Met on the way and needing no run:

- the comment at `restaurant-example/main.go:313` says a background context
  prevents cooking from being stopped. `orderCtx` is derived from the pollers'
  context (309), and `cancelPoll` ends every pipeline; `CtxDone` of Kitchen says so,
  and `Broken` of KitchenSystem counts it among the faults.
- README.md:219 promises exact calculations. Neither price nor quantity has an
  upper bound, the int64 total wraps (`internal/domain/domain.go:106`), and a total
  that is not negative is stored. `ExactUnlessWrappedRound` shows that this takes a
  total or a quantity of 2^64 or more: what overflows into the negative is refused
  by the CHECKs of the columns, and the rest is exact. (It takes a price above 2^32 cents, or very many items, or
  lines of one item whose quantities wrap when merged.)
- the comment at `internal/web/client_handlers.go:57` sends a status that fails
  validation to a dead-letter topic `status_updates.dlq`; `ordersWorkers` logs it,
  and nothing writes such a topic.

## 6. Properties

Order store: `AuditTrail`, `OutboxMatchesStatus`, `AcknowledgedChangeIsRecorded`,
`RefusalStaysTrue`, `AuthorisedOnly` (of steps), `ImplementsLifecycle`
(refinement), `EveryCallAnswered` (liveness). Relay: `ProcessedWasPublished`,
`DuplicatesBounded`, `InversionNeedsFailure`, `ImplementsQueue` (refinement),
`EventuallyProcessed`. Kitchen: `ActiveIsCooking`, `LateStatusAtMostOne`,
`CancelStopsUnlessCrossed`, `StopsCleanly`, `EntryReleased`. Status
consumer: `CaughtUpUnlessLost`, `EveryStatusTaken`, `WorkersStop`. Menu:
`NoMixedMenu`, `OrderedAsOffered` (of steps), `EveryRequestEnds`. Pricing:
`ExactUnlessWrappedRound`, `RefusedForCause`. Processes: `ClosedHasNoUser`, `CutOnlyOverdue` (of steps),
`PollingMeansSynced`, `StopsUnlessWatched`. End to end: `QuietMeansEnded`,
`ImplementsConsumer` (refinement), `EveryOrderEnds`. Each is
stated in words above its definition; `PROJECT.json` lists for each a mistake in
the code that breaks it.

Some are weaker than one might expect, because the code gives no more:
`CaughtUpUnlessLost` exempts orders with a lost status (one failed update
leaves an order behind for good, since all later statuses are refused),
`DuplicatesBounded` allows one copy per replica and per fault (delivery is at
least once), `LateStatusAtMostOne` allows one status after a cancellation, and
`CancelStopsUnlessCrossed` names the cancellations that stop nothing.
`ExactUnlessWrappedRound` exempts numbers of 2^64 and more.
`StopsUnlessWatched` exempts a process whose health somebody watches
(`GracefulStop` has no deadline), `ClosedHasNoUser` the requests that outlive
`server.Shutdown`. `QuietMeansEnded` and `EveryOrderEnds` name the faults after which
an order can stay where it is for ever (`Faulted`): nothing in the code repairs those.

## 7. Proofs

All theorems hold for every value of the constants, under the named assumptions
on them (finite set of sessions, positive bounds, NULL outside the value sets).

- **OrderStoreProofs.** None of the properties is inductive by itself: that a
  commit extends the trail legally depends on the row not having moved since it
  was locked. `IInv` adds what is known at each statement: which calls a session
  can carry (`CallShape`), which tables its transaction has written at each
  program counter (`TxShape`), that `old[s]` is the current status of the row it
  has locked and the transition is legal (`OwnShape`), that a cancel or patch
  past the domain check belongs to the order's customer or restaurant, which never changes
  (`AuthShape`), that two sessions never hold the same row (`Exclusive`), and that
  identities are not reused (`Issued`). From it: `TypeCorrectness`,
  `AuditTrailHolds`, `OutboxMatchesStatusHolds`, `AuthorisedOnlyHolds`, and
  `LifecycleImplemented`: the initial states map to initial states, `Commit` maps
  to `Create` or `Advance`, everything else to a stutter. `EachStatusOnceHolds`: every
  transition leads higher in the machine (`Height`), so that a legal trail has
  at most five entries and no status twice; this is also why trails need no bound
  in the runs. `AcknowledgedHolds` and `RefusalHolds` add `ReplyInv`: answers stay true
  because trails only grow and terminal statuses and `cooking` onwards are never
  left towards `cancelled`.
- **OutboxRelayProofs.** `NothingLost`: a worker in `mark` holds an event that is in
  the log; logs only grow. With the same invariant `QueueImplemented` goes through the
  steps: only `Enqueue`, `Deliver`, `AckLost` and `Mark` show outside, each as one step
  of NoticeQueue. `TypeCorrectness` includes that whatever the relay holds was committed.
  `InversionNeedsFailureHolds`, for one replica with one worker (`Alone`): an event
  in the channel has the earlier ones of its order with it, in the worker's hands,
  published or failed (`QueueInv`), because a batch is the oldest rows.
  `DuplicatesBoundedHolds` counts chances: `May(e)` are the replicas that may still publish
  e without another fault, `Cut(e)` those that are stopping with e in hand and will
  publish it again after their restart. Every copy uses up a chance or a fault
  (`PaidByChance`, `PaidByFault`), and only faults add chances (`Chance`); that a replica
  has an event in one place only (`OnceInv`) makes a chance used up.
- **KitchenProofs.** `ActiveIsCookingHolds`: between its lookup and its store the
  poller knows that its order is not active, because only the poller adds entries
  (`LookupInv`). `TypeCorrectness` needs the count of copies: a run is started by
  a copy of its own (`CopiesInv`). `LateStatusAtMostOneHolds`: a run that has written
  a late status is at `sent` under an ended context or past it (`Leaving`), so that
  `sleepContext` ends it; that a new run starts with none needs that runs not
  started yet are nowhere (`RunsInv`). `CancelStopsHolds`: only the last run of an
  order is ever active (`ActiveIsLast`), so a CancelFunc that was called is that of
  this run, whose context is over, or of an earlier one (`HandledIsDone`). A run that
  is in `activeOrders`, or about to be, while a cancellation of its order is kept, or
  about to be, has crossed it, since each poller looks before it stores
  (`KeptIsCrossed`).
- **StatusConsumerProofs.** `CaughtUpHolds`, for one worker (`OneWorker`): every
  status read is reached, but for the one in hand (`Reached`). An update keeps
  this because a stage has the one before it ahead of it in the topic
  (`Sequenced`), so the order has reached that one, and then a refused stage is
  an old one (`RefusalIsPast`). `HandIsLast` says that the message in hand is the
  last one taken; with two workers it is not, and the property fails.
- **ProcessLifeProofs.** `Places` says which goroutines, calls and resources
  there can be at each place in `main`; `SyncRecorded` that a SyncMenu call that was answered
  has its menu in the database. From them: `TypeCorrectness`,
  `ClosedHasNoUserHolds`, `CutOnlyOverdueHolds`, `PollingMeansSyncedHolds`.
- **KitchenSystemProofs.** `KitchenImplemented`: every step of the composition is one of
  Kitchen or leaves it alone, so that Kitchen's theorems hold in it.
  `SystemInvariance`: a pipeline at stage k has put stage k - 1 into the topic
  (`Announces`). With it every append is one that StatusConsumer's `Publish` allows,
  and `ConsumerImplemented` follows: what was proved of the consumer under an
  assumption about kitchens holds with this kitchen. `QuietMeansEndedHolds`, with one
  consumer worker, puts the two sides together: an announced order is on its way to
  a pipeline, missed, cooked or cancelled (`Awaited`); every pipeline that ends has
  a reason, and a context ends only by a cancellation the API has made or by a fault
  (`FateOf`, `Called`); a pipeline that completed has said so in the topic, and
  `CaughtUpHolds` of the consumer brings the order as far.
- **MenuProofs.** `OrderedAsOfferedHolds`: what an order has locked is still as
  it was when it was locked (`Fresh`), because a commit of a sync changes only
  rows it holds and no sync and order hold the same row (`Exclusion`).
  `NoMixedMenuHolds`: a commit writes all rows of its sync, and only syncs that are
  over have rows in the menu (`Written`).
- **OrderPricingProofs.** `ExactModuloWidthHolds`, for requests of any length: a created
  order has each requested item once, and its quantities and total are what was
  asked for and what is due, wrapped to the width. `ExactUnlessWrappedRoundHolds`
  follows, since wrapping leaves what fits alone and makes negative what overflows by
  less than the modulus (`WrapOverflow`), and so does `RefusedForCauseHolds`: an order
  the columns refuse has a number too big for them (`Cause` keeps what was the case
  when the reply was given). Wrapping commutes with sums and products
  (`WrapSum`, `WrapProduct`), so wrapping at every step equals wrapping once. The
  invariant says that the merged quantities are those of the lines read (`Counted`),
  that the items merged so far cost what these lines cost one by one, in integers
  without a width (`Regrouped`), and that the total is the bill of the items priced so
  far (`Priced`). The sums are recursive functions; what the proof needs of
  them (`SumNext`, `SumRaised`) is an induction over their prefixes, made with the
  library's `WFMin` on the set of lengths, because the induction theorems that take a
  predicate as parameter cannot be instantiated by the provers.

Left to TLC: liveness under fairness, because it rests on ENABLED, which is out of the
prover's reach: `EveryCallAnswered`, `EventuallyProcessed`, `StopsCleanly`,
`EntryReleased`, `EveryStatusTaken`, `WorkersStop`, `EveryRequestEnds`,
`StopsUnlessWatched`, `EveryOrderEnds`. Every other property of a passing run is a theorem.
No module has a recursive operator.

## 8. Not modelled

- Read-only queries (`GetOrders`, `GetRestaurants`, ...) and row mapping: they
  change no state, and a copy of fields has no property worth a model.
- Decoding and validation of requests, texts and codes of answers: they decide
  only whether a call is refused, which the models leave open. Which API key
  belongs to which restaurant is a lookup in a table nothing writes.
- Payloads: an event is its order and topic; the JSON is never inspected on the
  way to the topic.
- In OrderStore the outcome of the menu checks is an open choice; Menu and
  OrderPricing say what it is.
- Kafka itself: a topic is the sequence or the count of written messages.
  Partitions are not modelled since everything relevant has one key per order.
- Generated gRPC code (`api/proto`), configuration by environment variables,
  migrations (they run before the program).
