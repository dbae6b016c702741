# A TLA+ model of wb-orders

wb-orders accepts orders over HTTP, stores each with an `OrderCreated` event in
one PostgreSQL transaction, publishes the events to Kafka from an outbox table,
and settles the orders in a worker that consumes them. Delivery is at least
once; the database makes the effects happen once. This directory models the
parts where that can go wrong, checks small instances with TLC and proves the
safety results for all instances with TLAPS.

## 1. Inventory

| component | state | operations | interacts with |
|---|---|---|---|
| order service (`internal/order`, `cmd/order-service`) | tables `orders`, `order_items` | `create`, `get` (HTTP); `CreateWithEvent`, `Get` (SQL) | writes `outbox_events` in the same transaction |
| outbox table (`internal/outbox/postgres.go`, `migrations/`) | `outbox_events`: status, lock owner, lease, next attempt | `Claim`, `MarkPublished`, `Release`, `MarkFailed`, `PendingCount` | called by the publishers |
| outbox publisher (`internal/outbox/publisher.go`, `cmd/outbox-publisher`) | the rows of its current batch | `Run`, `publishBatch`, `publishOne`, `failPermanently` | table, worker pool, Kafka producer |
| order worker (`internal/consumer/consumer.go`, `cmd/order-worker`) | the records of its current batch | `Run`, `processRecord`, `retry`, `dlq`, `route` | consumer group, worker pool, processor, completion, producer |
| completion (`internal/consumer/postgres.go`) | `processed_events`, `orders.status`, new outbox rows | `IsProcessed`, `Complete` | called by the order worker |
| processing pipeline (`internal/processing`) | none between calls | `Process`: concurrent operations, first error cancels | called by the order worker |
| worker pool (`internal/workerpool`) | one batch | `Process` | both background processes |
| Kafka adapters (`internal/platform/kafka`) | none of their own | `Publish`, `PublishRecord`, client options | brokers, group coordinator |
| lifecycle (`internal/platform/shutdown`, `health`) | two goroutines per process | `Wait`, `Serve` | all processes |
| order model, envelope (`internal/order/model.go`, `internal/event`) | none | `validate`, `Validate` | pure |
| config, database, metrics, logging, correlation | none | glue | all processes |

What is hard:

* **Two resources, no common transaction.** A crash or a time-out between Kafka
  and PostgreSQL leaves one of them ahead, and a time-out does not say which.
* **Leases.** A publisher may be paused past its lease and go on; `locked_by`
  names the process, not the claim.
* **Batches.** Handlers of a batch finish in any order, but Kafka commits
  prefixes; one failed record, a rebalance or a lost commit replays all of it.
* **Expelled workers** go on handling records that another worker has too.
* **Check, then act.** `IsProcessed` and `Complete` are separate transactions.
* **Retries** move a record to another topic with an attempt count that is
  compared in two places; a retry record may exist twice.
* **Clocks** of different machines are compared (`not_before`, `updated_at`).
* **Cancellation from three sides.** A failed sibling, a time-out and SIGTERM end
  the same context, and `processRecord` has to tell them apart afterwards.
* **Results in slots.** The pool's results start as `nil`, which is also success.
* **Checks at both ends.** An event is checked when it is built and again when it
  is published and consumed, after JSON has rewritten it.

What makes each part correct:

* outbox: a row is `PUBLISHED` only if Kafka has its event; end states are
  final; nobody touches a foreign lease; bad rows end `FAILED` and never reach
  Kafka; every row is settled in the end.
* worker: no commit passes a record without a durable result; an order is
  settled and announced once; an event is given up only after all its attempts;
  refused events change nothing; every event is handled in the end.
* pool: every item is handled once or refused, and `nil` means handled.
* pipeline: the verdict depends on the payload only; canceled siblings count as
  nothing; a shutdown is not charged as an attempt.
* lifecycle: a failure ends the process with a status other than 0, and nothing
  is closed under a goroutine that still uses it unless time is up.
* order service: an order, its items and its event exist together or not at
  all; the total is exact; what is accepted is accepted again downstream.
* all together: an order is placed, settled and announced, each at most once and
  in this order, and a decision is never left untold. An accepted order is not
  forgotten either, with two exceptions the code has: a poll with records and an
  error drops its record, or `publishOne` refuses its event (see the findings).

`PROJECT.json` lists the hazards one by one, each with its line and the
properties that cover it, or why none does yet.

## 2. Modules

| module | what it is |
|---|---|
| `Outbox` | table and publishers |
| `Consumer` | Kafka topics and consumer group, order workers, completion |
| `PoolContract` | what callers rely on in `workerpool.Process` |
| `WorkerPool` | its channel protocol, shown to implement `PoolContract` |
| `Lifecycle` | `shutdown.Wait`, `health.Serve`, signal, exit |
| `WorkerMain` | an order-worker process: `WorkerPool` and `Lifecycle` around the `Run` loop |
| `Processor` | `processing.Process` and what `processRecord` makes of its answer |
| `OrderModel` | validation with machine integers, the event, what JSON does to it (operators) |
| `OrderService` | `create`, `get` and the server's shutdown, over `OrderModel` |
| `OrderLife` | abstract: an order is placed, decided, told |
| `OrderFlow` | order service, `Outbox` and `Consumer` composed, shown to implement `OrderLife` |
| `Budgets` | the time limits of a batch against the start-up check |
| `MCOutbox`, `MCConsumer`, `MCProcessor`, `MCOrderService`, `MCOrderFlow` | small instances for TLC |
| `OutboxProofs` | theorems about `Outbox` |
| `ConsumerProofs` | theorems about `Consumer`: structure, commits, orders |
| `DeliveryProofs` | theorems about `Consumer`: no event is lost, none is invented |
| `PoisonProofs` | theorems about `Consumer`: refused events and dead letters |
| `ProcessorProofs` | theorems about `Processor` |
| `WorkerMainProofs` | theorems about `WorkerMain`, the refinement of `PoolContract` included |
| `OrderServiceProofs` | theorems about `OrderService` and the loop of `validate` |
| `OrderFlowProofs` | theorems about the composition `OrderFlow`, the refinement of `OrderLife` included |

### Outbox

One SQL statement is one atomic step, which is what PostgreSQL gives a single
`UPDATE` with `FOR UPDATE SKIP LOCKED`: rows that another claim holds locked are
skipped, and with the claims in some order that is the same as their not being
claimable. Timestamps are kept as what the SQL compares them for: `lockedUntil`
is `null`, `future` or `past`, `due` is a Boolean, and `LeaseExpires` and
`BecomesDue` let time pass.

`Claim` is `publishBatch` up to the hand-over to the pool. `Start` is
`publishOne` up to its first call: an invalid row goes to `failPermanently`.
`PublishAck` and `PublishError` are the two results of `Publish`; after an error
the brokers may have the record all the same. `Close` runs one of the three
closing statements (`Execute`), which does nothing for a row the publisher no
longer owns. Every call to PostgreSQL may also be given up by the client and be
executed later or never: `Abandon`, `ClaimError` and then `LateExecute`,
`LateDrop`, `LateClaim`, `LateClaimDrop`. `Terminate` is a crash or SIGTERM; the
canceled context fails `Release` too, so in both cases the rows stay leased. A
restarted publisher has a fresh uuid and is another element of `Owners`.

`LeaseCovers` says that leases outlast the work of their holders. The start-up
check in `cmd/outbox-publisher/main.go` is there to ensure it; without it
(paused process, long statement) leases expire at any time. All safety
properties but `SingleHandler` are checked and proved without it.

Abstracted: `attempts`, `last_error`, the length of the backoff, metrics,
`PendingCount`; all constants of time.

### Consumer

A partition is a sequence of records; a record is an event and its attempt
header. `CreatedOf` and `RetryOf` give the partitions an event's key hashes to.
A worker is `idle` (in `PollRecords`), `busy` (with a batch, rebalances
blocked), `zombie` (busy, but expelled from the group) or `down`. `stage` holds
for each record of the batch where `processRecord` is: `queued`, `check`
(`IsProcessed` and payload), `process`, `complete`, `retry` or `dlq` (about to
be routed), and the result `ok` or `error`.

`Poll`, `PollError`, `CommitBatch`, `CommitError`, `CommitRefused` and
`FailBatch` are the paths through `Run`; `Start` to `RouteError` are those
through `processRecord`. An event has a kind: `valid`, `malformed` (refused
before the database is asked), `badPayload` (refused after it) or
`unsettleable` (`Complete` fails every time, as no such order exists).
`Settle` is the transaction of `Complete`. When `Complete` fails with its
COMMIT under way, the event is in `limbo` until `LateCommit` or `LateRollback`.

External, modelled from how the code uses them: assignment, revocation and
expulsion by the group coordinator; that a member starts at the committed
offset; that a poll advances the position; that `CommitRecords` stores the
offset after the last record per partition and is refused for an expelled
member; that a failed call may have taken effect.

Abstracted: `not_before`, backoff and time-outs only delay steps, which take any
time here, except that a skewed clock may refuse a retry record (`StartSkewed`);
headers besides `attempt`; the fan-out of the processor, whose verdict depends
on the payload only. A SIGTERM cancels the whole batch and is the same as a
crash for everything modelled: what the canceled calls may still have done is
what `RouteError`, `CompleteError` and `CommitError` say.

### WorkerPool, Lifecycle and WorkerMain

`WorkerPool` has the feeder (`Send`, `CloseJobs`), each goroutine (`ready` at the
receive, `taken` before it looks at the context, `running` in the handler,
`gone`) and `wg.Wait` (`Return`). A send on the unbuffered channel is one step of
both sides. `Cancel` may come between any two steps. The refinement mapping into
`PoolContract` reads the state of an item off the goroutines that hold it.

`Lifecycle` is the frame that `cmd/order-worker` and `cmd/outbox-publisher` share:
two goroutines that report to `errCh`, the first `select` of `Wait`
(`SelectResult`, `SelectSignal`), its loop (`Drain`, `TimeUp`), its return
(`WaitReturns`), and the end of the process (`Exit`). `errCh` has room for both
results, so reporting never blocks.

`WorkerMain` couples them: the pool's context is the one `Wait` cancels
(`ctx <- canceled`), the app goroutine is `Consumer.Run`, which calls the pool
with each batch and reports its own return. A fetch error makes `Run` poll again
and changes nothing here. `blocked` records a poll whose `AllowRebalance` is still
missing, because `consumerClient.Close` waits for it.

### Processor

One call of `Process` and the branch of `processRecord` after it. Three contexts
are nested (`worker`, `limit`, `ctx`), each keeping the first reason it ended
for. `Execute` is an operation that looks at the context once and sends its
result, `Collect` one round of the receiving loop. Which operations refuse an
order is fixed by its payload (`refuses`). Technical errors are possible by the
`Operation` interface; today's operations have none besides the context's.
`Consumer` relies on `VerdictFromPayload` when it takes verdicts as constants.

### OrderModel and OrderService

`OrderModel` has `validate` with integers that wrap at `MaxInt64`, next to exact
arithmetic. Texts are kept as what the checks look at: a SKU is a name or bad, a
request id is its number of bytes and how many of them are no UTF-8. `Stored` is
what `json.Marshal` makes of an envelope: each such byte becomes the three bytes
of U+FFFD. `Command` is what decoding leaves open: any customer, warehouse and
list of items with numbers of the machine's width.

`OrderService` runs the statements of `CreateWithEvent` one at a time; they
become visible together at `Commit`. When `Commit` fails on the client the
request is `inDoubt` until `Resolve`. `GetOrder` and `GetItems` are the two
statements of `Get`, each with its own snapshot. `Close`, `Drained` and `Die` are
`ListenAndServe` after a signal, and the death of the process.

### OrderFlow

Outbox rows are pairs of an order and an event type. The composition is by
instances over shared variables; four couplings join them:

* `Create`: the order and its `OrderCreated` row appear in one step;
* `PublishCreated`: an append to Kafka, acknowledged or not, is `Deliver` of
  `Consumer`; all other steps of the workers leave the created topic alone;
* `Announce`: the step of `Complete` that changes an order also inserts the
  `OrderStatusChanged` row;
* everything else interleaves.

`Terminate` of a publisher is used without an append, since an append while it
ends is `PublishError` followed by `Terminate`.

What the components leave open stays open here, as constants: several partitions
per topic and their assignment to orders, skewed clocks (`ClockSkew`), orders
whose completion the database refuses every time (`Kind`), polls that return
records together with an error (`MixedFetch`), and orders whose event
`publishOne` refuses although `event.New` accepted it (`Unpublishable`,
the case of `order_service_request_id`). The last two are the ways in which the
code forgets an order. `NoOrderLost` therefore leaves out the orders in
`Unpublishable`, and it is checked and proved for `MixedFetch` = FALSE only: with
TRUE, `Run` drops the records of such a poll (lines 67-73 of `consumer.go`) and
the next commit passes them, as `consumer_mixed_fetch` shows. The composition
shows the same with two orders; with one there is no second record whose commit
could pass the dropped one. `NoDecisionLost` and `ImplementsLife` need neither
condition.

`OrderLife` is the abstract specification; `life` is the status of a stored
order and `told` are the orders with an `OrderStatusChanged` event on Kafka.

### Budgets

Goroutines take records one by one; each record may wait for its `not_before`
and then use up the time-outs of its calls. Units are seconds, as in the code's
constants (5 s for a database call, 10 s for a route, 300 s rebalance timeout).

## 3. Runs

| run | instance | shows |
|---|---|---|
| `outbox_safety` | a valid and an invalid row, two publishers that may die, leases expire at any time, two late statements | `PublishedIsOnTopic`, `PoisonContained`, `TerminalIsFinal`, `ForeignLeaseIntact`, `TypeOK` |
| `outbox_live` | the same rows, one publisher may die, leases cover the work | `SingleHandler`, `EventuallySettled` |
| `consumer_safety` | two events of one order with different verdicts, one partition per topic, two workers, three faults, one retry | `NoEventLost`, `CommitPassesDone`, `InFlightUncommitted`, `OneStatusEvent`, `SettledOnce`, `DeadLetterEarned`, `TypeOK` |
| `consumer_kinds` | a valid, a malformed and a bad-payload event, two faults, skewed clocks, mixed fetches | `PoisonIsolated` |
| `consumer_live` | a valid event and one whose order is missing, one fault, skewed clocks | `EventuallyHandled` |
| `consumer_mixed_fetch` | as `consumer_safety`, mixed fetches, one fault | `NoEventLost` is **violated** |
| `worker_main` | batches of up to three records, a pool of two, two polls | `NilMeansHandled`, `ImplementsContract`, `ExitZeroMeansSignal`, `ClosedAfterUse`, `FailureEndsProcess`, `TypeOK` |
| `processor` | three operations, each may refuse or fail, two required | `VerdictFromPayload`, `ErrorHasCause`, `RetryOrStop`, `AlwaysDecides`, `TypeOK` |
| `order_service` | a request with any list of up to two items, a reader, headers of valid text | `OrderWhole`, `CreatedIsStored`, `ReadIsWhole`, `TotalExact`, `EventPublishable`, `TypeOK` |
| `order_service_request_id` | the same, headers with a byte that is no UTF-8 | `EventPublishable` is **violated** |
| `order_flow` | one order, two publishers, one of which may die, one worker, two faults, skewed clocks, no mixed fetches, an event that can be published | `NoOrderLost`, `NoDecisionLost`, `ImplementsLife` |
| `batch_budget` | two goroutines, four records (two rounds, as by default), a short backoff and long processing among the accepted times | `BatchBelowRebalanceTimeout` is **violated** |

Bounds. Two publishers or workers are what every interleaving hazard here needs:
one that holds a lease or a partition, one that has lost it. Two rows make the
pool of two overlap and let a claim take one row and leave the other. `MaxLate`
2 allows a late claim with a late statement, and two late statements that race
each other. Two events of one order with opposite verdicts are the smallest case
in which a stale completion does harm; with a batch of two they are handled
together or apart. `MaxRetries` 1 has a first attempt, a retry and the step into
the dead letter queue. `MaxLog` bounds records per partition; three leave room
for a redelivery and for duplicate retry records. `MaxFaults` counts crashes,
revocations, expulsions, failed calls, redeliveries and clock refusals in one
behaviour: three allow, for instance, an expulsion, an ambiguous completion by
the zombie and a failed commit of its successor. Symmetry is used over
publishers and over workers in the safety runs only. Deadlock is not checked:
when all events are handled and the faults are used up, the system rests.

`worker_main`: three items for two goroutines make one goroutine take a second
item, and two polls let a call follow another with the slots used before.
`order_service`: requests share no state but the tables, in which each has its
own rows, so one request with a reader meets every case. `MaxInt64` is 7 with
quantities up to 3 and prices up to 7: products and sums below, at and above the
limit, also ones that wrap to a positive number. `MaxRequestID` is 4 and a
request id has 0, 1, 4 or 5 bytes. `order_flow` is the largest run (some 650,000
states): one order has the whole path through three programs; late statements
are left to `outbox_safety` (`MaxLate` 0), and two faults allow a crash and a
redelivery next to a publisher's death and duplicate publications. It has no
mixed fetches (see above), and two orders are out of its reach.

Fairness. `outbox_live`: processes are scheduled and time passes (weak fairness
of expiry, of becoming due and of the end of every call, all of which have
time-outs). The publisher that does not die is strongly fair in claiming a given
row, in having a publication acknowledged and in closing a row with
`MarkPublished` or `MarkFailed`: an outage of Kafka or PostgreSQL ends, as no
outbox can promise more. `ORDER BY created_at` with a finite number of rows
lets every row be claimed. `consumer_live`: faults are finite, processes are
restarted (`restart: unless-stopped`, Kubernetes deployments), partitions are
assigned, and running processes go on; weak fairness is enough. `worker_main`:
goroutines are scheduled, handlers end by the time-outs of their calls, and the
timer of `Wait` fires. The health server is given no fairness: that the process
ends although it hangs is what the timer is for. The exception in
`FailureEndsProcess` is a poll that returned records just as the context ended:
`Run` leaves without `AllowRebalance` (`internal/consumer/consumer.go:64`), and
whether `Close` then returns is decided inside franz-go. `processor`: goroutines
are scheduled; operations wait for nothing.

### Findings

`consumer_mixed_fetch`: `PollRecords` may return records of some partitions and
an error of another. `Run` then logs the errors, calls `AllowRebalance` and
polls again (`internal/consumer/consumer.go:67`), so the records are dropped
while the client's position is past them; the next commit of such a partition
covers them. `docs/architecture.md:21` says the worker "commits only after every
record reaches a durable terminal result". In TLC's trace one event is delivered
and dropped with a mixed fetch, a second one is polled, handled and committed,
and the first is then neither processed, nor dead-lettered, nor ahead of the
committed offset. Handling `fetches.Records()` before looking at the errors, or
leaving the process without a commit, would close the gap: with `MixedFetch`
false the property is proved.

`order_service_request_id`: `requestIDMiddleware` and `event.New` accept an
`X-Request-ID` of up to 128 bytes whatever the bytes are
(`internal/order/http.go:133`). In the JSON of the outbox row each byte that is
no UTF-8 takes three bytes, and `publishOne` measures the id again: an id of the
maximal length with such a byte is refused, the row ends `FAILED`, and the order
stays `PENDING` although the client was told 201. `README.md:37` of the
repository says that after a successful commit the event can be published later.
Checking the id with `utf8.ValidString`, or measuring it after `ToValidUTF8`,
would close the gap: with valid text `EventPublishable` holds.

`batch_budget`: `worstCaseBatch` (`cmd/order-worker/main.go:70`) counts 15 s of
calls per record, but `IsProcessed` (5 s), `Complete` (5 s) and the route after a
failed `Complete` (10 s) add up to 20 s. `docs/adr/0006-kafka-batch-commit-and-shutdown.md:16`
calls the check conservative. It is so for several rounds with a backoff limit of
10 s or more, because the waiting of the records of a batch overlaps; it is not
for short backoffs, such as 5 s with a processing timeout of 129 s.

The corresponding check of the publisher's lease holds what
`docs/architecture.md:32` says of it: a row of the last of n rounds is taken up
at most 10 s (`Claim` and `PendingCount`) and 15 s per earlier round after the
claim, which is below the required 15 n + 5 s. Its last statement may come up to
5 s after the lease; that is the case `LeaseCovers` = FALSE, in which everything
but `SingleHandler` is checked and proved.

## 4. Proofs

All theorems hold for every number of events, rows, partitions, processes and
faults, every batch and pool size and every retry limit. They rest on the named
assumptions of the modules and on nothing else: `OutboxAssumption`,
`ConsumerAssumption` (types of the constants; the created and the retry topic are
different topics), `ProcessorAssumption`, `PoolAssumption`, `MaxPollsAssumption`,
`OrderModelAssumption` (types; a uuid is no longer than the longest request id),
`OrderServiceAssumption` (types: commands are of type `CreateCommand`, headers
have a size and a number of bytes that are no text) and `OrderFlowAssumption`
(types of the constants; again two different topics).

`OutboxProofs`

* `TypeCorrect`: `TypeOK`, the schema's CHECK on the lock columns included.
* `OutcomesCorrect`: `PublishedIsOnTopic` and `PoisonContained`. Neither is
  inductive: a row is marked by a statement sent earlier, perhaps by a process
  that is gone. The invariant `Provenance` says of every statement in a pool or
  under way that it was earned: a mark of an event in Kafka, a failure of an
  invalid one, a publication only of a valid one. `PoisonStays` states the second
  part alone.
* `TerminalStable`: `TerminalIsFinal`. A settled row has no lock owner, so no
  closing statement finds it, and no claim selects it.
* `LeaseRespected`: `ForeignLeaseIntact`, from the guards of `Claimable` and
  `Owns`.
* `HandlersExclusive`: `SingleHandler`. Inductive together with the same fact
  about late statements (`LeaseInv`).
* `NoRowBeforeInsert`: nothing happens to a row before its INSERT; the
  composition needs it.

`ConsumerProofs`

* `StructureCorrect`: the invariant `Structure` is `TypeOK`, offsets inside the
  log, only members hold partitions, and a member's batch lies between the
  committed offset and the position of partitions it holds and reaches up to
  the position. `TypeCorrect` states the first part alone.
* `InFlightSafe`: `InFlightUncommitted`, which follows from `Structure`: a
  member's partitions go to nobody else, and only their holder commits.
* `OrdersSettledOnce`: `OneStatusEvent` and `SettledOnce`: only `Settle` changes
  an order, and it changes pending ones only. `SettledStays` states the second
  part alone.

`DeliveryProofs`

* `NothingLost`: `NoEventLost`, assuming `~MixedFetch`. The invariant
  (`DeliveryCorrect`) adds to `Structure` that nothing between committed offset and position is outside the
  holder's batch (`NoGap`), that `ok` means processed, dead-lettered or on the
  retry topic beyond the batch (`OkIsDurable`), and that every record's event is
  settled or outstanding (`AllSettled`). The delicate case is a commit that
  passes the retry record on which another worker's `ok` rests: that record was
  then itself `ok` in the committed batch, and its own durable result takes
  over.
* `CommitsInOrder`: `CommitPassesDone`, from `NoGap` and the guard of the
  commit: what it passes was in the batch, and all of the batch is `ok`.
* `NothingInvented`: every record, dead letter and processed event stems from a
  record of the created topic. `SettledByOwnEvent`: an order is settled if and
  only if an event of it is processed, by the verdict of one of its events.

`PoisonProofs`

* `LettersAreEarned`: `DeadLetterEarned`, and `PoisonKeptApart`:
  `PoisonIsolated`. `PoisonInv` ties the stage of a record in `processRecord` to
  what is already known of its event (`StagesFit`: whoever completes has a valid
  payload, whoever retries has no malformed record) and says of every record in
  Kafka that all attempts before its own are on the retry topic (`InOrder`): a
  dead letter is earned because the record it was made from had its
  predecessors.

`ProcessorProofs`

* `VerdictCorrect`, `DecisionCorrect`, `CauseCorrect`: `VerdictFromPayload`,
  `RetryOrStop` and `ErrorHasCause`, for any set of operations. The invariant
  follows a result from the context that decided it to the joined error: a
  result is the payload's answer, a technical error, or the reason of the
  context (`ResultsExplained`); what was received is in the join
  (`ErrorsJoined`); and the context ended for the time-out, the shutdown, or a
  technical error that is in the join (`ContextExplained`). The last part is why
  a lone cancellation in the join means that the worker is ending.

`WorkerMainProofs`

* `NilTrusted`: `NilMeansHandled`, and `PoolImplements`: `ImplementsContract`.
  `PoolInv` says that an item that was sent is with exactly one goroutine or has
  an honest entry in `errorsByIndex` (`OneHolder`, `EntriesHonest`), and that
  nothing is with a goroutine outside a call (`CallShape`). For the bound of the
  contract, running items are mapped one to one to goroutines other than the one
  that takes the next item, so a pool of n goroutines runs at most n handlers.
* `TypeCorrect`: `TypeOK`; `ExitCodeHonest`: `ExitZeroMeansSignal`;
  `NothingClosedEarly`: `ClosedAfterUse`. `FrameInv` follows the results from the
  goroutines to `Wait`: what was received is counted (`ResultsCounted`), a first
  error is kept through the timer (`FirstErrorKept`), and the process exits only
  after `Wait` (`ExitAfterWait`).

`OrderServiceProofs`

* `AddLineExact`: one step of the loop in `validate` either refuses the line or
  adds exactly price times quantity, with the machine's arithmetic, for every
  width of the integers.
* `TotalOfExact`: so does the whole loop, for every list of items: it accepts
  exactly the lists of acceptable items whose exact sum fits, and returns that
  sum. The induction theorems of the library cannot be used, as they take a
  predicate as parameter; that every set of numbers has a least element
  (`LeastNat`, from `WFMin`) takes only a set and is enough. Applied to the
  lengths for which there is no run of the loop it gives that the recursive
  function of `TotalOf` exists and satisfies its equation (`LoopRuns`,
  `TotalOfRounds`); applied to the first round in which machine and exact
  arithmetic disagree (`Agree`) it gives the theorem.
* `OrdersWhole`: `OrderWhole`; `AnswersTrue`: `CreatedIsStored`; `ReadsWhole`:
  `ReadIsWhole`. `ServiceInv` adds that a request that has sent no COMMIT has no
  row (`QuietLeavesNothing`), that an answered one has them all
  (`AnsweredStored`), and that an order found by the first statement of `Get`
  stays whole until the second (`FoundStays`).
* `TypeCorrect`: `TypeOK`; `TotalsExact`: `TotalExact`; `EventsPublishable`:
  `EventPublishable`. The invariant `AcceptInv` says that a request with a
  transaction, a COMMIT in doubt or a row has a command that passed `validate`
  and the event built from it (`OnlyPassed`), and that rows belong to requests
  (`TableType`). Since commands are written once, before the first statement,
  this carries the facts about `validate` to the tables. `EventsPublishable`
  assumes that no request id the middleware keeps grows past the limit when its
  invalid bytes are replaced; valid text satisfies that, and
  `order_service_request_id` shows that the theorem fails without it.

`OrderFlowProofs`

* `RowsBehave`, `WorkBehaves`: a behaviour of the composition, seen through the
  variables of the outbox or of Kafka and the workers, is a behaviour of
  `Outbox` or of `Consumer`. Every step of the composition is a step of one, of
  both (a publication is `Deliver`; the change of an order is `Insert`) or of
  neither. The theorems of `OutboxProofs` and `DeliveryProofs` therefore hold in
  it; they are cited through instances (`Rows`, `Work`) once the assumptions on
  the constants have been shown for the values `OrderFlow` gives them
  (`RowsAssumption`, `WorkAssumption`), and `Components` collects them.
* `FlowAccounted`: the invariant `FlowInv` is what no component can say alone:
  an order and its `OrderCreated` row appear together (`PlacedWithRow`), a
  settled order and its `OrderStatusChanged` row (`SettledWithRow`), and what
  the publishers put on the topic is what the workers find (`TopicIsLog`).
* `SettledAfterPlaced`: a settled order was placed and its event published. The
  argument goes backwards through the programs: settled by a processed event
  (`SettledByOwnEvent`), which was delivered (`NothingInvented`), so published
  from a row (`TopicIsLog`), which had been inserted (`NoRowBeforeInsert`), with
  the order (`PlacedWithRow`).
* `FlowImplementsLife`: `ImplementsLife`. `Create` is `Place`, the settling step
  of `Complete` is `Decide`, the first publication of the second row is `Tell`,
  and everything else stutters.
* `NoDecisionForgotten`: `NoDecisionLost`. A settled order has its second row
  (`SettledWithRow`), no such row is invalid, and a row that is neither `PENDING`
  nor `PROCESSING` is then `PUBLISHED` (`SettledRow`), so its event is on Kafka
  (`PublishedIsOnTopic`).
* `NoOrderForgotten`: `NoOrderLost`, assuming `~MixedFetch`. By the same argument
  the event of an order that is not in `Unpublishable` is in its row or on Kafka,
  hence delivered (`TopicIsLog`), and `NoEventLost`, which needs the assumption,
  takes over.

All but the last hold with mixed fetches and unpublishable events too.

Only model-checked: `EventuallySettled`, `EventuallyHandled`, `AlwaysDecides` and
`FailureEndsProcess` (liveness is outside the prover), and the arithmetic of
`Budgets`, which has only the configured values.

## 5. Plan

The modules are complete along the first plan, and every safety property a run
checks is a theorem, for the components and for their composition. Open: the
bound that does hold for the time of a batch, in place of the one
`batch_budget` refutes.

## 6. Not modelled

* Configuration: environment variables are parsed once at start-up. The two
  checks that relate several values are covered by `Budgets` and the remark
  above.
* Database pool, metrics, logging, correlation ids: no state that an operation
  depends on. `PendingCount` only feeds a gauge; its failure is logged.
* HTTP routing, decoding and response bodies: a malformed body is one
  alternative of `create`; the rest keeps no state. Health and readiness
  handlers answer from a ping.
* Fields of the envelope that the program fills itself, and the traces of an
  error (`last_error`, the headers of dead letters).
* Deployment files, migrations besides the constraints the statements rely on.
