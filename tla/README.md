# FinFlow: a TLA+ model of the payment pipeline

FinFlow takes payments over HTTP, stores them in PostgreSQL together with an
outbox event, publishes the events to Kafka, and books each payment once in a
double-entry ledger. The promise that matters is end to end: an accepted payment
is booked exactly once, whatever is retried, delivered twice, or stops half way.
This directory models the state machines that keep that promise, their composition,
the retention runs that clean up behind them, the migration job that prepares their
tables and the gateway in front, checks them with TLC on small instances, shows that
they implement an abstract specification of the promise (`PaymentLedger`), and proves
the safety properties of the components and of their composition with TLAPS, for every number
of processes, events and faults.

Paths below are relative to the repository root (`services/...`).

## 1. Inventory

### Components

| Component | State it keeps | Operations | Talks to |
| --- | --- | --- | --- |
| Payment API (`payment-service/internal/{handler,service,repository}`) | tables `payments`, `outbox_events` | create (with optional idempotency key), get, update status | PostgreSQL; the publisher through `outbox_events` |
| Outbox publisher (`payment-service/internal/publisher`, `cmd/outbox-publisher`) | row status and attempts in `outbox_events`; the batch in memory | claim, write to Kafka, mark published or failed, poll again | PostgreSQL, payment events topic |
| Ledger consumer (`ledger-service/internal/consumer`, `internal/service`, `cmd/payment-consumer`) | tables `ledger_accounts`, `ledger_entries`, `consumed_ledger_events`; committed offsets; the message and the attempt in memory | fetch, handle with retry, dead-letter, commit | Kafka group, PostgreSQL, dead-letter topic |
| Dead-letter replay (`ledger-service/internal/replay`, `cmd/replay-dead-letter`) | table `dead_letter_replays` | claim an event, republish it, record the outcome | dead-letter topic, payment events topic, PostgreSQL |
| Ledger queries (`ledger-service/internal/handler`) | none | list entries, balances | PostgreSQL |
| Retention (`payment-service/internal/retention`, `cmd/retention`) | none of its own; deletes old rows | delete published outbox rows, consumed events, succeeded audits | PostgreSQL |
| Migration (`payment-service/internal/migration`, `cmd/migrate`) | `schema_migrations`, an advisory lock | find the files, apply and record in version order, all in one transaction | PostgreSQL |
| Gateway (`gateway-service`) | a map of rate-limit windows per client | admit or refuse, rewrite the path, forward | payment and ledger APIs |
| Request security, configuration, metrics and tracing | none that influences the above | check one request, read the environment, count | |

### What is hard here

* **Interleaving.** Several publishers share one table; several consumers share
  a group, and a rebalance hands a partition on while its former owner still
  works; several HTTP calls use one idempotency key or update one payment.
* **Unconfirmed effects.** A commit, a Kafka write or an offset commit may take
  effect although the caller is told it failed. Every call has that outcome in
  the models.
* **Stops.** A process may end between any two of its calls. What it held in
  memory is gone; an open transaction rolls back.
* **Read, decide, write.** `UpdateStatus` decides on a status it read in an
  earlier statement.
* **Deleted memory.** Retention deletes the rows that suppress duplicates while copies of
  their events may still be on the topic, among the dead letters or in the publisher.
* **Three clocks.** The gateway, the service behind it and the shutdown of either each end a
  request on a time-out of their own, and the client sees one answer.
  The Kafka client has retries of its own: every writer leaves its `MaxAttempts` at the
  default and has no idempotent producer, so one call may leave several copies.
* **Progress.** Poisoned messages, rows that can never be written, locks held by others and
  rewound offsets must not block a partition, a batch or a call for ever.

`PROJECT.json` lists each hazard at its line with the properties aimed at it.

### What makes each component correct

* API: retrying with one key creates one payment; a conflict is real; payment and
  event change together; an acknowledged status holds; every call is answered.
* Publisher: a row has one holder; *published* means delivered and is final; copies
  are bounded by the claims of the row times the tries of the Kafka client within a
  call; rows that can never be written starve no other as long as they are fewer than
  a batch: everything else that is committed is delivered unless stranded.
* Consumer: an event is booked at most once, atomically with its consumed mark; no
  offset passes a message that was neither booked, dead-lettered nor ignored;
  every message is settled in the end.
* Replay: one run at a time works on an event; *succeeded* means republished and is
  final.
* Queries: whoever reads balances or entries sees whole movements that add up.
* Retention: only rows that are done are deleted, and not before the last copy of their
  event; with the components it cleans up behind, the promise of `PaymentLedger` holds.
* Gateway: the limit is kept, up to the effect of a window's boundary; an answer is honest
  about what the service did; documented endpoints are reached.
* Migration: the schema goes through each recorded migration once, in order, a job's
  migrations all or none; every job gets there.

## 2. Modules

| Module | Models |
| --- | --- |
| `PaymentEvents` | statuses, event types, outbox rows and Kafka messages |
| `OutboxPublisher` | any number of publishers over `outbox_events` and the topic |
| `OutboxPublisherProofs` | its TLAPS proofs |
| `LedgerConsumer` | the consumer group, the ledger tables and the dead-letter topic |
| `LedgerConsumerProofs` | its TLAPS proofs |
| `LedgerQueries` | the read side: balances and entries over the consumer's tables |
| `LedgerQueriesProofs` | its TLAPS proofs, built on the consumer's, and facts about sums |
| `PaymentLedger` | abstract: what FinFlow promises about money |
| `PaymentApi` | concurrent HTTP calls over `payments` and `outbox_events`; implements the API's half of `PaymentLedger` |
| `PaymentApiProofs` | its TLAPS proofs |
| `DeadLetterReplay` | concurrent runs of the replay command |
| `DeadLetterReplayProofs` | its TLAPS proofs |
| `Retention` | concurrent runs of the retention command |
| `Pipeline` | API, publishers, consumers, replays and retention runs over shared tables and topics; implements `PaymentLedger` |
| `PipelineProofs` | its TLAPS proofs, built on those of publisher, consumer and queries |
| `Migration` | concurrent migration jobs over `schema_migrations` |
| `MigrationProofs` | its TLAPS proofs |
| `RateLimiter` | the gateway's fixed window per client |
| `Gateway` | requests through gateway and service, and the life of the API processes |
| `GatewayProofs` | the TLAPS proofs of limiter and gateway |
| `MC*` | constants and symmetry sets of the TLC runs |

### Common conventions

* A uuid is a natural number, the number of the call that drew it, so ids are
  fresh and `created_at`, which grows with the start of the transaction, grows
  with the id. Rows may become visible in any order.
* Money is an amount and a currency; merchant, customer and timestamps are left
  out, since no guard looks at them once a request is validated. Trace context,
  metrics and logging are left out.
* Each action is a stretch of code between two points where another process can
  be seen: a statement that takes a lock, a commit, a call to Kafka.
* Faults are actions of their own, each guarded by a named bound
  (`MaxStops`, `MaxDbErrors`, ...). The proofs hold for every value of them.
* Definitions introduced by a comment `Slip:` are not part of a specification.
  Each is a plausible mistake in the definition below it, kept so that anyone can
  substitute it and see which property notices.

### OutboxPublisher

| State | Code |
| --- | --- |
| `outbox` | `outbox_events`: status, attempts, type, payment, payload |
| `topic` | the partitions of the payment events topic |
| `pc`, `batch`, `current` | `PublishBatch`: where it is, claimed rows not finished, the row being written or marked |
| `unacked` | inside `WriteMessages`: how many copies the open call has sent without an acknowledgement |

`ClaimSelect` is the `SELECT ... ORDER BY created_at LIMIT n FOR UPDATE SKIP
LOCKED` together with the `UPDATE`, `ClaimCommit` its commit; in between the rows
are `Locked` for others. `publishOne` is one call of the Kafka client, whose writer
(`NewKafkaWriter`) keeps the client's default `MaxAttempts` and has no idempotent producer. So the
call is up to `WriteAttempts` tries: `WriteRetries` is one that reached the brokers and whose
acknowledgement was lost, after which the client sends the message again; `WriteAcked` and `WriteFails` end the
call, and an error may hide a written message. A try that reaches no broker changes nothing and is left out, except
when it is the last one. Tries that fail are
counted one by one (`MaxWriteErrors`). `Unwritable` is the set of events whose write is refused
on every call, for ever and without an effect (`WriteRefused`): a record that is too large for client or
brokers. Their rows are claimed, refused and marked `failed` on every poll; `Counted` is the claim's
`attempts = attempts + 1`, which for these rows stops at `MaxRefusals` so that the state space is finite. `MarkPublished`, `MarkFailed` and `MarkError` are the
marks, which look at the id alone. `Stop` is a crash or SIGTERM: a cancelled
context makes every further write and mark of the batch fail, so the rest of the
batch is dropped without a mark. The batch is a set because `UPDATE ... RETURNING`
promises no order.

### LedgerConsumer

`topic`, `committed`, `owner` and `position` are Kafka's side of the group; `Assign`
gives a partition to a live consumer, which resumes at the committed offset, and
may take it from a live owner that goes on with its message (a zombie). For each
consumer `pc`, `work` and `attempt` follow `Run` and `handleWithRetry`.
`RecordPaymentMovementOnce` is split into the two account upserts, each a
transaction of its own, the insert into `consumed_ledger_events`, which waits for
a concurrent insert of the same event, and the commit. A validation error is
retried like a database error because the code does not mark it permanent; a
missing event id or malformed JSON is permanent. The former owner's offset commit
is let through, which is the harder case for the properties (the broker may fence
it). Records that are dead-lettered keep their partition and offset. The writer of the dead-letter
topic retries inside its call like the publisher's: `DeadLetterRetries` leaves a copy and stays in the call.

### LedgerQueries

`ListBalances` and `ListEntriesByReference` are one SQL statement each, so they answer from
one committed state. They are operators over `accounts` and `journal` of `LedgerConsumer`, and
the run of the consumer evaluates them in every state, hence at every moment a reader
could ask. The `SUM ... GROUP BY` is `SumFunction` of the community modules over the set of an account's rows.
`OneMessagePerPayment` is what the reader relies on upstream: one event per payment, one message per event.

### PaymentLedger

Two variables, `accepted` and `movements`, and three actions: `Accept` a payment, `Settle` its
status once, `Book` it once, for exactly its money. No outbox, topic, offset or retry appears in
it. `PaymentApi` and `Pipeline` each carry an `INSTANCE ... WITH` that maps their state to it.

### PaymentApi

A call is an `EventIds` member with a request, a place and a response. `InsertPayment`,
`ReplayPayment` and `CreateCommit` are `PostgresPaymentRepository.Create`: the insert
with `ON CONFLICT (idempotency_key) DO NOTHING` waits for an open transaction with the
same key (`KeyLocked`), and finds the key free or taken. `ReadStatus`, `UpdateRow`,
`UpdateNoRow` and `UpdateCommit` are `UpdateStatus`; the conditional `UPDATE` waits
for the row lock and evaluates its condition afterwards, as READ COMMITTED does.
The request hash is modelled as the normalised details themselves, that is, without
collisions. `Normalise` is what validation and upper-casing do to the spelling a
client sent.

### DeadLetterReplay

Each run of the command is a process: `Begin` (fetch the record, compare the event
id), `StartReplay` / `AlreadyClaimed` (the conditional upsert), `Republish`,
`FinishReplay`, each with its failing and its unconfirmed outcome. `RepublishRetries` is a copy that the Kafka
client writes again within the call. `FinishFails`
keeps the difference that the error is returned after a successful write and
dropped after a failed one.

### Retention

`Lock` is `loadConfig` and `pg_try_advisory_lock`, `Count` and `DeleteBatch` are `RunRule`,
`NextRule` the loop over `Rules`, `Unlock` the deferred unlock. `DeleteBatch` removes a full batch
of any of the eligible rows, or all that are left. `RuleFails` ends a run at an error; `Kill` ends it
anywhere, and PostgreSQL releases the lock with the session.

### Pipeline

Each component is an `INSTANCE` of its own module, renamed where two modules use one name
for their private state and unrenamed where they share a table or a topic:

| Shared | Written by | Read by |
| --- | --- | --- |
| `outbox` | API (`CreatePayment`), publishers, retention | publishers, retention |
| `topic` | publishers, replays (`Rewritten`) | consumers |
| `consumed` | consumers, retention | consumers, retention |
| `deadLetters` | consumers | replays |
| `audit` | replays, retention | replays, retention |

What the composition adds is time. `Stamp` sets `published_at`, `consumed_at`, `completed_at` and
the times of Kafka's records with every step; the clock counts days, because the retention
periods do, and moves only while no call is under way, since a call takes seconds. `Tick` is
where the installation's promises enter: a message is consumed before the topic drops it, a
dead letter is replayed within a window, and a row whose write failed is written again within a
window. The code enforces none of them; `infrastructure/postgres/README.md:64` demands that the
operator does. `WindowsAssumption` says how long rows must then be kept, `ComponentsAssumption` what the components
ask of their constants.

`Consumer` is an instance of `LedgerQueries`, so that `BalancesAddUp` can compare what a reader of the ledger gets
with what the API accepted.

Only `payment.created` events flow in the composition. Status changes are dropped by the consumer
unseen, in whatever order they come; `consumer_liveness` delivers them before and after the created
event. Rebalances, stops of publishers and consumers, lost offset commits and dead letters written twice are left to the components'
own runs, too; here the faults are those that make copies and
delays: tries of a write that are unacknowledged, within a call of the publisher or a replay or at its end, failing and unconfirmed transactions, failing replays, killed retention runs.

### Migration

Each job is a process with its image's directory. `Discover` keeps the `*.up.sql` files
and fails on a name without a version. `EnsureTable`, `CreateTable` and
`CreateCollides` are `CREATE TABLE IF NOT EXISTS`, which is no protection against a
concurrent creation: the second one waits for the first in the catalog's unique
index and fails when it commits. Then come the advisory lock, the read of the applied versions
and the loop, in which `Apply` runs a file and `Record` inserts its version, both
inside the one transaction that `Commit` ends. `Retry` is the Kubernetes Job's
`backoffLimit`. A file with only white space is a migration whose SQL does
nothing. `Installed` is what an earlier release may have left.

### RateLimiter and Gateway

`allow` runs under a mutex and is one step; `bucket` is the bucket it stores. The count grows for
refused requests too, but above the limit all values are alike, so the model stops there.
`passed` remembers when the process let requests through: it is what the two
properties of the limiter are about and no guard reads it.

In `Gateway` a request occupies a slot. Its gateway side is answered at once (`Unauthorised`,
`RateLimited`, `NoRoute`) or proxied (`Forward`); its service side is delivered, routed by the
service's own router and handled, and goes on when the gateway has given up on it. `Relay` copies the
reply; `BadGateway` is the proxy's `ErrorHandler` for whatever cause: connection refused or broken,
time-out, a body above the limit. The `Timeout` middleware would write 504 after the `ErrorHandler` has
written 502, so the client sees 502. A path is the sequence of its segments: `ForwardedPath` joins
the target's path and strips the prefix the way the director does, and `Routed` decides what the
service's router makes of the result. What a handler does is `PaymentApi`'s and `LedgerQueries`'
subject; here it takes effect (`HandlerCommits`) and replies (`HandlerEnds`) in two steps, between which its process may
end and the gateway may give up, and 400 stands for all of its own refusals. `Sigterm`,
`ShutdownEnds`, `Crash` and `Start` are the `main` functions; since the grace period (10 s) is shorter than a
handler's time (15 s), `ShutdownEnds` may cut requests off.

## 3. Runs

| Run | Result | What it shows |
| --- | --- | --- |
| `outbox_safety` | pass | `ClaimsExclusive`, `PublishedWasDelivered`, `CopiesWithinAttempts`, `StrandedNeedsFault`, `PublishedIsFinal`, `StrandedForever`, `DeliveredOrStranded` |
| `outbox_stranded` | violation | `EventuallyDelivered`: see finding 1 |
| `consumer_safety` | pass | `BookedAtMostOnce`, `ConsumedIffBooked`, `NoSilentLoss`, `DeadLetteredAfterAttempts`, `ReadsAreWhole` |
| `consumer_liveness` | pass | `EventuallySettled`, `EventuallyBooked` |
| `api_calls` | pass | `RetrySafe`, `ConflictIsReal`, `OutboxMatchesPayments`, `UpdateHolds`, `ImplementsPaymentLedger`, `EventuallyAnswered` |
| `api_repeat` | violation | `RepeatingStatusAllowed`: see finding 2 |
| `migrations` | pass | `SchemaMatchesRecord`, `DoneIsMigrated`, `LockedJobsDoNotClash`, `AllOrNothing`, `EventuallyMigrated` |
| `replay_safety` | pass | `ReplayExclusive`, `SucceededWasRepublished`, `SucceededIsFinal` |
| `replay_retry` | violation | `FailedReplayRetryable`: see finding 3 |
| `pipeline` | pass | `ImplementsPaymentLedger`, `AccountedFor`, `ReplayedOnce`, `BalancesAddUp` |
| `gateway` | pass | `LessThanTwiceLimit`, `RefusedOnlyWhenExhausted`, `AnswersAreHonest` |
| `gateway_routes` | violation | `DocumentedEndpointsServed`: see finding 4 |

The runs `outbox_safety`, `consumer_safety`, `api_calls` and `migrations` also check
their module's `TypeOK`; that of `DeadLetterReplay` is proved only. Run one with
`tlc -config OutboxSafety.cfg MCOutboxPublisher`.

### Bounds, and why they are enough

* Two publishers, three events, batches of two: a claim can find some rows locked,
  some held, some free, and a batch can be smaller than the backlog. Conflicts are
  between pairs of publishers. Every fault may happen once; a second fault of a
  kind reaches no new relation between a row, its holder and the topic, and the
  proofs cover any number. A call of the Kafka client has two tries (`WriteAttempts = 2`; the client's default is
  ten), so the one try that may fail is followed by another in the same call, or ends the call, with or without a
  copy. The oldest event can never be written
  (`Unwritable = {1}`): its row stands at the head of every poll and takes one of the two places of every batch for
  ever. `DeliveredOrStranded` is checked with all of this. Its hypothesis is the best possible: two such rows
  would fill the batch of two, and then the third is never claimed. The refused row's attempts are counted up to
  `MaxRefusals = 1`; no property looks at how often a row was refused that is never written.
  496,820 distinct states.
* Two consumers, two partitions, three deliveries: enough for one event to be in the
  hands of a zombie and of the new owner, delivered a third time, and followed by
  another message on the same partition or not. Two attempts with two database
  errors: an outage that uses up the attempts, and a lost commit followed by a
  retry, both happen. The safety run has two payments of different amounts and a message
  without event id; the liveness run has one payment and all other kinds, malformed JSON
  and an invalid movement among them.
  In the liveness run the database fails once, less often than a message has
  attempts: the assumption `EventuallyBooked` is about. `EventuallySettled` does
  not need it. Every run of the consumer has one Kafka error: a dead-letter write that fails or is made twice.
* Three calls: two that race and a third that meets what they left (for updates:
  one that created the payment and two that race on it). Two amounts and two
  spellings of one currency tell a faithful retry from a changed one; 0 and
  an unknown currency are rejected. One call may fail, with or without effect.
* Two migration jobs with any of five directories (two releases, two files of one
  version, a failing file, a malformed name), on an empty or an already migrated
  database, two faults and the Job's real `backoffLimit` of 3. One collision and
  two faults use up the retries exactly. The directories are those of successive
  releases: a file with a lower version that comes in a later release would be applied
  out of order, which the code does not rule out.
* Three replay runs over two records with two faults: a run that fails, one that
  races and one that retries.
* One payment in the pipeline with one publisher and one consumer: what the composition is about is
  copies of one event over time, and the components' own runs have the concurrency. The event can be on the
  topic up to four times: written twice by the publisher, in one call or in two, and twice by the replays, by one
  whose client tries again or by one that fails and another that follows. Two failing database calls send two
  of the copies to the dead-letter topic. The windows are a topic
  retention of one day and replays and rewrites on the same day, so that `ConsumedRetention = 3` and
  `ReplayRetention = 1` are the smallest values `WindowsAssumption` allows, and the calendar of four days lets
  every row grow old enough to be deleted. The constraint `FirstDay` starts the calendar on the day of the first message: what
  is first written later would repeat the same states with fewer days left, since a row that waits has no time and only differences of
  days are compared. 1,316,388 distinct states. With `ConsumedRetention = 2`, or if a row exactly as
  old as its retention were deleted, the model books a payment twice, so the bound is tight.
* One client with a limit of two in a window of two ticks, on a clock of four: the window's
  boundary is crossed once. Three requests pass within one window's length then, which is the
  most `LessThanTwiceLimit` allows. Two requests at a time, of five kinds (a payment, a query, no key, no route,
  wrong method, one of them through a named proxy); one process of the three stops once, with or
  without grace, also after a handler has committed and before it has replied.

CHECK_DEADLOCK is on everywhere but in `pipeline`, whose calendar ends. The stuttering steps `ClaimNothing`,
`FetchWaits`, `Idle`, `AllEnded` and `Quiet` are what the processes really do when there is
nothing to do: poll, wait for a message, wait for a request, have ended.

### Fairness

* `OutboxPublisher!FairSpec`: weak fairness of each publisher's loop. `Run` polls on
  a ticker that never stops; `docker-compose.yml` has `restart: unless-stopped` and
  Kubernetes restarts the pods, so `Restart` is part of it. No fault is fair, and
  each is finite: Kafka and PostgreSQL come back eventually. A refusal of an `Unwritable` row is not a
  fault in this sense: it happens on every poll, without a bound.
* `LedgerConsumer!FairSpec`: weak fairness of handling and restarting; weak fairness of
  assigning an unowned partition (the coordinator's job); strong fairness of
  fetching from each owned partition, since a consumer alternates between fetching
  and handling and the reader serves all of its partitions. Writes to the dead-letter topic fail finitely often here: a
  record that can never be written there blocks its partition for good, since `Run` ends with the error and the message
  is fetched again after the restart.
* `PaymentApi!FairSpec`: weak fairness of each call that has begun (a goroutine of its
  own). Nothing forces a call to begin. A commit is never delayed for ever because
  the handler's next step is that commit.
* `Migration!FairSpec`: weak fairness of each job, with the restart by the Job controller.

The gateway has no liveness property: that a request ends is what its fifteen-second `Timeout` does by itself, and no
step of a service is fair, since it may hang or stay down.

### Findings

1. **A publisher that stops after its claim has committed strands its rows.**
   `infrastructure/resilience/README.md:21` states for every experiment, the deletion of
   the publisher's pod among them: "Exactly two balanced ledger entries eventually
   become readable for that payment." `ClaimPending` selects `pending` and `failed` rows
   only, so a row left in `publishing` is never selected again (`StrandedForever`,
   proved). The same happens when `MarkFailed` fails or the answer to the claim's
   commit is lost; it does not happen by a Kafka outage alone (`StrandedNeedsFault`,
   proved).
2. **Repeating a status may be answered 404.** `README.md:328` says "repeating the
   current status is allowed". Two concurrent updates to one status both read
   `pending`; the second conditional `UPDATE` matches no row, which `scanPayment`
   reports as not found.
3. **A failed replay may not be retryable.** `scripts/README.md:58` says "A failed
   replay may be retried." If the audit update fails after the write failed (one
   thirty-second context covers both), its error is dropped, the row stays `started`
   and every later run is refused.
4. **Payment requests through the gateway are answered 404.** `README.md:213` says "Send API requests
   through the gateway on `localhost:8088`". The payment proxy strips `/api/v1`
   (`services/gateway-service/cmd/api/main.go:35`), and every shipped `PAYMENT_SERVICE_URL`
   (`docker-compose.yml:135`, `infrastructure/kubernetes/configmap.yaml:14`, `.env.example:21`) has no path,
   so `/api/v1/payments` is forwarded as `/payments`, which the payment service does not serve. The ledger's
   proxy strips nothing and works. The run `gateway` uses a target that ends in `/api/v1`, with which payment
   requests reach their handlers.

How long rows must be kept (no run of its own). `infrastructure/postgres/README.md:64` asks that the
consumed-event retention exceed "Kafka topic retention plus the maximum replay window and
incident-response buffer". A copy that is dead-lettered after its wait on the topic is replayed to the
topic and waits there again, so each replay adds its window and one more topic retention.
`WindowsAssumption` therefore asks for the incident window, one topic retention, and both
the replay window and the topic retention for every possible replay. The audit row of a replay, which keeps
the event from being replayed again, is needed for an incident window, a topic retention and a replay window:
the publisher may write the event once more after the replay has succeeded, and that copy may be dead-lettered too.
Without the incident window `ReplayedOnce` is false; TLC finds a behaviour of 43 states with `IncidentWindow = 2`,
`TopicRetention = 0`, `ReplayWindow = 0`, `ReplayRetention = 1`, `ConsumedRetention = 2` and `MaxDays = 3`. With the defaults (90 days, Kafka's
usual seven) there is a wide margin, but the sum in the document is not sufficient in general. The configured ages have no
lower bound in the code.

## 4. Proofs

Every theorem below is a statement about `Spec` for every value of the constants that the
module's assumptions allow: any number of processes, events, partitions, clients and faults.
TLC evaluates the assumptions in every run. They say what kind of values the constants are and
that `None` is none of the others; the few that say more are named with the theorems.

| Module | Theorem | States that `Spec` implies |
| --- | --- | --- |
| `OutboxPublisherProofs` | `TypeCorrect`, `ExclusiveClaims`, `PublishedDelivered`, `StrandedBlamed`, `CopiesBounded` | `[]` of `TypeOK`, `ClaimsExclusive`, `PublishedWasDelivered`, `StrandedNeedsFault`, `CopiesWithinAttempts` |
| | `PublishedFinal`, `StrandedStays` | `PublishedIsFinal`, `StrandedForever` |
| `LedgerConsumerProofs` | `TypeCorrect`, `BookedOnce`, `BookingAtomic`, `NothingLost`, `GivenUpAfterAttempts` | `[]` of `TypeOK`, `BookedAtMostOnce`, `ConsumedIffBooked`, `NoSilentLoss`, `DeadLetteredAfterAttempts` |
| `LedgerQueriesProofs` | `ReadsWhole` | `[]ReadsAreWhole`, if `OneMessagePerPayment` |
| `PaymentApiProofs` | `TypeCorrect`, `RetriesSafe`, `ConflictsReal`, `OutboxMatches`, `UpdatesHold` | `[]` of `TypeOK`, `RetrySafe`, `ConflictIsReal`, `OutboxMatchesPayments`, `UpdateHolds` |
| | `Refinement` | `ImplementsPaymentLedger` |
| `DeadLetterReplayProofs` | `TypeCorrect`, `OneRunAtATime`, `SuccessIsReal` | `[]` of `TypeOK`, `ReplayExclusive`, `SucceededWasRepublished` |
| | `SuccessIsFinal` | `SucceededIsFinal` |
| `MigrationProofs` | `TypeCorrect`, `RecordMatches`, `SuccessIsMigrated`, `NoClash` | `[]` of `TypeOK`, `recorded = VersionsOf(schema)`, `DoneIsMigrated`, `LockedJobsDoNotClash` |
| | `VisibleTogether` | `AllOrNothing` |
| | `SchemaInOrder` | `[]SchemaMatchesRecord`, if `ReleasesGrow` |
| `GatewayProofs` | `TwiceLimitNever`, `RefusalEarned`, `HonestAnswers` | `[]` of `LessThanTwiceLimit`, `RefusedOnlyWhenExhausted`, `AnswersAreHonest` |
| `PipelineProofs` | `AllAccounted`, `ReplaysOnce`, `BalancesExact` | `[]` of `AccountedFor`, `ReplayedOnce`, `BalancesAddUp` |
| | `Refinement` | `ImplementsPaymentLedger` |

### Publisher

`ClaimsExclusive` is not inductive: it says nothing about a claim whose
transaction is open, so a second claim could take the same rows. `IInv` adds what the
code relies on:

* `LockedClaimable`: rows of an open claim are still `pending` or `failed`, since only
  the holder marks a row;
* `HeldPublishing`: rows of a committed claim are `publishing`;
* `OthersEmpty`: nobody else holds anything;
* `CurrentHeld`: the row between write and mark is in the batch.

A new claim is disjoint from every batch because locked rows are skipped and held
rows are not claimable; `Oldest` only picks a subset. `WrittenDelivered` links the
write to the mark, and gives `PublishedWasDelivered`. Topics only grow
(`WriteFacts`), so what is delivered stays so. A published row is in nobody's batch
(`PublishedUnheld`) and a row in nobody's batch is changed by no step (`UnheldRow`),
which gives both action properties: the marks need no status guard.
`StrandingStep` shows that only a stop, a failing mark or an unconfirmed claim leaves
a row in `publishing` without a holder, and `FaultsCounted` that these are counted.

For the bound on copies, a claim pays for one call of the Kafka client and a call for `WriteAttempts` copies
(`Paid`). `CopyInv` says of a claimed row whose call is still to be made or finished (`Unwritten`) that its
copies and those the call may still leave (`Left`) are paid for. The claim's increment establishes that; each try
within the call moves one copy from what is left to what is there, acknowledged or not. `CallInv` bounds the tries
of an open call. `Unwritable` rows are exempt, because their attempts need not be counted exactly: they are never
written.

### Consumer

There are three inductive invariants. `HandInv` is the type invariant with
`WorkExists` (a busy consumer holds a message that is on the topic) and
`BookingBookable` (one that has entered `RecordPaymentMovementOnce` holds a message
with an event and money): without them the type of a booking cannot be shown. `BookInv`
adds to `BookedAtMostOnce` and `ConsumedIffBooked` what a commit needs:

* `TxExclusive`: the event of an open transaction is not consumed, and no other open
  transaction has it. The insert establishes it because it waits while the event is
  locked and affects no row when the event is there (`InsertBook`); a commit elsewhere
  keeps it because it consumes a different event (`CommitBook`);
* `AccountsReady`: a consumer past an `EnsureAccount` call finds that account in the
  table; accounts are never removed (`EnsureBook`).

Every other step writes nothing to the ledger and brings no consumer further with a
booking (`BookKept`). Zombies, rebalances and restarts need no case of their own: the
argument never mentions who owns a partition.

`LossInv` carries `NoSilentLoss`. A commit writes an offset that may be behind or ahead of the
committed one, so the invariant speaks of everything in front of a message in hand: it is settled
(`BeforeHandDone`), so is what is behind the position of a live owner (`FetchedDone`), and a consumer
that is about to commit has settled its own message (`CommittingDone`). Settled messages stay
settled, because topics, journal and dead letters only grow (`TopicGrows`).

### Queries

`ReadsAreWhole` equates two sums over sets that differ in kind, rows of an account and messages on the topic, so
the proof needs to know what adding one element does to a sum. `SumFunction` is defined by recursion over
the subsets of a finite set, taking out a chosen element each time. `SubsetInduction` is induction over these
subsets, stated for sets (a set of subsets that contains every subset whose strict subsets it contains is all
of them) rather than for predicates, and follows from the well-foundedness of the strict subset relation. With it:
the recursion has one solution (`TotalExists`, `AddsUpUnique`), whichever element is taken first (`AnyFirst`), hence
`SumType`, a sum of integers is an integer, and `SumGrows`, a new element adds its value.

`ReadInv` says of every currency that both balances are `BookedAmount`, that all sets summed over are finite, and
that every transaction is that of a bookable message on the topic. A commit adds one row to each of the two accounts and one message to the
booked ones, all of one amount (`BalanceAdded`, `MessageAdded`, `CommitReads`). The message is one even if it is on
the topic many times: `OneMessagePerPayment` makes all bookable messages of an event equal (`TopicUnique`). A
step that writes nothing to the ledger may lengthen the topic, by messages that are not consumed or are there already
(`ReadsKept`). An account upserted ahead of its
transaction has no rows and balance 0, as it has before it exists. The entries of a payment need no sum:
`BookedAtMostOnce` leaves one transaction, whose entries are one movement (`EntriesWhole`).

The hypothesis `OneMessagePerPayment` is about the messages that come from the other service, which
`PaymentApi` and `OutboxPublisher` write. `MCLedgerConsumer` assumes it and TLC evaluates it; in the pipeline
nothing of the kind is assumed.

### Payment API

The actions are first sorted by what they do (`Begins`, `MovesOn`, `AnswersOnly`, `CommitsCreate`,
`CommitsUpdate`; `NextForms`), so that each invariant is proved for five kinds of step. `CallInv` says what
the place of a call tells about it. `KeyInv` holds the keys together: a key that a call has inserted belongs to
no payment and to no other open insert (`KeyExclusive`, the unique index makes the second insert wait), so no
two payments have one key, and an answer to a create names the payment that has its key.
`RowInv` does the same for rows: of the calls that have updated a row one at a time has its
transaction open and the row is pending until its commit (`RowExclusive`), hence one `status_changed` event
per payment, and a status that was answered 200 is terminal. The refinement needs no more: a commit of a create
is `Accept`, one of an update is `Settle`, every other step stutters.

### Replay

`ReplayInv` treats the row with status `started` as a lock. The claim is one conditional statement and
`FinishReplay`, which has no status guard, is reached only by the run that holds the row; that is why no guard is
needed for `SucceededIsFinal`.

### Migration

`MigrationInv` rests on the advisory lock: only its holder has read the record, so what it read as
applied is what is recorded until it commits (`ThroughWith`), and the one file that has run and is not recorded yet
is the next to be recorded (`Recording`). For jobs with arbitrary directories this gives all but the order of the
schema. The order is not a property of the code alone: a file with a low version that a later
release adds is run after the higher ones. `SchemaInOrder` has the hypothesis `ReleasesGrow`, that releases
only add versions above the ones shipped; `MCMigration` assumes it and TLC evaluates it.
`OrderInv` then shows that no directory has an unrecorded version below a recorded one (`NothingSkipped`).

### Gateway

The history `passed` has to be related to the bucket: the bucket's requests are the last ones of the
history, the first of them opened the window, and the request `Limit` places before it is a window older
(`BucketIsLast`). Two windows that follow each other then hold at most `2 * Limit` requests, and a span that contains
all of these is as long as a window (`Apart`, which is `LessThanTwiceLimit` in inductive form). A refused
request means a full bucket whose first request is within the window. The
answers need, per slot, what a reply says of the effect, and that a request that was answered otherwise than by giving
up on the service is not under way any more (`SlotInv`); that covers the handler that goes on, and may commit, after the
gateway's time-out, and the one that has committed and not replied.
`GatewayAssumption` says that the client of every request is one of `Clients`.

### Pipeline

The proof reuses the components' lemmas. `Pub` and `Con` are instances of the proof modules, so that their
inductive invariants are conjuncts of the composition's `PipeInv`, and a publisher's or consumer's step has to be
shown a step of the component (`PublisherIsPub` and its like). For the consumers that is false as it stands: retention
deletes rows of `consumed_ledger_events`, and no step of `LedgerConsumer` does. `Con` therefore reads, in place of
that table, `Ever`, the events in the journal, which are never forgotten. A consumer of the pipeline
behaves like that one as long as the table has every event of which a copy can still arrive.

`TimeInv` shows that it has. Messages older than the topic's retention are behind the group
(`ExpiredPassed`); the publisher is through with an event one incident window after its first copy
(`PublishedInTime`); no copy is written later after another one than the incident window and, for each replay that
has written or may have (`Spent`), one replay window and one topic retention (`CopiesClose`, with `Reach`); a
replay that writes several times within its call stays that close each time, because no other replay of its event
can be at work (`WritersNear`, `WritersAlone`); a dead letter was fresh when
it was written (`LettersFresh`). So an event that was booked is in the table, or every copy of it is
too old to be delivered (`BookedKnown`), and this is where the retention periods have to satisfy
`WindowsAssumption`. `SuccessKept` is the same argument for the audit rows: a replay that succeeded is in the table, or
no copy of its event can be dead-lettered and replayed any more. `FlowInv` says that the row, the messages, the
dead letters and the bookings of one payment all carry its money, which the refinement needs for `Book`.

`BalancesExact` closes the circle between the API and the reader: both balances of a currency are the sum of what
was accepted and is booked. `MoneyInv` is its inductive form. Only a consumer's commit
changes it, and it books a payment that was not booked, for the money with which it was accepted
(`CommitBooksNew`, which the refinement uses too); `BalanceAdded` and `SumGrows` of the queries do the rest (`MoneyCommit`).
A payment that is booked has been accepted (`BookedAccepted`) and keeps its money (`MoneyKept`).

Assumptions beyond types: `WindowsAssumption`, `IsFiniteSet(Replays)`, and what the retention
command insists on.

### Only model-checked

* Liveness under fairness, which is out of the prover's reach: `DeliveredOrStranded`, `EventuallySettled`,
  `EventuallyBooked`, `EventuallyAnswered`, `EventuallyMigrated`.
* The four findings, which are counterexamples.

## 5. Not modelled

* Observability and Kafka client set-up: no decision of the program reads the former, and the latter is handed
  to the library once at start-up. Response headers and the health, readiness and metrics endpoints
  change nothing.
* Reading and parsing environment variables. What `Validate` of the gateway and `loadConfig` of
  retention insist on are assumptions of `Gateway` and `Pipeline`.
* PostgreSQL and Kafka are
  modelled only through what the code uses of them: row and unique-key locks,
  atomic commit, append, group assignment and committed offsets.
* Legacy payments with an idempotency key and no request hash: the migration that adds the
  column leaves it NULL, and `Create` then reports a conflict for a faithful retry. The
  model starts from an empty table.
* Requests that are rejected before any state is read (malformed JSON, an id that is no
  uuid, over-long fields) are represented by one cause of 400 each for create and update.

Remarks made while reading, that no run is about:

* **A topic on both the writer and the message.** The publisher names the topic on its writer
  (`outbox_publisher.go:66`) and again on every message (line 149); so do the dead-letter publisher
  (`dead_letter.go:60` and 109) and the replayer, which uses the same constructor (`replayer.go:61`). As far as is
  known, the `Writer` of kafka-go v0.4.51, the version in both `go.mod` files, refuses every message that names a topic
  when the writer has one of its own, before it contacts a broker. The client is not part of this repository, and the tests use
  writers of their own, so neither shows whether it does. If it does, nothing is ever published: in the model that is
  `Unwritable = EventIds`, where every row is refused, marked `failed` and claimed again for ever.
  `DeliveredOrStranded` says nothing about that case, since its hypothesis is about fewer unwritable rows than a batch;
  the safety properties hold in it. A dead letter could not be written either, and its partition would be blocked;
  `EventuallySettled` and `EventuallyBooked` assume that this is not so, and `Pipeline` that rows can be written.
  One of the two topics should be dropped in each place.
* The currency is checked to be three bytes of upper-case letters in the payment service and
  again, by its own rule, in the ledger service.
* The limiter's map of clients is never emptied: a client seen once keeps its bucket until the
  gateway restarts. `X-Forwarded-For` is taken as the client's name as it comes.

## 6. Plan

Done: all components of the inventory that decide anything, their composition, its abstract specification, and the
proofs of section 4: every safety property that a passing run checks is a theorem.

Next, in this order:

1. Theorems about `Retention` by itself: only rows that are done are deleted, a lemma inside
   `PipelineProofs` now (`SweepFacts`), and one run at a time.
2. Shorter proofs where one lemma could serve several components (steps of one process that leave the
   others alone).
