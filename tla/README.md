# Verification of wakuwaku

TLA+ specifications of the parts of [wakuwaku](../src/README.md) whose
correctness depends on the order in which things happen, the TLC runs that
model-check them, and theorems about them that TLAPS checks.

Contents: [the system](#the-system), [modules](#modules), [runs](#runs),
[bounds](#bounds), [fairness](#fairness),
[disagreements with the documentation](#disagreements-with-the-documentation),
[theorems](#theorems), [abstractions](#abstractions),
[not modelled](#not-modelled), [what is left](#what-is-left).

## The system

wakuwaku is a framework of four crates: `wakuwaku` (services, effects),
`wakuwaku-entity` (Redis, SQL, Meilisearch), `wakuwaku-iggy` (keyed events) and
`wakuwaku-proof` (values that carry evidence).

| Component | Source | State | Operations | Modules |
|---|---|---|---|---|
| partition task | `wakuwaku-iggy/src/consumer/runtime.rs` | two cursors, two stored offsets (on the Iggy server), the retry backlog | `run`: boot, drain the retry partition, run due keys, commit, poll, execute or divert, write retry records, store | `PartitionConsumer`, `KeyExecution` |
| retry state | `consumer/retry.rs` | pending records, failed attempts and due time of each quarantined key | `enqueue`, `due_keys`, `finish`, `committable` | `PartitionConsumer`, `KeyExecution` |
| runtime handle | `consumer/runtime.rs`, `consumer/handler.rs` | partition tasks, shutdown watch | `start`, `shutdown`, `abort` | `ConsumerStart`, `PartitionConsumer` |
| batch planner | `partition/plan.rs` | none; one walk over a batch | `Plan::new` | `Plan`, `Planner` |
| stage execution | `consumer/execute.rs` | runs of the stage being executed | `execute_key` | `KeyExecution`, `PartitionConsumer` |
| handler runs | `consumer/handler.rs` | the chunk being handled | decode, reduce, `handle_events` | `RunHandling` |
| algebras | `partition/algebra.rs` | none | `reduce` | `RunHandling` |
| retry encoding | `consumer/encode.rs` | none | `encode_key`, `stage_orderings` | `Plan`, `KeyExecution`, `RunHandling` |
| headers | `events/headers.rs`, `events/mod.rs` | none | `to_map`, `parse` | `Headers` |
| publisher | `events/publisher.rs` | none | `publish`, `publish_batch` | `Publisher` |
| cron jobs | `wakuwaku/src/services/cron_job.rs` | schedule, running ticks, stop channel | serial, spaced, overlapping schedules, `shutdown`, `abort` | `CronJob` |
| transaction flow | `wakuwaku-entity/src/sqlx/` | open transaction, `aborted`, commit result; the pooled connection | `run`, `with`, `end`, `close`, the hook | `TxFlow` |
| locks | `redis/collection/lock.rs` | lease keys in Redis, tokens | acquire, extend, release of `Lock` and `RwLock` | `RedisLock`, `LeaseLock` |
| token bucket | `redis/collection/token_bucket_limiter.rs` | tokens and timestamp in Redis | `acquire`, `reset` | `TokenBucket` |
| cache | `redis/collection/cache.rs` | body, hash, TTL in Redis | get, put, remove, get if changed | `RedisCache` |
| live view | `redis/dynamic/live_view.rs` | head and history stream in Redis | create, get, commit, remove, subscribe, resume, receive | `LiveView` |
| stream buffer | `redis/dynamic/stream_buffer.rs` | stream in Redis | append, finish, remove, subscribe, receive | `StreamBuffer` |
| pipe | `redis/dynamic/pipe.rs` | two lists in Redis | send, close, receive | `Pipe` |
| search sync | `wakuwaku-entity/src/meilisearch/sync/` | live index, copy, task queue | reindex after a write, rebuild | `MeiliSync` |
| value proofs | `wakuwaku-proof/src/` | none | check, combine, derive | `ValueProofs` |
| queries, capabilities, builder | see [below](#not-modelled) | none | | |

How the parts interact. Publishers append events to the partitions of a main
topic on an Iggy server. For each partition one task polls main events and its
own retry topic, plans a batch (planner), executes the plans of all keys
concurrently (stage execution, which calls the registered handlers), and
encodes what failed as retry records. All keys of a batch finish before the
next step of the task, so the task itself is sequential; what is concurrent is
producers, the runs within a stage, time, shutdown, and the crash or abort that
can fall between any two steps. The Redis collections and the search sync are
used by many processes at once and share state only through the servers, one
script or request at a time. Cron jobs share nothing but the channel that stops
them. A transaction flow owns its connection, which goes back to a pool.

What is hard about it, and what makes it correct:

- **Consumer.** Two offsets, one memory and one external log must agree after
  every crash: nothing committed may be lost (at least once), nothing may
  reach a handler again without the retry partition (at most once), and no
  event may overtake an earlier one of its key and type, although failed
  events leave the main log and come back later.
- **Planner and encoding.** The plan weakens log order as far as the headers
  allow; unfinished work is rewritten with other headers, planned again with
  later events behind it, and must still respect the original headers.
- **Runs.** A run is reduced, cut into chunks, repeated, written back and
  reduced again behind other events; its effect must stay the same.
- **Start.** Processes that start together race to create the retry topic, on a
  server where partitions are being added.
- **Cron jobs.** Runs on a grid with late wake-ups, overlapping runs that are
  reaped meanwhile, and a stop at any point.
- **Transaction flow.** The report must agree with what the database did when
  a statement aborted the transaction, the answer to `COMMIT` is lost, or the
  future is dropped between two statements.
- **Redis.** Every script is atomic, but leases and keys expire, replies are
  lost, clocks step back and clients act on what they read before.
- **Search sync.** Reindexing and rebuilding write to one index in task order,
  from rows read at different times, and each task may fail later.
- **Value proofs.** Laws rearrange evidence and check nothing again.

`PROJECT.json` lists each hazard with its line and the properties that cover it.

## Modules

### Events

**`KeyedDelivery`** is the abstract specification of the at-least-once mode:
events are published; some are settled (accepted by a handler or given up), in
lane order, each once; all are settled in the end. A lane is the events of one
key and one type.

**`PartitionConsumer`** is one partition task with many keys. Its state is the
Iggy server (`published`, `retryLog`, `mainStored`, `retryStored`), the task
(`pc`, cursors, the `RetryState`), the batch in flight, and a history of what
happened to events (`applied`, `reapplied`, `dropped`). `pc` follows the body of
`run`:

| `pc` | action | code |
|---|---|---|
| boot | `Boot` | both calls of `stored_cursor` |
| drain | `DrainRetry`, `DrainDone` | `drain_retry`, a non-empty and an empty poll |
| due | `StartAttempts` | `run_due` up to `join_all` |
| attempt | `ChunkDone`, `RunFailed`, `FinishAttempts` | `handle_events`, `RetryState::finish` |
| commit | `CommitRetry` | the store after `run_due` |
| poll | `PollMain`, `PollNothing` | the main poll, the idle wait |
| claim | `Claim` | the store before `process_main`, at most once |
| plan | `StartBatch` | `parse` and the quarantine decision |
| execute | `ChunkDone`, `RunFailed`, `FinishBatch` | `execute_key` |
| encode | `DivertKey`, `RetryFailedKey`, `DropFailedKey`, `SkipFinishedKey`, `SendRetry`, `SendRetryUnacknowledged` | the loop over keys, `send_retry` |
| store | `StoreMain` | the store after `process_main`, at least once |

`Elapse` is time, `RequestStop`, `StopTask` and `Restart` are a graceful
shutdown, `Crash` is a crash or `abort`. Positions and offsets are counts of
records, so that "nothing stored" is 0. Events here are `Relaxed` and do not
reduce, so a plan is one segment of independent runs per key.

**`Plan`** holds the planner and the encoding as pure operators; `Assign` is one
turn of the loop of `assign_segments`, `PlanOf` a whole batch (a recursive
function), `Encode` what `encode_key` writes. The index vectors that
`Plan::new` builds by sorting are replaced by the sort keys: a record's segment
and its rank. **`Planner`** lets a batch grow record by record, so its reachable
states are the plans of all batches.

**`KeyExecution`** is the composition of planner, stage execution, encoding and
retry state for one key whose events have every ordering, over any number of
failures, diversions, attempts and crashes, in at-least-once mode. The other
keys appear only through the backlog, which they may fill at any time.
Handlers take one event per call.

**`RunHandling`** is one run: decoding, reduction, the chunks of
`handle_events`, the three classes of errors with the repetition of a transient
one, and the way through the retry partition. When a batch fails, the chunk and
what follows it is written there (`ChunkToRetry`); later events are diverted
behind it (`Divert`) and reduced together with it. When an attempt fails
(`AttemptFails`) all records of the run stay, as in `RetryState::finish`, so the
next attempt begins with the chunks that this one had handed over already; the
ghost `repeated` has their events. The last attempt gives up what it did not
hand over (`GaveUp`). An event is the sequence of the values it consists of;
`EffectOf` says what a law lets a reader of these values see.

**`Headers`** is the codec of the header map, with bytes as digits of a small
base, and with every way a foreign message can differ from a written one.
**`Publisher`** has several publishers whose sends fail before or after the
server stored the messages. **`ConsumerStart`** is `start` in several
processes: each request to the server is a step, so topics are created and grow
between them.

### Redis

Each module has the keys as the server has them, one action per script or
command, one per step of a client that waits, and a `Tick` that is a
millisecond: times to live are relative and count down (**`RedisServer`**).
A reply may be lost where the code's caller would not know.

**`RedisLock`** has the string keys of `Lock` and of the writer, the sorted set
of readers with its own expiry, and the tokens of the clients with the lease
they were told of. A reply that is lost (`Receive`) leaves a lease of nobody,
and a token may be dropped without a query. **`LeaseLock`** is the abstract
specification: a set of running leases. A lease is granted if and only if no
running one clashes with it, ends by itself or by its own token's release, and
a renewal succeeds only while it runs. The refinement mapping reads the leases
off the keys (`ServerLeases`), without readers that are over but still in the
set.

**`TokenBucket`** counts in units so small (`Grain` for each microsecond of the
period) that the error of a double can be said in them: whatever the script
computes from a sum or a quotient is off by up to `Rounding` units in either
direction, and each request that finds the clock moved on may add such an error.
It keeps the distance of the clock from the hash's `ts`. The ghost `level` is an
ideal bucket and `drift` what the roundings may add up to; what the script admits
is compared with both. **`RedisCache`** has one
item of each cache and a reader with a copy. In **`LiveView`** a body is the
sequence of the edits that made it, so that "the right body" can be said;
`ViewRead` is a blocking read, `ViewRecv` hands out one parsed entry.
**`StreamBuffer`** has the three places where `recv` can stand, a read of any
part of what is there, and bodies that their reader cannot parse: `recv` takes
the entry, fails, and goes on behind it when it is called again. A blocked reader
is woken in the append that it waits for. **`Pipe`** has the two
lists and the receivers, one after the other, which may fail with a message.

### Services, SQL and search

**`CronJob`** is one job of any schedule: `loop` is where its task stands, a
wake-up may be late because the clock runs on, and runs end at any time. The
select is two steps, the poll of the stop channel (`Poll`) and the look at the
clock (`StartRun`, `NotDue`), as `shutdown` may be called between them from
another thread.
**`TxFlow`** follows `drive`: `at` names the await it stands at, and dropping
the future (`DropFuture`) is possible at each. The server's side is
external: Postgres refuses statements after an error, MySQL rolls back by itself
on a deadlock and runs what follows outside of the transaction. The next flow
gets the same connection. **`MeiliSync`** has the rows, Meilisearch's queue
and its two indexes, writers whose hook is an `Indexer` (load, then request)
and a rebuild (drop, create, settings, pages, swap, drop). Three ghosts say for
which keys the index may be behind: `doubt` has those whose hook or task failed,
or that changed while a rebuild copied its pages, `crossed` those of which an
older load was applied after a newer one, and `exposed` those of which two hooks
overlapped or one failed.
**`ValueProofs`** applies every law of `boolean_algebra.rs`, at any place they
fit, to the checked proofs of all propositions up to a depth.

### Instances and proofs

`MCPartitionConsumer` assigns keys and types for TLC. `MCRedisStructures` and
`MCParts` put modules that share no state side by side: the variable `part` picks
one per behaviour, the others stand still, so the instance has the sum of their
states and not the product. `MCParts` fixes one of the interchangeable subjects
of `ValueProofs`.

Theorems stand in eight modules: `PartitionConsumerProofs` and, on top of it,
`ConsumerCursorProofs`; `PlanProofs` with what is proved of the operators of
`Plan`, used by `KeyExecutionProofs` and by `EventPartsProofs` (`Planner`,
`ConsumerStart`, `Publisher`, `Headers`, `RunHandling`); `ServicesProofs`
(`CronJob`, `TxFlow`, `MeiliSync`, `ValueProofs`); `RedisCollectionProofs` (locks, bucket,
cache); and `RedisDynamicProofs` (live view, stream buffer, pipe).

Definitions whose comment says "Mutant", and in `PartitionConsumer` those that
precede a definition they differ from in one place, are slips the code could
contain; nothing uses them. Each checked property fails when the definition is
replaced by its mutant (`PROJECT.json`, "mutants"), so each run shows something
about the code.

## Runs

| Run | What it shows |
|---|---|
| `consumer_at_least_once` | a crash anywhere: `NoLoss`, `RetryCommitSafe`, `QuarantineHolds`, and the refinement `ImplementsDelivery` of `KeyedDelivery` |
| `consumer_at_most_once` | two crashes, a graceful stop, a lost acknowledgement, an unparsable record: `OnlyRetryRepeats`, `SettledInOrder` |
| `consumer_faults` | a crash, a stop and a lost acknowledgement together, under fairness: `NoLoss`, `ShutdownCommits`, and `NothingWaitsForEver` (every event is settled, every quarantine ends) |
| `key_execution` | one key with any orderings, a crash anywhere, under fairness: `DemandsKept` (what the headers demand, through failures and attempts), `NothingForgotten`, `EventuallySettled` |
| `parts` | planner: `RespectsOrder`, `FencesBothWays`, and the same after rewriting, `ReencodingKeepsDemands`; headers: `HeadersExact`; publisher: `PublishedAsTold`; runs: `EffectKept`, `RunEnds`; start: `StartedCanRun`; cron: `CronSpacing`, `StopIsObeyed`, `ShutdownWaits`, `ShutdownEnds`; transactions: `AllOrNothing`, `ReportTrue`, `NamedLevelHolds`; search: `IndexTrue`, `RebuildEnds`; value proofs: `EvidenceSupports` |
| `redis_structures` | locks: `LockExclusion`, the refinement `ImplementsLeaseLock`; token bucket: `BucketKept`; caches: `CacheTruthful`; live view: `CommitsKept` (`NoLostUpdate` and `HistoryLeadsToHead`), `SubscriberHasBody`, `SubscriberCatchesUp`; stream buffer: `BufferFaithful`; pipe: `PipeFaithful`; all of them: `NobodyWaitsForEver` |
| `consumer_repeats`, `consumer_backlog`, `planner_reencoding`, `rebuild_failure`, `late_changes`, `pipe_after_close` | expected violations, see [below](#disagreements-with-the-documentation) |

The passing runs are exhaustive within their bounds. Each takes less than five
minutes on two cores:

| Run | Distinct states |
|---|---|
| `consumer_at_least_once` | 2,134,412 |
| `consumer_at_most_once` | 1,046,425 |
| `consumer_faults` | 499,787 |
| `key_execution` | 1,947,555 |
| `parts` | 728,957 |
| `redis_structures` | 322,095 |

`CHECK_DEADLOCK FALSE` appears where the system really stops: a batch ends
(`Planner`), calls of a publisher are over, a job was stopped, a flow returned or
a rebuild ended (`parts`, `rebuild_failure`, `late_changes`). The consumer
and the structures in Redis never stop by themselves.

## Bounds

Every bound is a constant named in the module; those that the code does not
have are marked "bound" there.

*Consumer.* The smallest instance in which a hazard of the consumer appears has
three events: one that fails, one of the same lane diverted behind it, and one
that makes the task poll again; the fourth belongs to a second key and makes
the retry partition hold interleaved keys, one pending below the other.
`PollCount = 2` lets a batch hold a failing and a succeeding lane and makes
draining take several polls; `NumDelays = 2` gives a key a first and a last
attempt; `MaxPending` (2 or 3) is reached. The handler's `MAX_BATCH` is 1 or 2,
so that runs have several chunks. One crash reaches every state a crash can
leave behind; the at-most-once run allows two. One lost acknowledgement writes a
batch twice. This bound matters to `SettledInOrder` in at-most-once mode: the first
poll reads at least as many records as a batch has, so with two copies a crash
leaves unread at most the end of the second one, which is in order; with three
copies the order [can be lost](#disagreements-with-the-documentation).

*Planner.* Its cases (cut by an acquiring record, cut of a mixed head, closing
Release, continuation of a segment) all appear within four records; a fifth is
needed for two segments that are both more than a single run, which is where
re-encoding is delicate. Two types distinguish equal from different. One key is
enough for TLC, as keys meet in a plan only in the numbering of segments; the
theorems cover any number of keys. Three events of one key reach every pairing
of orderings through failure, diversion and a crash in `key_execution`.

*The other event parts.* A run of four records with two values and chunks of one
or two has several chunks, equal neighbours, equal values apart, and records that
arrive behind a failed chunk; of three delays (`NumDelays`) an attempt has a first,
a middle and a last one. A byte has seven values, the fewest that contain
all header values and a foreign one, and a `u32` two bytes and a `u64` three:
numbers at both boundaries exist. Two publishers with two keys and three events
reach a call that is cut between two groups while the other one sends. Two
processes race for one retry topic; two handlers are mixed or doubled.

*Redis.* A TTL of two milliseconds is the shortest in which a key can live past a
step of another client, TTL 0 is rounded up to one, and two TTLs under one name
show that a longer lease keeps its key. Three tokens are two readers and a writer.
The bucket's period of 2001 microseconds makes every refill a fraction, a little
less than half a token, so that a rounding of one unit (`Grain` and `Rounding` are
1) decides whether two milliseconds bring a token; three roundings may add up
(`MaxDrift`); costs reach from nothing to more than the capacity; the clock steps
back by up to two milliseconds. Four versions over a history of one diff squash
once and go on from there, in each of two views of the name; reads of two entries
and one resumption put a subscriber before, inside and behind a squash. Two lives
of a buffer and two receivers of a pipe are one restart each.

*Services.* Five ticks with an interval of two contain three grid points, an
early, an exact and a late wake-up. Three queries per flow are an error, a
statement after it and the end; the second flow meets the connection that the
first one left. Two writers, two keys and pages of one row let a reindexing fall
before, between and after the pages of a rebuild; one fault is one failed task,
request or load at any place. Propositions of depth three contain every
left-hand side of every law.

## Fairness

The specifications assume only that what the code's own scheduling or the server
does goes on; nothing forces clients to write, to fail or to recover, except
where stated.

- `PartitionConsumer!FairSpec`: weak fairness of the task's own steps (the tokio
  runtime schedules it, `until_ok` repeats requests until they succeed, and
  handlers return and do not answer "transient" for ever), of `Restart` (an
  operator restarts a consumer after a shutdown) and of `Elapse` (delays pass).
- `KeyExecution!FairSpec` is the same for one key; the key is due infinitely often
  when it waits, as delays pass, hence strong fairness of `StartAttempt`, written
  out without `ENABLED` because a loop step is possible in every state.
- `parts`: a delay passes (weak), and a handler that is called again and again
  answers otherwise than "transient" some day (strong fairness of `ChunkSettled`),
  which is what `error.rs` says a transient error is; runs of a job end and its
  tasks are polled (`CronProgress`), Meilisearch runs its tasks (`RunTask`) and a
  rebuild goes on (`RebuildStep`).
- `redis_structures`: time passes (`LockTick`, `BufferTick`, `PipeTick`), and a
  receiver that was called is polled (`ViewRead`, `ViewRecv`, `RecvStep`). No
  editor, producer or sender has to do anything.

## Disagreements with the documentation

1. `consumer_repeats`: `config.rs:19-20` says of the at-most-once mode "No event is
   processed twice". A retry attempt runs the records of a failed run from its
   start, so chunks accepted in an earlier attempt are accepted again, without
   a crash. (The doc of the at-least-once mode mentions it for that mode.)
2. `consumer_backlog`: `config.rs:54-55` calls `max_pending_retry` the "maximum
   number of records of one partition waiting in its retry partition", but
   events of a quarantined key are diverted without looking at it.
3. `planner_reencoding`: `encode.rs:3-6` says re-planning written entries "keeps
   every ordering the original plan enforced". It keeps what the headers demand
   (`ReencodingKeepsDemands`) but not every order of the plan, which is stricter
   than the headers.
4. `rebuild_failure`: `rebuild.rs:66` says "On failure the live index is left as
   it was". When waiting for the swap fails after Meilisearch accepted it, or
   deleting the copy fails after the swap, the rebuild reports an error and the
   live index is, or will be, the new one.
5. `pipe_after_close`: `pipe.rs:105-106` says a message sent after the close is
   never read. Messages are popped before closes, so a receiver that has not
   taken the close yet reads it.
6. `late_changes`: `hook.rs:90-92` says that documents come from a fresh load, "so a
   change delivered twice or late does no harm". The load and the request are two
   steps: of two hooks of one key, the one that loaded first may write last, and the
   older document stays, although both hooks reported success and nothing asks for
   another reindexing. `IndexTrue` says that this is the only way: two hooks of one
   key overlap, or one failed.

Noticed while modelling, without a run of their own:

- `error.rs:19-21` says that the unfinished work of a failed key goes to the retry
  topic "and the key's later events wait behind it there". In at-most-once mode
  the retry offset is stored when records are read (`runtime.rs:375-377`), before
  they are run. When `until_ok` had to write a batch `1, 2` three times, a poll may
  end behind the third record; after a crash there, the task reads only `2, 1, 2`
  and runs event 2 before event 1. TLC finds it for `SettledInOrder` with the
  constants of `consumer_repeats.cfg`, but `PollCount = 3`, one crash and
  `MaxLost = 2`.
- `Or::check` (`wakuwaku-proof/src/lib.rs:497`) returns the error of the left
  side when both fail, also when that is a denial while the right side could not
  be decided; the caller may take the disjunction for denied.
- `CronRuntime::abort` (`cron_job.rs:383`) returns when the tasks are over; runs
  spawned by an overlapping job were told to end, which they do at their next
  await. `ShutdownWaits` is therefore a property of `shutdown` alone.
- A live view that is removed and created again starts over at version 1
  (`live_view.rs:140`), so an editor or subscriber of the earlier view may match
  a version of the later one. `crossed` marks these behaviours and the properties
  exclude them.
- `stream_buffer.rs:192` says that the subscribers of a removed buffer fail one TTL
  later, and `mod.rs:36-37` that a subscription never skips an item. When the buffer
  is created again within that TTL, the subscription goes on in the new one at the
  index it had come to: it does not fail, and skips the bodies before. `BufferFaithful`
  allows just this (the bodies of the later life come at the indices that were not
  taken yet).
- `recv` takes an entry before it parses it (`stream_buffer.rs:431`), so a body that
  cannot be parsed is skipped by the retry that lines 412-414 allow. In
  `BufferFaithful` such a body counts as one that `recv` came to.
- A denied request of a token bucket stores the refill it computed in doubles. With
  one token in ten milliseconds and a request each millisecond, ten times 0.1 is
  less than one, and the request is denied at the time the first answer promised
  (`token_bucket_limiter.rs:222-223`). `RetryAfterNear` says by how much at most:
  what `drift` counts.
- `SpawnCronJobs` (`cron_job.rs:338-339`) says that each task stops before its next
  run once the stop holds `true`. A task that has polled the stop, but not the clock
  yet, starts one more run, which `shutdown` then waits for. `StopIsObeyed` allows
  this one run.
- A connection given back between `SET TRANSACTION` and `START TRANSACTION`
  (`mysql.rs:25-40`) keeps the level for its next transaction. `NamedLevelHolds` is
  about flows that name a level; one that names none gets the level that was left,
  although `flow.rs:145` calls `None` the server's default.
- Partition IDs given twice to `start` spawn two tasks (`runtime.rs:146`).
- A query whose error hides the sqlx error it failed with (`as_sqlx_error`
  returns `None`) leaves `aborted` unset, and Postgres then answers `COMMIT` with
  a rollback that the flow reports as committed (`flow.rs:320-327`). In `TxFlow`
  an error that is the query's own has no failed statement behind it.
- Readers that keep coming hold off a writer without end; the lock promises no
  fairness, and no property says so.

## Theorems

| Theorem | Statement | Inductive invariant |
|---|---|---|
| `ConsumerTypeOK` | `Spec => []TypeOK` | itself |
| `AtLeastOnceLosesNothing` | `Spec => []NoLoss` | `LossInv` |
| `RetryOffsetIsSafe` | `Spec => []RetryCommitSafe` | `LossInv` |
| `ShutdownCommitsAll` | `Spec => []ShutdownCommits` | `CursorInv` |
| `OnlyRetriesRepeat` | `Spec => []OnlyRetryRepeats` | `CursorInv` |
| `QuarantineIsKept` | `Spec => []QuarantineHolds` | `QuarantineInv` |
| `ConsumerImplementsDelivery` | in at-least-once mode, `Spec => KeyedDelivery!Spec` under the refinement mapping | `OrderInv`, on top of the others |
| `LanesKeepOrder` | in at-least-once mode, `Spec => SettledInOrder` | `OrderInv` |
| `PlanTypeOK`, `PlanRespectsOrder`, `PlanFencesBothWays` | of `Planner` | `PlanInv` |
| `ReencodingKeeps` | `Spec => []ReencodingKeepsDemands`, of `Planner` | `PlanSound` |
| `KeyTypeOK` | `Spec => []TypeOK`, of `KeyExecution` | `KeyInv` |
| `DemandsAreKept` | `Spec => []DemandsKept`, of `KeyExecution` | `KeyInv` |
| `NothingIsForgotten` | `Spec => []NothingForgotten`, of `KeyExecution` | `KeyInv` |
| `StartedConsumersCanRun` | `StartSpec => []StartedCanRun` | `StartInv` |
| `PublishersAreTold` | `PublisherSpec => []PublishedAsTold` | `PublisherInv` |
| `HeadersAreExact` | `HeadersSpec => []HeadersExact` | `HeadersInv` |
| `EffectIsKept` | `RunSpec => []EffectKept` | `RunInv` |
| `CronKeepsSpacing`, `CronShutdownWaits`, `CronObeysStop` | of `CronSpec` | `CronInv` (with `StopsSoon` for the last) |
| `TxTypeCorrect`, `TxAllOrNothing`, `TxReportTrue`, `TxLevelHolds` | of `TxSpec` | `TxInv` |
| `LockTypeCorrect`, `LockExcludes` | of `LockSpec` | `LockInv` |
| `LocksImplementLeases` | `LockSpec => LeaseLock!LeaseSpec` under the refinement mapping | `LeaseInv` |
| `BucketIsKept` | `BucketSpec => []BucketKept` | `BucketInv` |
| `CacheIsTruthful` | `CacheSpec => []CacheTruthful` | `CacheInv` |
| `ViewLosesNoUpdate` | `ViewSpec => []NoLostUpdate` | `ViewInv` |
| `SubscriberIsRight` | `ViewSpec => []SubscriberHasBody` | `ViewInv` |
| `ViewKeepsCommits` | `ViewSpec => []CommitsKept` | `ViewInv` and `HistoryShape`, with the history replayed |
| `BufferIsFaithful` | `BufferSpec => []BufferFaithful` | `StreamInv` |
| `PipeIsFaithful` | `PipeSpec => []PipeFaithful` | `PipeInv` |
| `IndexIsTrue` | `SyncSpec => []IndexTrue` | `SyncInv` |
| `ProofsAreSound` | `ProofSpec => []EvidenceSupports` | `ProofInv` |

They hold for every value of the constants that satisfies the named assumptions
(`ConsumerAssumption`, `PlanAssumption`, `PlannerAssumption`,
`ExecutionAssumption`, `StartAssumption`, `PublisherAssumption`,
`HeadersAssumption`, `RunAssumption`, `CronAssumption`, `TxAssumption`,
`SyncAssumption`, `LockTtlsAssumption`, `TokenAssumption`, `BucketAssumption`,
`CacheAssumption`, `LiveViewAssumption`, `StreamBufferAssumption`,
`PipeAssumption`, `ProofAssumption`): what the code validates, the types of the
other parameters, and two names that must not be documents or bodies.
`ExecutionAssumption` also says that `KeyExecution` plans the events of one key,
which is what it is about. So there may be any number of events, keys, types,
crashes, shutdowns and lost acknowledgements, batches of any length, any
processes, topics and publishers, words and bytes of any size that holds the
header values, any values, arrivals and chunk sizes, any interval and any
lateness, any statements and levels, any writers, rows and pages, any clients,
TTLs, rates, costs and roundings (as long as a millisecond brings more than one of
them), any editors, batches and `max_diffs`, any atoms and laws, and propositions
of any depth.

*Consumer.* `NoLoss` is not inductive: it speaks of events below the stored
offset, and a step that stores an offset must know what became of the batch.
`LossInv` adds it. *Safe* means settled, or written to the retry partition.
`MainSafe` and `RetrySafe` say what was committed is safe and, in the retry
partition, settled; `CursorCommitted` ties the running task's cursor to the
stored offset; `ReadCovered` says a retry record that was read is pending or
settled, which is what makes `committable` correct; `AttemptCovered` carries
that through an attempt, when records leave `todo` before they leave `pending`;
`BatchCovered` follows the batch through execution (settled, in flight or to be
diverted), encoding (settled, in `entries`, or its key is still to be visited)
and the store (safe). That settled events stay settled and the retry partition
only grows (`StepGrows`) makes each part stable.

`CursorInv` is about how far the task has got. `CursorAt` fixes where the stored
offset stands against the cursor and the batch in every phase of either mode;
`Reach` is the last event that may have been settled in that phase, and nothing
settled or written lies above it. In at-most-once mode a crash cannot bring the
task back below its reach, in the other mode it is only a crash that can; so what
is executed is new (`TodoUnsettled`), and a repetition came through the retry
partition. `QuarantineInv` adds that the task has read the whole retry partition
when it plans a batch, and that what it writes itself belongs to keys that are
not executed any more.

`OrderInv` is for the order of a lane in at-least-once mode. That earlier events
are settled first (`InLaneOrder`) must hold on both ways to a handler. On the way
through the main partition, an earlier event of a key that is not quarantined is
settled or in flight: below the cursor it is safe (`MainSafe`), and a record of it
that is not settled would be pending (`ReadCovered`, `AllRead`) and quarantine the
key. On the way through the retry partition, the log itself is in order
(`RetryInOrder`): every earlier event of a record's lane stands before it or is
settled, also when a batch was written twice. `EntriesInOrder` carries that through
the encoding of a batch, key by key, and an earlier record that is pending runs
in the same attempt (`AttemptKeys`). The refinement then needs only that
`InLaneOrder` holds after a step that settles something.

*Planner.* `RespectsOrder` and `FencesBothWays` compare two records. `PlanInv`
says what the metadata of a segment means: segments of a key follow the log, the
open segment is the last of its key and has no tail, acquiring records start
segments and are their head, a Release ends its segment and is its tail, and in a
segment that is not mixed all records have the head's type. The last part is why
the cut at a Release of the head's type is needed.

*Re-encoding.* A record is a *barrier* when it is a Release or is *led*: an
acquiring record of its key and type stands before it with nothing but `Relaxed`
records of that key and type in between. The planner puts what is led into its
leader's stage (`LedTogether`, with `LastIsOpen` the rest of `PlanSound`), so a
barrier is a fence on both sides. `encode_key` writes all runs of a stage
together, the first record of a head run as Acquire and the last of a tail run as
Release, so every record that had a fence is written as a barrier
(`EncodingKeepsFences`), and what precedes in the first plan is written before
(`PrecedingIsWrittenBefore`). Thus every order that the first headers demand
holds in the plan of what was written, although, as
[above](#disagreements-with-the-documentation), not every order of the first plan
does. The order in which `encode_key` writes is a strict total order, and its
ranks number it without gaps (`Numbered`).

*Key execution.* What has to be carried from attempt to attempt is a promise about
every record of the retry partition. `OrderWritten`: what must precede its event
is settled or has a record before it. `FencesWritten`: a record of an unsettled
event that was published with a fence is a Release or is led by a record that is
still pending or not yet read. The second half is the delicate one: a leader can
only be removed together with what it leads. It holds because they share a run
(`LedSharesStage`), and `RetryState::finish` removes runs whole. With `PendingKept`
(what was read and is not pending is settled) it follows that an unsettled event
that must precede one of an attempt is in the attempt and precedes it in the plan
(`AttemptOrder`); in a batch, anything below it that is not in the batch is settled,
since otherwise its record would be pending and the key quarantined
(`BatchOrder`). Only the first unfinished stage runs, so what is handled, and
what is given up together with its run, comes after all that it must
(`SettledInOrder`, and `DemandsKept` from it). `CommittedKept` follows the main
cursor for `NothingForgotten`.

*Start.* The partition count read from the main topic is a lower bound for ever
(`MainRead`), as topics only grow, and for the retry topic once it was compared
or created with it (`RetryRead`). What other processes do only grows topics
(`GrowingTopics`), and a list without duplicate tags dispatches each tag to its
only handler (`OnlyHandler`).

*Publisher.* A turn of the grouping keeps the groups `Right` (each carries the
events of its key so far, in order, and groups stand in the order in which their
keys appear) and `Covers` (no key is left out), for a call of any length. The
call a publisher waits in is its last, and what is left of its groups are the keys
that it has not reached (`Current`); so a group that is sent is the whole share of
a key that had none, and stands behind what its publisher had sent before
(`LogRight`). A call that ends without an error has no group left.

*Headers.* Writing a number takes its lowest digit again and again, reading it
adds the bytes from the last to the first; the induction over the digits
(`HoldsUpTo`) shows that each undoes the other (`ReadsBack` for a number that
fits, `WritesBack` for any bytes). `ParseOfMap` and `MapOfParse` put the headers
together. What another writer changes leaves a map of byte sequences
(`MapChanged`), for which `MapOfParse` is stated.

*Runs.* `RunInv` says that what was settled before, followed by the events of the
run at hand, or by what is stored when there is none, is `Alike` with what was
wanted: equal where nothing may be reduced, else equal after deduplication, as a
set, or combined. During an attempt both hold, of the run and of the stored records
that it was read from, so that a failure, which forgets what was handled (`tried`)
and keeps the stored records whole, leaves the second. What a failed attempt handed
over is then handed over again, and is stored (`repeated`): that is why nothing but
stored events is ever handled twice. A law must survive both
ways in which events meet: reduced behind others that are alike but were cut or
reduced elsewhere, and reduced a second time. `ReduceIsAlike` states both at once,
from what `Dedup`, `SortDedup` and `Combined` make of joined sequences
(`DedupTwice`, `DedupOfJoined`, `SortedIs`, `MembersOfJoined`, `CombinedOfJoined`).

*Cron.* `CronInv` says what the task waits for: a serial loop for a time that is
far enough from the last run's start or end (`SerialSpaced`), an overlapping one
for a grid point after the last run's (`OnGrid`), which needs that `next_tick`
returns the first one at or after the clock. `StopsIdle` and `LoopOK` tie the runs in
progress to the place of the loop. `StopsSoon` counts the runs that start after the
stop: none in a loop whose `select!` polls the stop after it was sent, and one in a
loop that had polled it before.

*Transactions.* Nothing is durable or told before the end (`Undecided`), `COMMIT`
is sent only by a flow that holds the transaction usable (`CommitsUsable`), and
what the flow holds usable is open at the server (`UnabortedIsOpen`). This is
where the two backends' classification of errors is needed.

*Locks.* A token inside its lease has one on the server that runs at least as
long (`Covered`), the readers' key lives as long as the longest lease in it
(`ReadersKept`), and no writer stands beside a running reader (`WriterAlone`). For
the refinement, `Tied` says that the server holds a token only for what its
client asked for; then each script grants, refuses, restarts or gives back
exactly one abstract lease, or changes none.

*Bucket.* `Near` says how much of what a waiting caller lacks flows in until, and
until just before, the time it was told, up to one rounding and what the roundings
since then add up to (`drift`); `LivesUntilFull` that an expired key loses nothing
but a rounding, as the bucket was full by then. Both are products of rate and time,
rounded where the script rounds.

*Cache.* An item's age and the rest of its TTL make one of the TTLs
(`AgesAddUp`), and a copy has the hash of its body, which only its body has.

*Live view.* `ViewInv` compares everything with the edits reported as committed.
The history is a chain of entries that are right for them (`Chained`, `Sound`),
from a base to the head's version (`HistoryKept`), also when a commit squashes it:
the one entry that is left has both the body and the diff. What an editor read
begins the edits (`SeenKept`), so a commit whose parent is the head's version was
made on the head's body. The subscriber's body and its unread entries are of the
same edits, and the first unread entry either follows its version or has a base
(`Follows`); a log that leaves no gap can therefore never fail to parse. All of it
is for behaviours without `crossed`, as the properties are. That the diffs applied
to the base give the head (`ViewKeepsCommits`) is an induction over the history:
`Applied` is a recursive function, and the least length at which it and the edits
differ is contradicted by the step before it.

*Stream buffer.* Entries are numbered within a life of the buffer. `ReadSoFar`
says where what was handed out and what was read ahead stand in it (`Placed`): an
entry of the present life is where it was, and one of an earlier life is
followed by later lives only (`LivesFollow`), whatever part of what is there a
read takes. What could not be read counts as handed out: it is in `got`, and the
next call goes on behind it. `NothingMissed` and `EndsAfterLast`
then say that the cursor skips nothing.

*Pipe.* Taken messages precede waiting ones (`InSendingOrder`), and a close that a
receiver took stands behind what was sent before it, which was taken or is lost
(`CloseComesLast`). A receiver that blocks does so on empty lists
(`WaitsForNothing`).

*Search sync.* Two arguments. For the live index (`RowsTrue`), of all that is
under way for a key (tasks in the queue and what writers loaded but did not send),
what is newest and not outdated holds its row (`NewestHolds`), and when nothing
like it is left, the index does (`LiveHolds`), unless the key is in doubt or an
older load was applied after a newer one (`crossed`). `Orderly` says that the
latter befalls only keys of which two reindexings overlapped or one failed
(`exposed`): for any other, tasks and loads stand in the order of their loads
(`InOrder`). For a rebuild, `Created`, `PagesTrue` and `SwapTrue` say what the
copy holds at each step of the keys whose row did not change since it began;
`OnlyAwaited` says that no other task touches the copy meanwhile. The swap
exchanges one for the other.

*Value proofs.* `Evidence` is the set of all that shows a proposition of a subject,
by what its atoms say. `ProofInv` says that both proofs carry a member of it. Each
law is sound by itself (`LawsAreSound`): what it makes of a member for the old
proposition is a member for the new one. A law looks one or two levels into the
evidence, and there it needs only what evidence of a conjunction or a disjunction
is made of (`AndShown`, `OrShown`) and the same where a side may be unknown
(`AndKnown`, `OrKnown`). That a check finds a member, or else the proposition is not
true (`CheckAgrees`), is an induction over propositions (`HoldsOfPropositions`): it
is layer upon layer that `Propositions` and the checks are defined.

### Only model-checked

- Liveness and fairness everywhere (`NothingWaitsForEver`, `EventuallySettled`,
  `RunEnds`, `SubscriberCatchesUp`, `NobodyWaitsForEver`, `ShutdownEnds`,
  `RebuildEnds`): out of the prover's reach.
- `SettledInOrder` in at-most-once mode, which holds only as long as no batch is
  written more than twice; `LanesKeepOrder` is for the other
  mode, where any number of copies does no harm.

Induction over data is done where a definition is a recursive function (`PlanOf`,
`Applied`, `Grouped`, `Shifted`, `Number`, `Payloads`, `Dedup`, `Combined`,
`Propositions`, `Results`, `Evidence`, `Truths`), by the least counterexample; the
library's induction theorems have operators as parameters, which no installed
prover instantiates.

## Abstractions

- In `PartitionConsumer` a transient error repeats the same handler call and
  changes nothing, so it is no step; `RunHandling` has it. Payloads are left out
  there as well; undecodable events, reduction and events that cannot be
  written again are in `RunHandling`.
- A record of the retry partition that the consumer did not write itself
  (without retry header, or unparsable) is not modelled; reads skip it.
- Retention on the server is not modelled: a stored offset is always readable,
  and topics are not deleted under a consumer.
- A poll of the retry partition and the store after it are one step. A crash
  in between loses and repeats nothing, as the records are not yet acted on.
- `store_consumer_offset` repeated by `until_ok` stores the same value.
- The length of a delay is abstracted everywhere but in `CronJob` and in Redis.
- A Redis script or command, with its reply, is one step at one instant; a client
  counts its lease from there. Delays on the way shorten what it can count on.
- The doubles of the bucket's script are integers, of which each sum or quotient is
  off by at most `Rounding`, in either direction. `MaxDrift` bounds how many of
  these add up before the key expires or a caller is admitted.
- The clock of the token bucket may step back once or more; that it jumps
  forward again to where it was is not modelled.
- Iggy, Redis, Postgres, MySQL and Meilisearch are external: what they do is
  modelled from how the code uses them and from what its comments say of them.
- The step of a transaction flow, the body of a cron run, a handler and a
  predicate's check are the application's: they do anything their types allow.

## Not modelled

- **Queries of Meilisearch** (`meilisearch/filter.rs`, search parameters, tenant
  tokens): strings and JSON built from values, without state or order.
- **Effects and capabilities**: but for `AfterWrite`, which is part of `MeiliSync`,
  they are checks the Rust compiler makes on types.
- **Service builder**: dependencies are resolved by the compiler, before anything
  runs.

## What is left

1. `KeyExecution` with two keys and handlers that take several events, which TLC
   can do only at smaller bounds than today's.
2. Retry records that another producer wrote, and retention on the server.
