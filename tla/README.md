# A TLA+ model of codex-db

codex-db is the library that the codex services share for keeping device events
in a database: writing them in batches (`batchInserter`), repeating failed
writes (`retry`), deleting expired events (`batchDeleter`), consulting a
blacklist of devices that is refreshed in the background (`blacklist`), and the
connections that carry all this to a database (`postgresql`, `cassandra`).
This directory models the concurrent and the failing parts of it, checks them
with TLC on small instances, and proves with TLAPS, for every value of the
constants, each safety property that a run finds to hold.

`PROJECT.json` lists the components, the runs, the hazards, the source lines
each definition translates (`map`), the findings and the theorems.

## 1. Inventory

| Component | State it keeps | Operations | Module |
|---|---|---|---|
| `batchInserter/batchInserter.go` | channel of records, batcher goroutines with their slices, `insertRecords` goroutines, semaphore, wait group, gauge and drop counter | `NewBatchInserter`, `Start`, `Insert`, `Stop` | `BatchInserter`, `RecordSink` |
| `batchDeleter/batchDeleter.go` | bounded set of records to delete, two goroutines, a popper goroutine per round, semaphore, stop channel, gauge | `NewBatchDeleter`, `Start`, `Stop` | `BatchDeleter` |
| `retry/retry.go` | configured backoff; per call a copy of it | `CreateRetryInsertService`, `InsertRecords` | `RetryInsert`; with the inserter and a database `InsertPipeline` |
| `blacklist/blacklist.go` | map of rules behind a read-write lock, refresher goroutine | `NewListRefresher`, `InList`, `UpdateList` | `ListRefresher` |
| `postgresql/db.go` (life cycle) | connection pool, metrics goroutine, stop channel | `CreateDbConnection`, `Close` | `PostgresConnect` |
| `postgresql/db.go` (operations) | the table; counters of rows and of calls | `InsertRecords`, `DeleteRecord`, `RemoveAll`, `GetRecords`, ... | `PostgresQueries` |
| `cassandra/db.go`, `executer.go`, `executermeasures.go` | session, gauge, timings, counters of rows and of calls | `CreateDbConnection`, `Close`, the operations and the decorator that measures them | `CassandraConnection` |
| `cassandra/db.go`, `executer.go` (long polling) | row ids in the table; the hash a client asks with | `GetRecords`, `GetRecordsOfType`, `GetStateHash`, `InsertRecords` | `LongPolling` |
| `healthlogger/healthlogger.go` | the slice of pairs of each logger | `NewHealthLogger`, `WithFields`, the log methods | `HealthLogger` |
| `cassandra/logger.go`, `db.go` types, `event_types.go` | none | | not modelled, see section 8 |

How they interact. A service calls `Insert` of a BatchInserter from its request
handlers. Batches go to a `db.Inserter`, which in production is a
RetryInsertService around a Connection; its calls come from as many goroutines
at once as the inserter has workers. Another service runs one BatchDeleter per
shard over the `Pruner` interface of a Connection: `GetRecordsToDelete`, then
`DeleteRecord` for each. A ListRefresher calls `GetBlacklist` through
`Updater`, while request handlers call `InList`. Everything shared is
a channel, a semaphore, a lock or a metric; only the database persists. A client
of the cassandra connection polls: it asks for the records newer than a hash and
has `GetStateHash` make the next hash from what it got.

What is hard:

* *Batching.* Several batchers take records from one channel at two places of
  their loop, and hand slices to goroutines, which a semaphore limits. Which
  record is where, whether a permit comes back when a write fails, and what is
  left over when `Stop` is called, depend on the interleaving.
* *Stopping.* `Stop` of the inserter is a protocol of three steps (close the
  channel, wait for the batchers, take every permit). `Stop` of the deleter is a
  broadcast, after which two goroutines and the popper end each in its own way.
* *Metrics.* Gauges and counters are updated before or after the operation
  they describe, in another step and often by another goroutine.
* *Failure.* A query may fail, a statement may take effect though its caller
  sees an error, a connection may open only at the third attempt.
* *Ids and visibility.* A cassandra row has its id before queries see it, and a new
  one whenever its INSERT is repeated; queries compare ids as a whole, `GetStateHash` by their time; the answers have a limit and
  no order.
* *Sharing.* `append` to the slice of a logger may write into the array of another.
* *Time.* Batches, refreshes and deletions are driven by tickers; a retry
  ends by a limit on elapsed time that each concurrent call measures for itself.

What makes each component correct:

* BatchInserter: every accepted record is written (attempted) exactly once,
  in a batch of bounded size (its doc says of the size specified), by at most `MaxInsertWorkers` writers at a time;
  nothing is left when `Stop` returns; a full pipeline drains; a batch that
  stays small is sent off by the ticker.
* BatchDeleter: only expired records are deleted, at most `MaxWorkers` at a
  time; every expired record is deleted in the end; `Stop` returns and after
  it nothing is deleted.
* RetryInsert: a failure is repeated, with a clock of its own for each call, so that
  calls with a limit end and no attempt starts long after its call's time is up; the
  counters tell how often.
* ListRefresher: each answer comes from one version of the list, the one that was
  fetched last; a failed query changes nothing; readers and the refresher do not keep
  each other from getting on.
* Inserter, retry service and database together: a record is stored once for the
  answer that said so and once more for each answer that was lost; what is counted
  as dropped is what no answer confirmed.
* Connection: the counters agree with what happened to the table; the creation
  retries as configured; `Close` ends the background goroutine; the gauge of
  connections in use comes back to zero.
* Long polling: what the hash has passed has been delivered, and again only if it
  has been inserted again.
* HealthLogger: a logger prints the pairs it was given.

## 2. Modules

Each component module has the state of the component as variables, one action
per step of each goroutine that another goroutine can notice, `Spec`, where
liveness is checked `FairSpec` or `Fairness`, and its properties at the end. Each
`MC...` module gives its constants values for TLC; `MCBatchInserter` also numbers the
records, and `MCPostgresQueries` sets a budget (section 3).

**BatchInserter.** `config` is the validated `Config` (`NewBatchInserter`).
`call[r]` is the position of the caller that inserts record `r`: one record
stands for one call, so that two equal events are still two elements. `queue`
and `closed` are the channel. `bpc[b]` and `batch[b]` are a batcher's place in
`batchRecords` and its `records` slice: `range` (the `for range`), `countFirst`
and `countMore` (the gauge update after a receive), `select`, `flush`
(`Acquire`, `go insertRecords`). `jobs` are the running `insertRecords`
goroutines, which write, track the times and release. `Insert` is split at its
channel send and its gauge update, `Stop` at the close, the wait and each
`Acquire`. Constants leave open whether callers let calls in progress finish
before they call `Stop` (`CallerWaits`).

**RecordSink** is what a user of the inserter is told: a record handed over
is refused or accepted, accepted records are written in groups of bounded size
and each is stored or dropped, and a sink is `stopped` only when none is
waiting. `BatchInserter!Sink` maps the inserter's state to it, and `SinkSpec`,
the abstract specification under that mapping, is checked as a property. The
pipeline (channel, batches, workers) disappears: a record in any of them is
`accepted`.

**BatchDeleter.** `gpc`, `vals` are the goroutine `getRecordsToDelete` and the
records it has yet to add; `dpc`, `held.delete` the goroutine `delete` and the
item in its hands; `popper`, `held.popper` the goroutine that `SendToChannel`
starts every time the `select` is entered, with an item of its own.
`inFlight[r]` counts the `deleteWorker` goroutines of a record (the same one can
be read, and deleted, again while its deletion is running). `table` stands for
the database and time: a record is live, then expired, then gone. The set is a
library type that this repository does not contain, so `kind` ranges over the four
behaviours it can have: `Add` on a full set waits or returns false, `Pop` on an
empty set waits or returns nil.

**RetryInsert.** Each call has a place, its own `age` since `Begin` reset its
copy of the backoff, and its own `interval`. `Attempt` is one call of the wrapped
inserter and takes time; `Retry` and `GiveUp` are the decision of the backoff
library, which is external: whether it counts the coming wait against the limit
(`looksAhead`) is left open. Waits are drawn from the interval that
`RandomizationFactor` gives. `spent` is the time that has really gone by since a call
began; the code does not keep it, and `age`, which the decision is made by, is right
only as long as no other call resets it. `Panic` is the nil counter of a service built
without `WithMeasures`.

**ListRefresher.** The refresher goroutine fetches, takes the write lock and
swaps the map; `InList` takes the read lock, tries the id itself, then the keys
one at a time in any order. As in `sync.RWMutex`, a writer that waits keeps new readers
out: `ReadLock` leaves such a caller `waiting`, and the writer's Unlock, the end of
`Swap`, lets all of these in before another writer. (The refresher does nothing that
others see between the return of `GetBlacklist` and the call of `Lock`; the two are one
place, `locking`.) `MapOf` is the loop that builds the map, in which the
last of two items with one id wins. The table changes at any time.

**PostgresConnect.** Attempts to connect, the missing table, the metrics
goroutine of `doEvery` and several calls of `Close`, with the stop channel that
has room for one signal: the goroutine takes one, a second one stays in the channel,
and a third call of `Close` is `Stuck`. `waitCount` is the statistic of `database/sql`
that stands for the four that are copied in the same way.

**PostgresQueries** EXTENDS PostgresConnect: callers run the operations of a
Connection on one table, from the moment it is open and after `Close` too, when
every statement fails. Each is one statement and then two updates of counters (rows,
outcome), with the steps of other callers, of the metrics goroutine and of `Close` in
between. A statement may take effect and its answer be lost, and a deletion may
report its rows and not commit; `astray` counts the rows of both. Its run is that of
the life cycle as well: `MCPostgresQueries` adds a budget for what happens in all, and
asks the properties of both modules.

**InsertPipeline** composes three: it EXTENDS BatchInserter and instantiates
RetryInsert with one call per batch, which is possible because no record is in two
batches (`OnePlaceEach`). What BatchInserter leaves open, when and with which
result `InsertRecords` returns, is now what the service does: `CallService`,
`Execute` (one statement, which may take effect though its answer is an error),
`Decide` and `ServiceReturns`, which takes a step of both. `stored` and `lost` tell
how often the statements for a record took effect, and how many of these answers
were lost.

**CassandraConnection.** Creation with its retries, `Close`, and the operations as
the decorator runs them: into the pool gauge, the session's query, the timing,
out of the gauge, the rows, the outcome, each a step. After `Close` every query
fails. A failed batch may have written any part of its records. An INSERT is an upsert:
`written` counts the records written, `stored` the rows there are, fewer where a
record had the primary key of another. A nil health makes the creation panic.

**LongPolling.** `Stamp` and `Appear` are the two halves of an INSERT as others
see it. The same record can be inserted again at any time, by the retry service or by
gocql's `RetryPolicy`, also while an earlier INSERT of it is `pending`: each has a
row id of its own, and the last one stands, by the time that the client gave the
statement, which need not be the order of the ids; an earlier one that comes after it is
`Superseded`. `GetRecords` is a query with a hash and a limit; `GetStateHash` makes the
next hash, or guesses one (`Guess`) from birth dates or the clock when no record
has an id. `delivered` keeps each row that the client was given with the id it had.
`flaws` records the three events that can make a client miss a row.

**HealthLogger.** `memory` holds arrays, a logger is an array and a length, and
`append` is `AppendInPlace` or `AppendToCopy`, with Go's growth of small slices.
`given`, the pairs a logger would have if nothing were shared, and `parent` and
`ancestors`, the loggers it was derived from, are only for the properties to speak of:
the code keeps neither.

Modules whose name ends in `Proofs` hold the theorems, see section 5:
`InserterProofs` those about `BatchInserter` and its place in `InsertPipeline`,
`PostgresProofs` those about `PostgresConnect` and `PostgresQueries`, and each of
the others those about the module it extends.

Operators whose comment begins with "Mutant:" are not part of a model. Each is a
definition with a plausible mistake (a lost `Release`, a check off by one), kept
beside the definition it imitates; put in its place, it makes the property
that `PROJECT.json` names fail. They show that the properties can fail at all.

## 3. Runs

| Run | Question | Bounds |
|---|---|---|
| `inserter` | where is each record, permit and gauge update; what is left when `Stop` returns; does the pipeline implement `RecordSink`; is every call of `Insert` settled in the end? | 4 records (one invalid when there is a time tracker); 2 batchers with 1 or 2 workers, channel of 1, batches unlimited or of at most 2; 1 batcher with 2 workers, channel of 2, `MaxBatchSize` 1 (the default); 1 batcher with 1 worker, channel of 1, batches of 2; `Stop` at any time |
| `inserter_batch_size` | *violated*: does a batch never pass the size specified? | the same |
| `pipeline` | what is stored, and what is counted as dropped, when answers are lost; do `InsertRecords` and `Stop` end without any assumption on the former? | 3 records, 1 worker, channel of 1, batches of 2; 1 batcher, or 2 where a time tracker refuses the third record; 2 statements per batch (the limit of 2 time units allows no more; `MaxAttempts` is 3) |
| `deleter` | permits, gauge, expired records only, progress and `Stop` | 2 records, all four kinds of set, sizes 1 and 2, get limits 0, 1 and 2, 1 and 2 workers |
| `deleter_stop_drains` | *violated*: is everything added deleted when `Stop` returns? | the same |
| `retry` | how late may an attempt start, do calls end, what is counted? | 2 calls at once, 5 attempts each, 6 configurations (one without measures) |
| `refresher` | is each answer that of one list; do changes arrive; who blocks whom? | 2 callers, 2 devices, 3 versions of a table with repeated, matching and non-compiling keys |
| `postgres` | retries, pools left open, `Close` called three times, and whether the counters match the table and the calls, on a connection that may be closed meanwhile | retries -1 (default), 0 and 2; 3 closers; 2 callers, 2 rows, inserts of 0 to 2; 1 wait, 2 ticks; at most 4 of attempts to connect, operations, ticks, waits and calls of `Close` beyond the first, together (`Budget`) |
| `pg_wait_count` | *violated*: does the wait counter count waits? | retries -1, 0 and 2; 2 closers; 2 ticks, 2 waits |
| `cassandra` | do the gauge, the timings and the counters account for every call? | 2 callers, 3 calls, inserts of 0 to 2; no host, no retry, one retry, no health |
| `long_poll` | can a client miss a record or get one twice? | 3 INSERTs, of any of 3 records and one stored without an id, queries for all or some, limit 2, birth dates 0 and 2, times up to 3 with two ids each |
| `loggers` | which loggers can lose pairs to others? | 2 goroutines, 3 derived loggers of up to 3 pairs |

Why these bounds are enough to be interesting. With two batchers and one worker, one
batcher waits for the permit with a full batch while the other fills one. With one
batcher and one worker four records fill everything: one with the worker, one with
the batcher that waits for it, one in the channel, and a call of `Insert` that is
blocked. A batch limit of 2 is met and undershot (by the ticker or the closed
channel). The pipeline, a far larger model, has three records: one batcher
waits for the only worker while another record fills the channel, or one of two batchers
waits for the worker while the other's batch repeats its statement. The blocked `Insert`
on top of that is in the run of the inserter, whose assumption that `InsertRecords`
returns the pipeline proves to be met (`InsertReturnsFairly`). One statement after a lost answer is enough to
store a record twice. In the deleter two records exceed a set and a limit of
one, and a record is read again while its deletion runs. Five attempts are more
than any of the limited configurations allows, so the bound cuts off only calls
without a limit. Three versions allow the refresher to hold a stale fetch while
the table moves on, twice. Three closers are one more than the stop channel can take:
one signal received, one left in it, one call waiting. The budget of `postgres` is spent
on four operations of a connection opened at once, or on three attempts to open it and
an operation or another `Close`, or on ticks and `Close` calls with operations between
them, in every mixture. Three INSERTs with two ids per time give the
long poll a tie, a row that is late, an answer that the limit cuts, and a record inserted
twice beside another one: dropping
any of the three exceptions of `NothingSkipped`, or one of the two of `DeliveredOnce`,
makes TLC find a counterexample in this instance. Three loggers are a parent and two
children in one array.

Symmetry (of the records, the callers, the pairs and goroutines) is used in
`cassandra`, `long_poll` and `loggers`, whose
properties are safety properties that do not tell the symmetric values apart. The runs of
`MCBatchInserter` check a liveness property, for which TLC's symmetry is unsound; there
the records are numbered in the order in which they are sent (`InOrder`), which leaves
one of the behaviours that differ only in the names of records.
Deadlock is checked in every run but the two of the deleter (an `Add` that waits
for ever stops that program, which `StopReturnsOrAddWaits` says); a program that
has ended stutters in `Terminated`.

## 4. Fairness

Init and Next alone let a goroutine stand still for ever. The liveness runs
assume:

* weak fairness of each kind of goroutine (Go's scheduler runs what can run; a
  ticker keeps ticking; a call of the database returns, because connections and
  queries carry timeouts). In BatchInserter fairness is asked only of each
  *kind*, not of each goroutine, which is less than the scheduler gives.
* strong fairness of a ready case of a `select` that competes with others: `select`
  chooses at random, so it does not pass over a ready case for ever
  (`GetterStops`, `DeleteStops`, `RefresherStops`, `MetricsStop`).
* nothing for a reader of the blacklist that waits for the lock: the writer's Unlock
  lets it in, which is part of `Swap`.
* strong fairness of success, where a promise is about what is asked again
  and again: `GetRecords(s)` and `DeleteSucceeds(r)` in the deleter, `Fetch` in
  the refresher. A database that never answers deletes nothing. The fairness of
  `GetRecords` is for *some* selection, not for each: an unlucky `LIMIT`
  is not assumed away, and `ExpiredIsDeleted` holds because the records selected
  instead are deleted and leave the query.
* in `PipelineFairSpec` nothing of `InsertRecords`: only that each statement is answered,
  by a result or by an error, and that the goroutine that runs the service goes
  on. That `InsertRecords` returns, which BatchInserter assumes, is then a property
  (`InsertReturnsFairly`); it needs the retry service to have a limit.

Nothing is assumed of the program that uses the library: nobody need call
`Start`, `Insert`, `InList`, `Stop` or `Close`.

## 5. Proofs

The theorems hold for any finite set of records or callers, any configurations,
and any number of batchers, workers, retries and calls, from the named
assumptions of the modules, which say no more than that the constants have
their types and defaults are valid.

| Module | Theorem | Property | What it establishes |
|---|---|---|---|
| `InserterProofs` | `TypeCorrect` | `TypeOK` | Every reachable state of the inserter is well typed; in particular the semaphore is never overdrawn. |
| `InserterProofs` | `RecordsInOnePlace` |  | No record is at two places of the pipeline, for any number of records, batchers and workers. |
| `InserterProofs` | `AcceptedAttemptedOnce` | `EachAcceptedOnce` | An accepted record is on its way until it is passed to the database, exactly once; no other record is. |
| `InserterProofs` | `PermitsNeverLost` | `PermitsAccounted` | Free permits, running insert goroutines and permits taken by Stop add up to MaxInsertWorkers. |
| `InserterProofs` | `StopDrainsAll` | `StoppedMeansDrained` | When Stop returns, every accepted record has been attempted and timed, failures are counted, and nothing is left. |
| `InserterProofs` | `StoppedIsQuiet` |  | After Stop has returned, no step touches queue, batches, workers, database or tracker. |
| `InserterProofs` | `BatchesBounded` | `BatchSizeBounded` | No write is empty, and none exceeds MaxBatchSize where that is 2 or more. |
| `InserterProofs` | `GaugeFollowsQueue` | `GaugeAccounted` | The queue depth metric is the depth of the channel up to the updates still on their way. |
| `InserterProofs` | `InserterIsSink` | `SinkSpec` | The inserter implements RecordSink: every step is a step of the sink or a stutter. |
| `InserterProofs` | `ImplementsBatchInserter` |  | With a RetryInsertService as its db.Inserter the inserter still behaves as BatchInserter says, so all theorems about it hold of the composition. |
| `InserterProofs` | `AnswersHold` | `StoredAsAnswered` | A record is stored once for its success and once per lost answer, for any number of batches, retries and statements in any order, and the inserter acts on the answer the database gave. |
| `InserterProofs` | `ImplementsRetryInsert` |  | In the composition the retry service still behaves as RetryInsert says, with its calls coming from the insert workers and its statements decided by the database. |
| `InserterProofs` | `StopSettlesAll` | `SettledAtStop` | When Stop has returned, the batches called together hold exactly the accepted records, each of these is stored or counted as failed, the drop counter is the number of those that no answer confirmed, and the service has counted one end per batch. |
| `RetryInsertProofs` | `NoLateAttempt` | `AttemptsStartInTime` | No attempt starts later than MaxElapsedTime and one longest wait, for any backoff values. |
| `RetryInsertProofs` | `MetricsCount` | `MetricsAccounted` | Each retry and each end of a call is counted once where the service is measured, for any number of calls and whatever order they run in. |
| `BatchDeleterProofs` | `TypeCorrect` | `TypeOK` | For every configuration and kind of set, the set stays within SetSize and neither permits nor worker counts go below zero. |
| `BatchDeleterProofs` | `PermitsKept` | `PermitsAccounted` | Free permits, delete workers and permits taken by Stop add up to MaxWorkers, for any number of workers. |
| `BatchDeleterProofs` | `StopWaitsForWorkers` |  | Once Stop has returned it holds every permit and no delete worker runs. |
| `BatchDeleterProofs` | `GaugeFollowsSet` | `GaugeAccounted` | The depth metric of the delete queue is the size of the set, up to the record the popper holds and the updates still to come. |
| `BatchDeleterProofs` | `LiveRecordsStay` | `OnlyExpiredClaimed` | Nothing that has not expired is on its way to be deleted. |
| `ListRefresherProofs` | `OneListAnswers` | `AnswerOfOneList` | InList answers by one list, the one fetched last when it returns, for any lists, keys, failed queries and number of callers. |
| `PostgresProofs` | `TypeCorrect` | `TypeOK` | No counter of the connection goes below zero and the stop channel never holds two signals, for any retries and calls of Close. |
| `PostgresProofs` | `GivesUpLate` | `FailsOnlyAfterRetries` | CreateDbConnection fails after one attempt more than NumRetries, or because there is no table, for any number of retries. |
| `PostgresProofs` | `CloseIsFinal` | `ClosedStaysClosed` | What Close has closed stays closed, whatever the metrics goroutine and the retries do. |
| `PostgresProofs` | `QueriesKeepConnection` |  | Operations on a connection leave it a PostgresConnect: every step of theirs is a step of the connection or a stutter, so its theorems hold while it is used. |
| `PostgresProofs` | `RowsCounted` | `RowMetricsMatchTable` | The rows in the table are those counted as inserted less those counted as deleted, up to calls under way and untrue answers, for any callers, batches and interleaving. |
| `PostgresProofs` | `CallsCounted` | `EveryCallCounted` | Every call of a postgresql connection is counted as one success or one failure under its label, on an open pool or a closed one. |
| `CassandraProofs` | `PoolBalanced` | `PoolAccounted` | The gauge of connections in use is the number of callers that hold one, for any number of callers and wherever Close comes. |
| `CassandraProofs` | `CallsCounted` | `EveryCallCounted` | Every call of a cassandra connection is timed once and counted once as a success or a failure under its label. |
| `CassandraProofs` | `RowsCounted` | `RowMetricsMatch` | The inserted rows metric misses no record written, each upsert counting, and exceeds them only after a failed insert; the read rows metric is what the callers were given. |
| `LongPollingProofs` | `NoneSkipped` | `NothingSkipped` | A row the hash is past has been delivered unless a row came late, an answer was cut or a hash was guessed, for any number of records, types and times. |
| `LongPollingProofs` | `HashOnlyAdvances` | `HashAdvances` | The hash of a client never goes back in time, guessed or not. |
| `LongPollingProofs` | `NoneDeliveredTwice` | `DeliveredOnce` | A record is delivered again only with a later id, after another INSERT of it, or if its id has the same time as the hash, for any INSERTs in any order. |
| `HealthLoggerProofs` | `RootIsSafe` | `RootChildrenKeep` | Loggers derived from the first logger never lose a pair, for any number of goroutines and loggers. |
| `HealthLoggerProofs` | `LossNeedsSharing` | `LostOnlyWhenShared` | A logger has lost pairs only if one it descends from has room in its array and was derived from more than once. |

*The inserter.* Few of these are inductive by themselves. That a record is in one place needs to know
that a record in the channel was sent, and that one in a batch has no
attempt; that an accepted record is attempted once needs that the places do
not overlap; that permits add up needs that two goroutines never
have the same records and place, else the set `jobs` would merge them, which
again is the disjointness of batches. And `Stop` is right only because of what
holds on the way: the channel is closed from the call on, the batchers are
done when the permits are taken, and a permit not taken is the only way for a
goroutine to be running. The inductive invariant

    IInv ==
      /\ TypeOK /\ LifeCycle /\ Places /\ Permits
      /\ Outcomes /\ Times /\ BatchRoom /\ GaugeAccounted

collects them: `LifeCycle` relates `phase`, `closed`, `bpc` and `taken`;
`Places` says where each record may be, given its call, its attempts and
the batches; `Permits` is `PermitsAccounted`; `Outcomes` and `Times` relate the
counter of dropped records and the tracked times to the attempts made. Each
conjunct has a lemma that a step keeps it, with one step of the proof per action,
and lemma `Inductive` puts them together.

`BatchRoom` is the invariant behind `BatchSizeBounded`: a batcher that may take one
more record has exactly one, or has room. `GaugeAccounted` is inductive given
`TypeOK` and `LifeCycle`.

The refinement builds on it and shows that the inserter implements
`RecordSink`: `InsertReject` and `InsertPanic` are `Refuse`, `InsertSend` is
`Accept`, `InsertReturns` is `Deliver` of the records of its job, `StopCall` is
`Close`, the `GrabWorker` that takes the last permit is `Finish`, and every other
step is a stutter. The guards of the sink are what the invariant is for:
`Deliver` asks for records that are accepted and undelivered (`Places`), for a bounded
number of them (`BatchRoom`) and for a sink that has not stopped (`Permits`,
`LifeCycle`); `Finish` asks that no record is left accepted.

*The pipeline.* Every step of `InsertPipeline` is a step of BatchInserter or leaves its
variables alone (`PipelineStep`), so the invariant above carries over
(`BaseHolds` takes from it what is needed). `StoredAsAnswered` needs more: a batch
that has called the service has a job that waits for it, or is done and its
records have been attempted (`Call`), hence two batches that have called share no
record, and the service repeats a statement only after an error. Both together
mean that a statement for a record can only be executed while no batch with that
record has succeeded.

`ImplementsRetryInsert` is the same for the other component: a step of the pipeline is
one of the service or leaves it alone, so its theorems hold of the composition too.
`SettledAtStop` is what the two have to say together. The inserter's invariant says
that every accepted record has been attempted when `Stop` has returned
(`StoppedMeansDrained`), `Settled` that a record that has been attempted is in a
batch that has come back from the service and that the service has counted one end
for each of these, and `Call` that a batch that has begun is in the hands of a job
until it has come back; no job is left, and so the batches that have begun are those
that have come back.

*Accounts.* A metric that adds up a function over goroutines, such as "retries so
far" or "rows not yet counted", would need induction over a set. The models number
what is counted instead: `Workers`, `Retried` and `RowsOf` are sets of pairs of a
goroutine (or a record) and a number, whose size is the sum. A step then adds or
removes the pairs of one goroutine, and the invariants carry, beside the account, that
these sets are finite (`Permits`, `Metrics`, `RowsInv`). With that

* `PermitsAccounted` of the deleter is inductive given how many permits `delete` has taken
  at each of its places (`Permits`), and `StopWaitsForWorkers` follows;
* `MetricsAccounted` of the retry service needs that a call that has ended has made
  an attempt, else its retries, one less than its attempts, would go below zero;
* `RowMetricsMatchTable` needs that ids are given out in order (`Typed`), so that an
  insertion never meets a row that is there;
* `RowMetricsMatch` of cassandra is three accounts: what is written is at most what is
  counted, the two are equal while no insertion has failed (`NoneFailed`), and what was
  read is what was delivered;
* `PoolAccounted` and both `EveryCallCounted` are sizes of sets of callers, of which a
  step moves one (`At`, `Underway`).

*The two connections.* PostgresConnect: `Creation` says how many pools are open at each
point, `Closing` where the signal of each call of `Close` is. No operation of
PostgresQueries changes anything of this (`QueriesKeepConnection`), so what is proved
of the connection, `CloseIsFinal` among it, holds while it is used
(`ClosedUnderQueries`). In CassandraConnection `Typed` also says what a caller's
record holds at each place, for a call that has returned must leave nothing behind
that the accounts would still count.

*The health logger.* The invariant relates any two slices that use one array, those of
loggers and those of calls under way. Either one descends from the other's logger
(`ancestors`), and is then not shorter, or both descend from a logger with that array
that has been derived from more than once (`Kin`). So when `append` writes into an
array, at a place past the end of the caller's own slice, a slice that has a pair there
is not one it descends from; it is kin, and the logger they both come from has room in
its array and two children, which is `Shared`. `Children` never shrinks: a call that
returns turns into a logger with the same parent. The first logger's array has no room
at all, for which reason its children are safe.

*The other components.* RetryInsert: no interval is longer than `LongestInterval`, and
what a call counts as its time, `age`, is the time that has gone by, `spent`, because no
other call resets it; so what `OutOfTime` finds at a retry bounds the time at which the
next attempt starts. BatchDeleter: `Popper` relates the popper, its
hand and the place of `delete`, which makes the gauge inductive; `Unborn`
says that nothing runs before `Start`. ListRefresher: `Sound` says that a caller
that scans has found no exact entry, and that no key it has tried matches; the map is
that of the version installed, never that of a query that failed (`InForce`); since
the map is swapped only when nobody reads, a miss is a miss in the map that is
in force. LongPolling: `Fresh` (each INSERT has a row id that no other has, and no row
before it is carried out), `Answered` (what the client has is newer than its hash, what
it had is not later than it), `StillThere` and `Orderly` (while nothing went wrong, a row
that was read has at least the id it was read with, and a row that is newer than the hash
and not in the answer has appeared since, with a greater id).

## 6. Only model-checked

Every safety property of a passing run is stated by a theorem. What is left to TLC is

* liveness, which is beyond the prover: `InsertIsSettled` of the inserter, `StopReturns`
  and `InsertReturnsFairly` of the pipeline, `ExpiredIsDeleted` and `StopReturnsOrAddWaits`
  of the deleter, `CallsEnd` of the retry service, `ChangeTakesEffect`,
  `StopEndsRefresher` and `InListReturns` of the refresher, `CloseEndsAll` of the
  postgresql connection;
* the three properties that the code violates, `BatchSizeRespected`, `StopDrains` and
  `WaitsCountedOnce`, for which a counterexample is the proof.

The operators of the models that recur over data are none of those the theorems speak
of: the sum `Calls` in `PostgresQueries` and its like only bound the runs.

## 7. Findings

Three statements of the repository are refuted by a run:

1. A batch may exceed its specified size: with `MaxBatchSize` 1 batches of 2 are written,
   since the size is compared only after a second record has joined
   (`inserter_batch_size`). 1 is valid, and what a negative value is replaced by; the doc
   of BatchInserter says that each batch doesn't pass a specified size. For the other
   values the size holds (`BatchSizeBounded`). `GroupLimit`, the bound of `RecordSink`,
   is what the code keeps, 2 in this case.
2. `Stop` of the deleter returns with records still in the set, or in the hands
   of the popper, that were added before; the comment says it waits for them
   (`deleter_stop_drains`). They stay in the database, where a later deleter
   finds them: nothing is lost, but the gauge keeps them for ever.
3. The counters of the connection pool add the difference to a baseline that
   never moves, so one wait is counted again every second (`pg_wait_count`).

Other behaviour that may surprise is stated by properties that hold:

* `Stop` panics a call of `Insert` that began before it and is blocked on the
  full channel (`InsertPanic`); its record is then nowhere in the pipeline.
* A RetryInsertService without `WithMeasures`, which is an option, panics on its
  first failure or at its end (`Panic`, `CallsEnd`).
* A third call of `Close` on a postgresql connection waits for ever (`CloseEndsAll`).
* A get limit of 0, which the validation admits, deletes nothing (the precondition of
  `ExpiredIsDeleted`).
* When the events table is missing the pool just opened is never closed
  (`FailsOnlyAfterRetries`).
* An `Add` that waits for room would keep `Stop` of the deleter waiting for ever
  (`StopReturnsOrAddWaits`).
* The cassandra counter of inserted rows, "The total number of rows inserted"
  (cassandra/metrics.go), counts batches that failed, and an INSERT that overwrites a row
  as one more; the postgres counter of deleted rows counts deletions that were not
  committed (`RowMetricsMatch`, `RowMetricsMatchTable`).
* A polling client misses records in three ways, and gets one twice in two: when its
  INSERT was repeated, and when ids of one time tie (`NothingSkipped`, `DeliveredOnce`).
* A cassandra `CreateDbConnection` with hosts and without a health panics (`NilHealth`).
* A dropped record may be in the database: its last answer was lost
  (`StoredAsAnswered`).
* Loggers derived from one that is itself derived can overwrite each other's pairs
  (`LostOnlyWhenShared`); those derived from the first logger cannot
  (`RootChildrenKeep`).

## 8. Not modelled, and abstractions

* `cassandra/logger.go` passes lines on. `db.go`, `event_types.go`, `*/metrics.go`, mocks
  and test helpers hold types, names and registrations, no behaviour (the
  counters themselves are variables). Connection strings, TLS and
  authentication, and health checks (`setupHealthCheck`), which only schedule
  `Ping`. The gauges of the postgres pool, which are copied like the counters
  and have no baseline: the reason why that life cycle counts as partly
  modelled.
* Contents of records, messages, logs and labels. A record is an identity.
* Real time. Tickers may fire at any moment, which includes every real timing;
  only `RetryInsert` and `LongPolling` have clocks, because a limit or ids are
  about them. `PostgresConnect` and `CassandraConnection` leave out the growing waiting times.
  The time to live of cassandra rows is left out: a row that expires between two polls is
  missed by the client, and one that expires is still counted by `stored`.
* In `InsertPipeline` a statement stores all its records or none, as a postgres transaction
  does. A cassandra batch that fails may store some of them, which `CassandraConnection`
  has and the pipeline has not; and what it stores twice is one row there.
* `Start` is called once and before `Stop`, `Stop` once; the list refresher's
  stop channel is closed once. Nothing in the code guards against other orders.
* The client of the long polling is not in this repository. It is taken to use each
  hash it gets, and to keep the one it has when it gets none. An id that is made
  of the zero time wraps to one in the year 1900, less than that of any row.
* Libraries: the capacity set (`BatchDeleter`, external, all its possible
  behaviours), the backoff library (`RetryInsert`), the connection pool
  and the object-relational mapper (`PostgresConnect`, `PostgresQueries`), the
  cassandra session, Go's `append` and `sync.RWMutex`.
* The bounds `MaxAttempts`, `MaxWaits`, `MaxTicks`, `MaxCalls`, `MaxRows`, `MaxTime`,
  `MaxInserts`, `MaxFields`, `MaxLoggers` and `Budget` have no counterpart in the code. They are guards of
  the actions that count.

## 9. Plan

Done: every component with state is modelled, the pipeline is composed of three
of them, the operations of postgresql run on its connection, and every safety property
that holds is proved.

Left, in this order:

1. The deleter over the table of `PostgresQueries` instead of one of its own, with
   lost answers, as `InsertPipeline` does for the inserter.
2. `CloseIsFinal` says what each call of `Close` has achieved; a refinement to
   an abstract connection would say it once for both databases.
