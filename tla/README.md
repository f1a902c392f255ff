# Verification of kvdb-nodejs

TLA+ models of the concurrent parts of kvdb-nodejs, the TLC runs that check them on
small instances, and TLAPS proofs of what matters most for every size. Paths such as
`core/batcher.ts` are relative to `src/src/`; every line a definition models is named in
`PROJECT.json` under `map`.

## 1. The system

kvdb-nodejs is a key-value and document library for Node.js over SQLite, PostgreSQL,
MySQL, MongoDB and Redis. A process is single-threaded: what runs between two `await`s is
one step, and calls of one process interleave only at their `await`s. Several processes
may share a database; between them only the database orders anything.

| Component | State | Operations | Talks to |
|---|---|---|---|
| WriteBatcher (`core/batcher.ts`) | pending buffer, batch in flight, sequence numbers, timer, promises of the callers | enqueue, enqueueDelete, flush, the timer, clear | Table's flush handler (callback), callers (promises) |
| Table (`core/table.ts`) | none but caches; one buffer | set, delete, update, get, find, bulk calls, prefix calls, soft delete, TTLs | buffer, point cache, query cache, driver, hooks |
| Queue (`queue/queue.ts`) | rows: state, attempts, token, lease, runAt | push, pop, ack, nack, heartbeat, retryFailed, clean, schedule | Table (`updateRecord`, find) |
| Worker (`queue/worker.ts`) | slots, timers, running and paused flags | start, pause, resume, close, the dispatch loop | Queue |
| LockManager (`lock/lock.ts`) | a row per key; a handle per holder | acquireLock, extend, heartbeat, release, withLock | Table.update |
| IdempotencyManager (`idempotency/idempotent.ts`) | a row per key | idempotent | Table.get, Table.update |
| Drivers (`drivers/*`) | rows, locks and gaps of the server | get, set, delete, update, find, count, scans, schemas | the database |
| Schema tables (`SchemaTableDriver` of `drivers/types.ts`) | rows with a primary key, columns, unique indexes | setRecord, setRecords, getRecord, getRecordByKey, updateRecord, delete, deleteRecords, clear | the database |
| KVDB (`core/kvdb.ts`) | connection, tables, queues, workers, timer | table, queue, worker, flush, close, connect | everything above |
| Cache (`cache/*`, `decorators/*`) | tiers, shared misses, refreshes | get, set, delete, wrap | stores |
| Schedules (part of `queue/queue.ts`) | a row per schedule; its next job, under an id made of name and time | schedule, unschedule, and what ack() and nack() do for the next job | Table, the queue itself |
| Schema evolution (`core/table-schema.ts`, the drivers) | table, columns, indexes; a row of the registry; a handle per process with its own schema | open, addKey, addIndex, dropTable | the database |
| Soft deletion (part of `core/table.ts`) | a field `_deletedAt` in the value | delete, restore, hardDelete | buffer or driver |
| PubSub (`pubsub/pubsub.ts`) | subscribers, high-water mark, poll timer | publish, subscribe, unsubscribe, close, the poll | event table |
| RateLimiter (`limiter/rate-limiter.ts`) | two counters per key | consume, check, reset | Table.increment |
| Blob (`blob/blob.ts`) | manifest and chunks | putBlob, getBlob, deleteBlob | Table |
| Query (`query/*`, dialects) | none | parse, evaluate, compile | drivers |
| Plugins, metrics, serializer, errors, Keyv adapter | none that is read back | | |

What is hard: reads that must look into a buffer, a batch in flight, caches and the
storage while a value moves from one to the next; sequence numbers that let `flush()` go;
batches that fail half-way; leases that run out under a live holder; checks that are made
on what was read before an `await`; mutators that a driver runs more than once; rows that
do not exist and so cannot be locked; crashes between two writes; a lost reply; records
that belong together and are written one by one; a high-water mark over what arrives out of
order; five backends with their own ideas of null, of types, of order and of a unique index.

What makes each part correct: a write is answered once and only when it is stored (or
rejected); a read sees every write answered before it began; updates are not lost; a query
finds the same rows whatever the backend, and pages have every row once; a job
has one holder, and an acknowledged one is not run again; a lock has one owner; a function
under an idempotency key runs once; a schedule goes on, and runs once for each time; what an
evolved schema lists is there; a message is heard in order; a blob comes whole or not at all;
a limit is kept.

## 2. Modules

| Module | Models | State and actions |
|---|---|---|
| `WriteBatcher` | `core/batcher.ts` | `pending`, `inFlight`, `currentSeq`, `completedSeq`, the timer, the activations of `flush()`; an action for a call (`Enqueue`, held back in `LeaveFlush`), `CallFlush`, `TimerFires`, `Resume`, `HandlerResolves`, `HandlerRejects`, `Clear` |
| `TableData` | the data path of `core/table.ts` over that buffer | one key: the buffer, the batch, the storage, point cache and query cache; every call is a sequence of actions between its awaits |
| `JobQueue` | `queue/queue.ts`, what one slot of a worker does with its job | the rows of the jobs, consumers, threads of retryFailed() and clean(), the clock; reads and writes are separate actions |
| `RowUpdate` | the contract in `drivers/types.ts` | one row, one step per operation, and the two anomalies that a driver may have |
| `DriverUpdate` | the five drivers | the same row with its locks, gaps, compare-and-swaps, lazy deletes and lost connections; implements `RowUpdate` |
| `SchemaTable` | the schema tables of four drivers | the rows with a value, a column (`mark`) that may be unique, and a life; the calls; an action per statement or transaction |
| `SchemaEvolution` | opening and altering schema tables: `core/table-schema.ts`, four drivers, `Table.schemaDriver` | the table's columns and indexes, the registry, a handle per process; an action per statement of openSchemaTable(), addKey(), addIndex() and dropSchemaTable(), a crash, a failed statement |
| `SoftDelete` | `delete`, `restore`, `hardDelete` of `core/table.ts` | one record; the read and the write of a call are two actions |
| `Schedule` | schedule(), unschedule(), `triggerNextSchedule` of `queue/queue.ts`, `getNextCronTime` | the jobs of one schedule by the time in their id, workers that complete, reject, crash or lose their lease in the middle; names and ids as sequences of their parts between colons (`ScheduleName`, `Found`), a local clock that is put back (`Local`, `Instant`) |
| `PubSub` | `pubsub/pubsub.ts` | messages and records, handlers in the Set and on the local bus, polls that overlap (`PollFinds`, `PollDelivers`) |
| `RateLimiter` | `limiter/rate-limiter.ts` | the counters of the windows and when they expire; consume() is a read and an increment |
| `TieredCache` | `cache/cache.ts` and the decorators | tiers, `inFlightMisses`, refreshes; an action per access of a store |
| `BlobStore` | `blob/blob.ts` | manifest and chunks; an action per record |
| `Query` | `query/*`, the dialects, the compiler to MongoDB | none: `parseWhere`, `parseSchemaWhere`, `evaluateQuery`, `compileWhere`, `compileMongoFilter` as operators over small documents, what each server answers to what was compiled, and how it sorts |
| `Find` | find() and count() of the table and the drivers | a client that reads page after page (`NextPage`), counts (`Counts`) or is refused (`Fails`); `Listings` is the set of answers a backend may give. What a row is to a query and how rows are sorted are parameters (`Answers`, `SortsBefore`) |
| `DistLock` | `lock/lock.ts` | the row, the handles, the heartbeats; an action for every attempt, extension and release, and for the failure of each |
| `Idempotency` | `idempotency/idempotent.ts` | the record and the calls; mutators run apart from their writes where the driver does so |
| `Worker` | `queue/worker.ts` | flags, dispatch loop, sleep, `activeJobs` and `activePromises`, the calls of close(); an action per stretch of code between two awaits |
| `Lifecycle` | `core/kvdb.ts` | the connection, its timer, one worker (`EXTENDS Worker`: each of its steps is a step here, and what awaits the storage needs a connection), the buffered writes, close() |
| `MC...` | | the sets of callers, calls and operations of the runs; `MCFind` has `Find` with the answers of `Query`, and what ties the two (`BackendsAgree`, `FindAgrees`) |
| `Services` | the six services that stand by themselves: `PubSub`, `RateLimiter`, `TieredCache`, `BlobStore`, `SoftDelete`, `Schedule` | an instance of each, with constants of its own; a variable `part` says which of them the behaviour is one of, and the others stay as they are at first |
| `MCJobs`, `MCSchemaTable` | | two modules in one run (`MCJobs` has an instance of the second, `MCSchemaTable` extends both), with a `part` as in `Services` |
| `MCWriteBatcher` | | two batchers in one run, of different sizes (`Singles` is the second instance), with such a `part` |
| `...Proofs` | | theorems and lemmas |

How they fit: `DriverUpdate` says what `Table.update` may do on each driver.
`DistLock` ("locked", "optimistic", "racy") and `Idempotency` (by provider) use exactly
these ways to update a row; `JobQueue` has them as `AtomicRow` (the row is read and written
in one step, or compared by value only as MongoDB's `updateRecord` does). `Schedule` takes from
`JobQueue` as much as decides which jobs run; `RateLimiter` takes increment() for one step, which
it is as long as `Table.update` keeps its contract. `TableData` uses
the buffer of `WriteBatcher` reduced to one key, with failures and merges; a table is a
record of options (`Tables`: buffered, cached, what it may be asked), and the run is over
several such tables. In `Find` an answer is the rows that match, ordered and sliced as the driver does
it; whether a row matches, by an evaluator in memory or by a server, is said in `Query`, which the
configuration gives to `Find`. `Lifecycle` composes `Worker` with what `WriteBatcher` promises: one
batch at a time, and a flush() that waits for the writes buffered before it.

Data is abstracted to what the properties tell apart. A value in `RowUpdate`,
`DriverUpdate` and `TableData` is the set of the calls whose effect is still visible in it,
so that a lost update is a missing member; elsewhere it goes by the name of the call that wrote
it. Time is counted in ticks; in `DistLock`, `Idempotency` and `JobQueue` a duration is what is
left of it. The clocks of all processes agree:
the code assumes it (leases are absolute times that other processes compare with theirs).

Ghost variables, which the code does not have, are marked as such where they are declared
(`amiss` in `Idempotency`; the histories in `TableData`, `WriteBatcher`, `JobQueue`, `Schedule`,
`PubSub`, `RateLimiter` and `TieredCache`).

## 3. Runs

| Run | Question | Bounds |
|---|---|---|
| `batcher_calls` | Does a merged, snapshotted, failed or held-back write lose its caller, its turn or its value; is everybody answered, callers of flush() too, with clear() between batches? | 3 calls of 2 keys, batches and a buffer of 2; 4 calls of one key, batches and a buffer of 1, of which 2 at a time are held back; 1 explicit flush, failures, clear() |
| `table_calls` | Do reads see every write answered before them, does any write path leave a cache incoherent, is an update lost? | concurrent calls without caches; calls one at a time with both caches, with the buffer and without it; failures |
| `queue_leases` | Who holds a job; is an acknowledged one final, are attempts counted right, is a job never dropped? | 2 jobs, 2 consumers, crashes, failing calls, upkeep |
| `jobs_all` | Is a job of a worker left when close() returns, is a ready job left lying? Does every job end, on the weakest driver, with everything late? | 3 jobs, 2 slots, 2 callers of close(); MongoDB's comparison, leases that run out, 3 faults, 3 attempts |
| `driver_promise` | Does every driver keep the contract? | 4 callers, 5 drivers, expiry, 2 attempts |
| `schema_tables` | Is what was answered stored under its key, and has what was refused left nothing? And does a table that evolves serve the handles that are open, and keep what it has answered? | 3 calls, 2 rows, 1 value of a unique column, 4 drivers, expiry, 2 attempts; 2 processes, 2 calls, 3 keys, 2 faults, on 4 drivers |
| `find_pages` | Does a query find the same rows on every backend; have pages every row once; does count() agree? | 7 tables of 3 rows, about a thousand queries with every operator, sorts, pages of 1 and 2 |
| `lock_handles` | Is a handle right about its lock; does a lock come back; does everybody return? | 2 callers, 3 kinds of drivers, a lease of 2, 2 faults |
| `idempotency_calls` | One function at a time, one result, nobody waits for ever? | 2 calls, 5 drivers, 1 fault, time-out of 1 |
| `lifecycle_close` | Does close() cut anything off, leave anything open, or never return? | 1 worker with 1 slot, 2 jobs, 3 buffered writes, one of a processor; connecting may fail |
| `services_all` | Are messages heard in order, and do they arrive; is the limit kept; is a value computed once and do the tiers agree; does a blob come whole; does soft deletion invent a value; does a schedule go on, and run once for each time? | 3 messages, 2 processes, 2 polls, a page of 1; 3 calls, 3 windows; 3 calls, 1 refresh, 2 tiers; 4 writers of up to 2 chunks; 3 callers, 5 calls; a schedule with 2 callers, 2 workers, 4 plans (one with jobs of another schedule that lead to it, one with a clock that is put back by 2) and a clock of 4 |
| `idempotency_claimers` | violation | see section 6 |

A run over several modules is the union of their runs: a behaviour is one of one module, and a
property of another module holds in it as it does at first. What each shows is what it would
show alone.

Why the bounds are enough to be of interest: a batch, its successor and a write that is
merged need three calls. With sizes of 2 nobody is held back by three calls, as a batch in flight
and a full buffer take them all: with sizes of 1, a batch, a buffered write and two calls that are held
back together, which overrun the buffer when they go on, are four calls. In FIFO mode, where nothing is
merged, `MCWriteBatcher_live` (below) has a fourth call too; every race in the
table, the queue, the lock and the drivers is between two actors about one row, with a
third whose effect is overwritten (four callers of a driver give two such pairs); a lease
of two ticks has a beginning, an end and a moment in between; one fault shows what a
failed step leaves, two show a failure during the recovery from the first. The mutants in
`PROJECT.json` show that each property can fail within its run's bounds. The attempts of a
compare-and-swap (50 of redis, 256 of mongodb) are 2, so that giving up happens. A query is about a
row at a time and an order about two rows, so that three rows, of which one has expired or was
deleted, show what a query, a sort and a page can get wrong; the values are there for their
types and for orders that differ (2, 3 and 10 are in another order as texts). A high-water mark
goes wrong with a message that was stored late, one that it passed over and one that it is now at;
a sliding window of two counters needs the first window, the second and what is left of a counter
in the third; a blob of two chunks can be half of one writer's and half of another's; three calls
of a cache are one that computes, one that joins and one that deletes or comes after. Evolving a
schema, the race is between two calls, of one process or two, and a second open; the second fault
hits the attempt that follows the first.

Two more configurations pass and are kept to be run by hand, because they ask the questions
above of a larger instance: `MCWriteBatcher_live` (`CallsAnswered`, FIFO mode, four calls of a
key) and `MCTableData_updates` (`UpdatesKept`, and `CallsReturn`: every call of a table returns).

`CHECK_DEADLOCK FALSE` is set where calls are finite: when all are answered nothing is
left to do. The locks and the idempotency manager are checked with deadlock detection
(their clock always ticks), the life cycle too (a loop that sleeps wakes up, and a program may
start again).

### Fairness

Weak fairness is given to what the runtime or a server does by itself: armed timers fire
and resolved promises continue (the event loop), a call of the storage returns or fails,
the clock advances. For the queue `jobs_all` also assumes that a worker polls, which its loop does for
as long as it runs, and that a processor ends: `SF_vars(ProcessorFails(c) \/ AckRead(c))`.
It is strong because a heartbeat in flight disables those steps for a moment and beats may
recur for as long as the processor runs; a processor that hangs keeps its job leased forever
by design, and then nothing is promised. The worker of `jobs_all` and `lifecycle_close` assume the
same of processors: in `Lifecycle`, that one whose buffered writes are answered ends. Two more
assumptions are strong: connecting is tried again with every operation and succeeds when it is
tried for ever (`SF_vars(Connected(n))`), and a job that is ready whenever pop() asks is
returned at last, among others that are ready too (`SF_vars` of `PopTakes`). In `PubSub` the interval fires again and again for as long as it is
armed (`WF_vars(PollFinds(p))`) and a query is answered (`WF_vars(PollDelivers(p))`); that the
storage stores a message is not assumed, since publish() swallows its failure. No fairness is given to callers, to the function of
an idempotent call (it may hang), to release(), to start(), pause(), resume() and close(), to the start of heartbeats or to faults;
faults are bounded in number.

## 4. Proofs

Every theorem holds for all values of the constants that satisfy the module's assumption:
any number of callers, keys, jobs and faults, any times.

- **WriteBatcher** (`WriteBatcherProofs`). `Inv` = types, each caller is accounted
  for exactly once among the buffer, the batch and the settled (`Accounted`), coalescing
  keeps one slot per key (`OneSlot`), a batch is in key order (`Ordered`), a held-back call
  is nowhere else (`HeldOnce`), and an idle batcher has no batch (`Quiet`). `PromiseAccounting`
  alone is not inductive: a snapshot moves entries, and only `OneSlot` and `HeldOnce` say
  that a merge cannot bring a caller in twice. Holds with failures and clear().
  `LastWriteWins` rests on `LastInv`: calls are numbered as they are buffered and settled in that
  order (`Numbered`), an entry does what the last of its callers asked (`Tells`), and the entries
  of a key are in the order of their calls (`InTurn`), those of the batch before those of the
  buffer. A batch that fails is rejected as a whole and never written late, and one batch is in
  flight at a time.
- **Barrier of flush()** (also there). `SeqInv` = the sequence numbers divide
  the unsettled calls between batch and buffer, no waiter's target lies beyond what was given
  out, and a buffered write is scheduled. From it follow `SeqBehindUnsettled`, `FlushScheduled`
  and `FlushBarrier`. Assumed: clear() does not meet a batch in flight.
- **TableData** (`TableDataProofs`). `Sound` is the invariant. `Base`: the calls that wait are those
  of the two slots, each call does only what its kind does (`Doing`), and what a call knew when it began
  is settled or buffered (`Known`). `Slots`: what a slot stores has an author whose own writes and
  everything before it are in it. `Storage`: what storage has been told is in it, or in the slot that
  will overwrite it (`Kept`), and nothing that was overwritten is (`Clean`). `Solo` and `Current`: in
  serial use one call is under way, and both caches are empty or as the storage is. `UpdatesKept` needs
  `Slots`, since an update computed from the buffer is only as good as what it read there.
  The theorems ask what the code needs: that no update is held back between its read and the buffer
  (`Unheld`; the table `HeldUpdate` of section 6 loses one), for reads that caches are absent or calls
  wait for each other, no batch fails and nobody calls clear() (`Faithful`; `CacheFill`, `QueryFill`,
  `FailedDelete`, `ClearedCache`), and for `NoLostWrite` that no point read meets an update that goes past
  a batch (`Apart`; `InFlightRead`). All tables of the run meet these conditions, and the number of
  calls is any.
- **JobQueue** (`JobQueueProofs`). First `EveryAttemptCounts`, for drivers that update a row
  in one step (`AtomicRow`), whatever runs late. Then `OneHolder`, `AckIsFinal` and `NoneDropped`
  for calls that are `Punctual`: the driver updates a row in one step, consumers finish or extend
  before their lease ends, no heartbeat overlaps the end of its job, and one retryFailed() or
  clean() runs at a time (section 6 shows each condition to be needed). The invariant
  `Leased`: a consumer at work owns an active row with its token and a lease that has not run out
  (`HeldRows`, `Timely`), tokens that were handed out are all different (`TokensApart`), a beat in
  flight belongs to a consumer at work (`BeatsWork`), and what the upkeep has found is settled
  still (`FoundSettled`). `AckedIsFinal` is a conjunct: by itself it is not inductive, because only
  `HeldRows` says that who acknowledges is the holder, so that no other is left to write the row.
- **Drivers** (`DriverProofs`, first part). `DriversKeepPromise`: `DriverUpdate` implements
  `RowUpdate` under the mapping `Promised` (locks, gaps and attempts are hidden; a caller that
  has read nothing on a racy driver is "fresh", one about to delete an expired row is
  "dropping"). The invariant says that whoever has read a row on PostgreSQL or MySQL still
  holds it, or its gap, so that what is written was computed from what is there.
- **Lock** (`DistLockProofs`). `MutualExclusion` and `HandlesTellTheTruth` when no release
  arrives late (`~LateRelease`). The row must outlive its lease (`RowLasts`), and a write over
  a missing row happens on racy drivers only (`FreshIsRacy`); `HandleTruthful` is then
  inductive: an extension rewrites the caller's own row only.
- **Idempotency** (`IdempotencyProofs`). On sqlite: `NoTwoAtATime`, `OneResultOnSqlite`,
  `ResultsStayOnSqlite`. The invariant: the record belongs to the call that works and is no
  older than its claim, and no claim is made without the row it is written to. `OneAtATime`
  and `ResultStays` hold as long as nothing is `amiss` (a function outlives timeoutMs, a
  record expires, a claim cannot be written), `OneResultOnSqlite` also needs that nothing
  fails: a result that cannot be recorded is computed again.
- **Worker** (`LifecycleProofs`, first part). `CloseStops`: when close() returns there is no loop and no job,
  if start() waits for it. `SlotsHold`: the slots are not overrun, if, besides, no job is handed
  out that is still in progress here. The invariant: one loop at a time, the one that close()
  awaits (`LoopAlone`), one caller of close() that waits (`CloserAlone`) for all the jobs
  (`JobsAwaited`), and a loop that fills slots has no more of them left than are free
  (`SlotsKept`). `ConcurrencyKept` counts processors, and the code counts entries by job id:
  `OneRunEach` says that these are the same in number.
- **Life cycle** (`LifecycleProofs`, second part). `NothingLeft`: a KVDB that was closed and not used
  since runs nothing, holds no write back and has no connection (`ClosedIsQuiet`). `ServedBefore`:
  close() closes no connection that an operation has got (`NothingCutOff`). For any number of
  connections, writes, jobs and callers, whether connecting fails or not, and for a program that is
  `Orderly`: it does not call while close() runs, does not start again a worker it has closed, and
  its heartbeats end before their jobs (section 6 shows each of these needed; the code waits for no
  heartbeat, so the third is a condition on the storage). `WorkerWithin`: what the worker does in a
  KVDB it does by itself too, so `CloseStops` and the others hold here. The invariant follows close()
  step by step: one is under way at a time (`InOrder`); a worker is listed while it runs or is being
  closed (`Listed`), and one that is neither has no loop and no job (`Gone`); so nothing is buffered
  after flush() has begun but what flush() awaits (`Emptied`); who has got a connection awaits an
  answer (`Held`), so that when the buffer is empty nobody has one; and the connection in use is
  that of driverPromise or, when there is none, the one that is being closed (`Linked`).

- **Services** (`ServicesProofs`), of which `Inv` is one invariant for each; a service that does not
  run keeps its own. The settings of `services_all` meet the conditions below (the plan whose pushes
  fail meets that of `ChainsHold` by halves, but is not one of which `KeepsRunning` speaks), and
  section 6 shows what happens without them.
  - PubSub, `OrderedHearing`: whatever polls overlap and whatever fails, a handler hears messages of
    other processes in the order of their timestamps. What was heard lies behind the high-water mark
    (`Behind`), and a poll processes only what lies beyond it, one record of each timestamp.
  - RateLimiter, `LimitHolds`: calls grant no more than the limit, if they are quick (`CallsAreQuick`:
    a call takes no longer than a window, and as many as the limit, one after the other, less than
    one). A counter that has granted tokens has counted them and lives for as long as they weigh
    (`AllCounted`); a call has read all that the window before had granted, or the share of it that
    still weighs is less than a token (`AllSeen`).
  - TieredCache, `OneRunnerAtATime` and `TiersAgree`: the function that runs is the one that the
    shared miss belongs to (`OneWrap`); where calls wait for each other and stores answer, every
    tier has what was written last, or nothing, but for those that a call has yet to write, and what
    a call writes is what was written last (`InTurn`).
  - BlobStore, `BlobsAreWhole`, for keys that are written once, or calls that wait for each other and
    do not fail (`Tidy`): all there is comes from the one call (`WrittenOnce`), or the chunks that
    the manifest speaks of are its own, or gone, unless a call is writing (`OneAtOnce`); so what a
    reader has collected is of the blob whose manifest it has read (`Reading`).
  - SoftDelete, `NoneInvented`: every value that is stored or on its way is one that was put or one
    with a deletion mark, which comes off again without a trace. Values that are set bear no such mark
    themselves, and are not `{ _value }` (`PlainValues`).
  - Schedule, `TimesAreOnce`: the job of a time runs once, if pushes are prompt and no match falls into
    the time that a clock put back repeats (`Steady`): then the next run is later than now, at whatever
    time it is computed (`NextRunIsATime`). What is to come
    has not been begun (`InTime`), and a job that has had no attempt was not begun before (`OnceEach`).
    `ChainsHold`: the chain goes on, if, besides, neither name has a colon (`PlainNames`, under which
    the row that triggerNextSchedule() looks for is the schedule's own: `PlainIsFound`), and nobody dies, or
    jobs are removed when they are done and none is rejected. There is always a push to come, a pending job that nobody is about to
    delete or, if nobody dies, a worker that will push (`Link`).

- **Schema tables** (`ServicesProofs`, last part, with `SchemaTable` as it is). `UpdatesStay`: what a call
  has written stays under its key until it is written over, deleted or expires (`WritesKept`), on a
  table that is `Keeping`: no unique column on MySQL (`KeysNameRows`), expired rows are deleted by reads
  only where that is one step or nothing is written (`ReadsDropNothing`), and where there is no gap lock
  every update finds its row (`UpdatesFindRows`). Section 6 shows each needed: `MysqlUnique`, `LazyReads`,
  `MissingRow`. `KeepInv`: an update that has read its row holds it or the gap, so it still knows
  all that is in it when it writes (`ReadsCurrent`); on MongoDB, it writes over what it has read or not at
  all; so no update drops the name of a call that was answered (`ClaimsKept`), not even of one whose bulk
  is half done. `NothingRefusedStays`: a call that was refused has left nothing (`RefusedLeavesNothing`),
  on a table that is `Whole`: no setRecords() with a unique column on MongoDB (`MongoBatch`). By itself the
  property is not inductive: an update spreads what it has read, so nobody may have read of a call
  that is not answered either (`Unwritten`). All tables of `schema_tables` are `Keeping` and `Whole`.
- **Schema evolution** (`DriverProofs`, second part). `EveryHandleServed`: no open handle lists a key
  whose column is missing or of another type (`HandlesServed`), for any processes, calls, names and
  faults. By itself the property is not inductive: a handle opens what the registry says, and a call
  that has read its schema writes it later. `ServedInv` says of every schema in use that its keys have
  their columns: of those that processes declare once a table is there (`TableSound`), of the registry,
  of a handle from the moment its table was created (`HandleSound`), and of what a call will write,
  except for the key it is about to add (`ChangeSound`). Conditions: the processes declare one schema
  (`OneDeclaration`; `TableTaken` of section 6), no key is added with two types unless the database
  refuses the second column (`OneType`; `TypeTaken`), and who drops the table is the only one to open
  it, without faults in between (`DropsAlone`; `DropCrashes`).
  `NothingIsForgotten`: what a call has answered is in the registry and in the table
  (`NothingForgotten`), if besides one process alters the table, one call at a time, and the last
  statement of a call does not fail (`OneAtATime`; `TwoEvolve`, `AtOnce`, `Unwritten`), and indexes that
  are asked for are not declared under the same key, nor asked for twice where an index that is there
  is taken for the new one (`NewIndexes`; `OverPlain`). The other process may open the table, fail and
  crash. `KeptInv`: one call is under way at a time (`Alone`), the handle of the process that
  alters the table is the registry or one call ahead of it (`Current`, `AheadByOne`), an index the
  registry lists is built as it is listed (`IndexSound`), and so the registry that a call writes has
  all that it had. All settings of `schema_tables` are `Orderly` and of `OneType`; all but those of
  two processes that add the same key (`TwoTypes`) are `Lasting`, so that for these two
  `NothingForgotten` is only model-checked.

- **Pages** (`DriverProofs`, third part). `EveryRowOnce`: the pages of a query have no row twice and
  together every row, if the order tells the rows apart, and count() says how many they are
  (`EachRowOnce`), for any tables, queries and backends: whatever `Answers` and `SortsBefore` say, which
  need not even be transitive. If of any two rows one is sorted before the other, no two listings
  differ (`OneListing`: look at the first place where they do), and the pages continue it from the
  offset on (`PagesInv`, `ListedInv`). Assumed (`Paged`): soft-deleted rows are not left out, and the
  limit is not 0, which MongoDB takes for none and the others for no row. With soft deletion and no
  limit `EachRowOnce` is only model-checked, since the prover does not know `SelectSeq`.

Only model-checked: all of `Query`, with `BackendsAgree` and `FindAgrees` (its operators are RECURSIVE, for
which the prover has no backend, and what they say of every query takes an induction over
queries); all liveness (the prover has no rules for fairness). The types of the proved
modules, `OneOperationPerKey` of the batcher (an operation per key and batch), `FlushScheduled`,
`Exclusive` of the lock, `OnceOnlyOnSqlite` and `ConcurrencyKept` are proved and have no run.
`NoOrphan` of `Lifecycle` is proved as a part of `Linked`, and `BuriedAfterMax` of `JobQueue` is there to
be added to a run by hand.

## 5. Assumptions and limits

- Statements of a server are atomic. MySQL's gap locks and READ COMMITTED in PostgreSQL are
  modelled as far as one row needs them.
- In `DriverUpdate`, `JobQueue` and `SchemaTable` a database call that fails has written nothing: no
  reply is lost after the write. With such a reply an update() that is reported failed is in the row;
  a pop() whose claim was written (queue.ts:225) counts an attempt nobody runs, so that
  `AttemptsCounted` and `BuriedAfterMax` do not hold, and its job waits for its lease to run out; a
  worker whose ack() was written (queue.ts:280) sends a nack() that is refused for its token
  (queue.ts:306) and reports a failure of a job that is completed.
- One extension of a lock handle is under way at a time and uses the lock's own ttl.
- The tables of locks and idempotency records have no cache (with a shared `cache` option
  of KVDB they have one, of which another process knows nothing).
- The markers `Absent` and `Nothing` of `TableData` are no values (`SentinelAssumption`).
- `TableData` follows one key; calls on several keys are there as far as they touch it.
  TTLs, prefix calls and hooks (but for their await) are not modelled; soft deletion is, by itself,
  in `SoftDelete`. A TTL is shortened by the time its write waits in the buffer (table.ts:236); times
  in the buffer would multiply its states beyond what can be searched.
- The tables of `schema_tables` are those that keep what was written (`Kept`): `WritesKept` and `RefusedLeavesNothing` fail elsewhere, as section 6 shows. Records of one call
  have different keys, setRecords() has two of them, an update changes the value; updates of columns only
  are in `JobQueue`.
- In `Query` a string is its rank and reads as no number; operands are scalars, or arrays of them
  for `$in` and `$nin`. Texts are ordered alike by all (collations are not modelled), and
  `BackendsAgree` speaks of the queries for which `Portable` says so: the operand is of the type of
  what is there, and a null or a missing field is not under a negation that SQL does not see through.
- `JobQueue` pushes every id once; pushes under an id that exists are in `Schedule`. In
  `queue_leases` consumers finish or extend within their
  lease and a heartbeat does not overlap the end of its job: without that the properties do
  not hold, as section 6 shows.
- `Schedule`: one schedule, whose expression matches every so many minutes of the local clock; when a
  crash loses a trigger (`CrashBetween`) the schedule ends, so the checked crashes are of jobs that are
  removed when they complete, which are triggered before they go. A schedule or a queue with a colon
  in its name ends after its first job, without any failure (`ColonNames`), so `KeepsRunning` speaks of
  names without one. The clock of the run is put back once, between two matches; with matches in the
  hour that is repeated both properties fail (`PutBack`).
- `SchemaEvolution` evolves a table from one process at a time, or the same key from two where the
  database refuses the second; what happens otherwise is in section 6.
- `PubSub`: a message is published once, and a handler is subscribed once. `MessagesArrive` speaks of
  messages that are stored in the order of their timestamps and have one of their own.
- `RateLimiter`: calls are quick (`CallsAreQuick`; in the run a call takes no longer than a third of
  a window), and the counters are of one key.
- `TieredCache` and `BlobStore` follow one key. The tiers agree when calls wait for each other and no
  store fails; a blob comes whole when its key is written once, or calls wait for each other.

Not modelled: the serializer, key encoding, expiry arithmetic and error classes (pure conversions;
the models have what matters of them, such as a row that is expired and still there), plugins (a list
of functions called in order), metrics (counters nothing reads back), the Keyv adapter (forwarding),
prefix scans, bulk statements of plain tables, the parser of cron expressions (which minutes match), watch events.

## 6. Where code and documentation disagree

One run of the list is a counterexample. `idempotency_claimers`: two calls on Redis run
their functions both.

The configurations of this table are counterexamples, kept to
be run by hand (`tlc -config <cfg> <module>`); TLC reports a violation in each.

| Configuration | Violated | What the code does |
|---|---|---|
| `MCWriteBatcher_buffer_bound` | `BufferBounded` | capacity is tested before an await only (batcher.ts:184): the calls held back overrun "maximum in-memory queue capacity" |
| `MCWriteBatcher_fifo_admission` | `FifoAdmission` | a held-back call is overtaken by a later one, in "strictly sequential FIFO" mode |
| `MCWriteBatcher_flush_persists` | `FlushPersists` | flush() returns without an error after a failed batch, "guarantees ... persistence" |
| `MCWriteBatcher_delete_result` | `DeleteReportsExistence` | a merged or repeated delete() answers for the batch, not for the call |
| `MCWriteBatcher_clear_wedge` | `CallsAnswered` | clear() during a batch leaves a settled promise in activeFlushPromise; nothing is flushed any more (nothing in the library calls clear()) |

These show when a constant is changed in the configuration of a run (`Callers <- ...` replaces one
definition of the MC module by another), and the property that is named is checked instead:

| Configuration, with | Violated | What the code does |
|---|---|---|
| `MCJobQueue_leases`, `LeaseKept = FALSE` | `AckedIsFinal` | nack() compares the token before it writes, not when it writes |
| `BeatOverlaps = TRUE`, `Consumers = {c1, c2, c3}` | `Exclusive` | so does heartbeat(), which shortens the next holder's lease |
| `Maintainers = {m1, m2}` | `AckedIsFinal` | retryFailed() does not look at the state again |
| `Maintainers = {m1, m2}` | `NeverDropped` | clean() deletes what retryFailed() has put back |
| `AtomicRow = FALSE` | `Exclusive` | MongoDB's updateRecord compares the value only, a claim changes columns only |
| `MaxAttempts = 1` | `AttemptsBounded` | a job that kills its consumers is handed out beyond maxAttempts |
| no change | `DelayRespected` | a claim does not compare runAt again |
| no change | `LargestFirst` | the smaller priority goes first; the documentation says the larger (SPEC.md:327) |
| `MCServices_all`, no change | `S!OneChain` | a second schedule() of an interval starts a second chain of jobs |
| `MCDriverUpdate_promise`, `Operations = {"update"}`, `Expires = FALSE` | `UpdatesSerialize` | PostgreSQL: two updates of a missing row, one is lost (MongoDB alike; its comment says so) |
| `MCDistLock_handles`, `LateRelease = TRUE`, `Callers <- ThreeCallers` | `Exclusive` | a late release writes the next holder's record back with a ttl of 1 ms |
| `MCJobs_all`, `Overlap = TRUE` | `ConcurrencyKept` | `activeJobs` has one entry per job id: when the queue hands out a job again whose processor is still running here, two runs share an entry and the first that ends frees the slot of both |
| `MCJobs_all`, `StartWhileClosing = TRUE`, `Loops = {l1, l2}` | `ClosedIsStopped` | start() during close() makes a second loop; close() does not wait for it and clears its entries |
| `MCLifecycle_close`, `TtlCleanup = TRUE` | `TimerCleared` | close() clears the timer first; a flush that opens the connection arms it again, although it "is cleared on close()" (kvdb.ts:79) |
| `BeatOverlaps = TRUE` | `ClosedIsQuiet`, `NothingCutOff` | a heartbeat is awaited by nobody: it opens a connection after close(), or loses its own under it |
| `LateCalls = TRUE` | `ClosedIsQuiet`, `NothingCutOff`; with two `Closers` `NoOrphan` | close() flushes once and refuses no call; a second close() does not wait for the first |
| `Restarts = TRUE` | `ClosedIsQuiet`, `NothingCutOff` | a worker that was closed and started again is not in `activeWorkers`: close() of the KVDB leaves it running |

These show when the tables of a run are replaced by others of its module: `Tables <- ...` in
`MCTableData_calls.cfg` and in `MCSchemaTable_tables.cfg` (there without `SYMMETRY` for
`RefusedForReason`, which is a `PROPERTY`):

| `Tables` | Violated | What the code does |
|---|---|---|
| `CacheFill` (TableData) | `NoStaleRead`, `NoLostWrite` | get() puts a value into the cache that was overwritten while it waited; SPEC.md:502 promises "100%" reads of the latest state |
| `QueryFill` | `NoStaleRead`, `NoLostWrite` | find() fills the query cache after a write has invalidated it |
| `FailedDelete`, `Calls <- FiveCalls` | `NoStaleRead` | a batch that fails half-way does not invalidate the query cache |
| `HeldUpdate` | `UpdatesKept` | a hook or backpressure awaits between the reading and the buffering of an update |
| `InFlightRead` | `NoLostWrite` | get() answers from the snapshot although the storage has moved on |
| `ClearedCache` | `NoStaleRead` | Table.clear() leaves the point cache |
| `MysqlUnique` (SchemaTable) | `WritesKept` | ON DUPLICATE KEY UPDATE (mysql-driver.ts:571) meets the row that has the unique column and overwrites it; the key that was written does not exist |
| `LazyReads` | `WritesKept` | a read that met an expired row deletes by key what was written since |
| `MissingRow` | `WritesKept` | PostgreSQL: two updates of a missing row, one is lost |
| `MongoBatch` | `RefusedLeavesNothing` | bulkWrite() stops at the record that is refused and keeps those before it; drivers/types.ts:36 says "atomic batch record insertion" |
| `MongoNulls` | `RefusedForReason` | a second record without the unique column is refused |
| `ExpiredHolders` | `RefusedForReason` | a record is refused for one that has expired |

These show when a property is added to `MCFind_pages.cfg`:

| Property | What the code does |
|---|---|
| `Fidelity` | SQL drops rows under $ne, $not, $nor and $nin that the evaluator finds, and compares values of different types in its own way; query/evaluator.ts promises "100% semantic fidelity" |
| `NumericSort` | PostgreSQL and MySQL sort a number in a document as a text, though mysql/dialect.ts speaks of "numeric sorting [...] rather than lexical" |
| `CountWhole` | count() of a table with soft deletion is the length of a page |
| `LimitKept`, with `Queries <- ZeroLimit` | MongoDB takes a limit of 0 for none |
| `EachRowOnce` without `Unfiltered` | a page that leaves out soft-deleted rows after the limit may be empty before the end |

These show when the settings of a service are replaced (`Schedules <- ...` in `MCServices_all.cfg`), or
those of the tables that are altered (`Settings <- Evolving` in `MCSchemaTable_tables.cfg`):

| Settings | Violated | What the code does |
|---|---|---|
| `LatePushes` (Schedule) | `EachTimeOnce` | a job is pushed after its time has come, done and gone: the id does not know it any more |
| `CrashBetween`, `CrashBuried` | `KeepsRunning` | a process dies between marking the job and pushing the next one (queue.ts:559): the schedule ends |
| `ColonNames` | `S!NeverEnds`, which is `KeepsRunning` without its condition | triggerNextSchedule() takes the name to be `jobId.split(":")[2]` (queue.ts:562): with a colon in the name of the schedule or of the queue it looks for the row of another schedule, and after the first job none is pushed |
| `PutBack` | `EachTimeOnce`, `KeepsRunning` | in the hour that the local clock repeats getNextCronTime() computes a time that has passed (cron-parser.ts:104), though "strictly greater than fromTimestamp" (:95): the job is run again, or is pushed under the id of the one that is then deleted |
| `TypeTaken`, `TableTaken` (SchemaEvolution) | `HandlesServed` | IF NOT EXISTS takes the column, or the table, of another declaration for its own |
| `DropCrashes` | `HandlesServed` | the registry still has a table whose drop was interrupted |
| `TwoEvolve`, `AtOnce` | `NothingForgotten` | the registry is overwritten with the evolved copy of one handle: what another call has added is forgotten |
| `Unwritten` | `NothingForgotten` | the handle has the new schema before the registry has; the second attempt finds nothing to do |
| `OverPlain` | `NothingForgotten` | an index of the same default name that is not unique is taken for the unique one |

and these when a property is added to a configuration (`P!`, `L!`, `C!`, `B!`, `D!` and `S!`, the
instances of `Services`, by a definition in `MCServices`), with what is named changed in the configuration:

| Property | What the code does |
|---|---|
| `IndexesBuilt`, `NothingLeftOver` (`MCSchemaTable`) | a crash after the row of the registry leaves indexes unbuilt, since an opener that finds the row builds none; one before it leaves a column that is added never again |
| `SchemaSeen` | a failure while the registry is read is taken for "no schema", for as long as the process lives (table.ts:424) |
| `P!NoneOvertaken`, `P!TwinsArrive` (`MCServices`) | a message stored late, or with the timestamp of another, is passed over by the high-water mark |
| `P!NothingFromThePast` | the first poll delivers what was published before the subscription |
| `P!ListenersServed`, `MaxListens <- 2` | a handler subscribed twice listens twice, and one unsubscribe() takes it out of the Set |
| `L!SlidingLimitKept`; `LimitKept` with `Tokens <- {1, 2}`, `MaxDelay <- 2` | the weighted estimate is not a sliding window; a counter expires before a slow call has read it |
| `C!Agree` | a backfill, or a function, that is late brings back what was deleted; a store that fails is left behind |
| `WholeOrNothing` with `once` `FALSE`, and `alone` `FALSE` or a fault | a blob written over another mixes the chunks of both |
| `B!DeletedLeavesNothing` | chunks beyond those of the last manifest stay |
| `D!NothingUndone`; `NothingInvented` with a value `{ _value }` | delete() and restore() write back what they have read; a value with a lone `_value` comes back unwrapped |

## 7. Plan

Done: (1) `WriteBatcher` with its proofs, (2) `TableData` with its proofs, (3) `JobQueue` with its proofs,
(4) `RowUpdate`, `DriverUpdate` and the proof that one implements the other, `DistLock` with
proofs, (5) `Idempotency` with proofs, (6) `Worker` and `Lifecycle` with proofs, (7) `Query` and
`Find`, (8) `SchemaTable`, (9) `Schedule`, `SchemaEvolution`, `SoftDelete`, (10) `PubSub`,
`RateLimiter`, `TieredCache`, `BlobStore`, (11) `TableData`, the six services, `SchemaTable` and `SchemaEvolution` with proofs,
(12) `Find` with proofs.

Next, in this order:

1. TTLs in the buffer and in the table; prefix calls.
2. The parser of cron expressions against a reference definition.
