# Verification of resources-ingester

TLA+ modules, TLC runs and TLAPS proofs for `resources-ingester`, the service
that watches Kubernetes objects and keeps their records in PostgreSQL. The
modules follow the Go code; every definition that models code is listed with
its lines in `PROJECT.json` ("map").

## The system

```
API server -> informer -> Router -> work queue -> WorkerPool -> event bus
                                                                 |      |
                                                            storage   manager
                                                                 |      '-> starts / stops Routers
                                 PostgreSQL <- batch writer <- job queue
```

| Component | State | Operations | Meets |
|---|---|---|---|
| Router (`internal/router/router.go`) | informers and their caches | `onAdd`, `onUpdate`, `onDelete`, `enqueue` | informer callbacks; puts items into the shared work queue |
| Worker pool (`workpool.go`, `handler.go`) | work queue, informer map, retries | `processNext`, `reconcile`, `RegisterInformer`, `Handle` | ten goroutines; publishes on the event bus, asynchronously |
| Storage manager (`internal/storage`) | none of its own; the shared objects | bus handler, `buildRecord` | one goroutine per event; pushes jobs |
| Router manager (`internal/manager`) | map of cancel functions | bus handler, `startInformer`, `stopInformer` | one goroutine per event; registers informers |
| Job queue (`internal/queue`) | job channel, pool of worker channels, running flag, WaitGroup | `Run`, `Push`, dispatcher, workers, `Terminate` | pushes from bus handlers; jobs send to `recordChan` |
| Batch writer (`internal/batch`) | buffer, `recordChan` | receive, tick, stop, `flush`, `sync` | one goroutine, against PostgreSQL |
| List queue (`list_queue.go`) | list, running flag, WaitGroup | the same operations, with an optional bound | its package's tests; `main.go` does not use it |
| Package-level queue (`queue.go`) | `internalQueue`: nil or one of the two | `Run`, `RunListQueue`, `Push`, `Terminate`, passed on | both queues; `main.go` does not use it |
| Start-up and shutdown (`main.go`) | root context, connection pool | configuration, readiness check, wiring; stop signal, `ShutDown`, `Wait`, deferred `Terminate` and `pool.Close` | everything |
| Readiness check (`pgcheck.go`) | none | connect, wait for the table, compare its columns | PostgreSQL and whoever migrates it, under one deadline |
| Keys and settings (`router/helpers.go`, `config.go`) | informer map's keys, namespaces | `buildKey`, `splitKey`, `getInformerKey`, static kinds, `NAMESPACES` | routers build keys, `reconcile` takes them apart |
| Telemetry counters, object resolver, `storage/job.go` | see `PROJECT.json` | | influence nothing, or are never called |

What is hard about it: an object decoded by the informer is *shared* by the
informer's store, queue items, events and the handlers that write to it; the
bus gives every event a goroutine and promises no order; the queue is
terminated while bus handlers may be pushing; maps are read outside their
locks; a batch is written or lost as a whole; one context tells everything to
stop at once, and nobody joins the batch writer or the bus handlers.
`PROJECT.json` lists these hazards, each at its line, with the properties that
would catch it going wrong, or a note why none does.

## Modules

| Module | Models | Used by |
|---|---|---|
| `JobService` | abstract specification of a `Queuer`: jobs are accepted or refused, accepted ones run once, Terminate waits for them | `ChanQueue`, `ListQueue` |
| `ChanQueue` | `chan_queue.go`, `worker.go`: every atomic step of Push, the dispatcher, the workers and Terminate | `ChanQueueProofs`, `ListQueue`, `Main` |
| `ListQueue` | `list_queue.go`, on the workers of `ChanQueue` | `ListQueueProofs`, `Queuer` |
| `Queuer` | `queue.go`: whichever of the two queues is in place | |
| `LastWriteStore` | abstract specification: a line of records, written or lost in batches, last write wins | `BatchWorker` |
| `BatchWorker` | `batch/worker.go`, `batch/job.go` and the table | `BatchWorkerProofs`, `Main` |
| `Main` | `main.go` and `pgcheck.go`, composing `ChanQueue` and `BatchWorker` | `MainProofs` |
| `RouterPool` | one kind's informer (external), `router.go`, the work queue (external), `workpool.go`, `handler.go` | `RouterPoolProofs`, `StorageFlow` |
| `StorageFlow` | `storage.go` composed with `RouterPool`, down to the rows | `StorageFlowProofs` |
| `Manager` | `manager.go`, `helpers.go` of `internal/manager` | `MCManager`, `ManagerProofs` |
| `MCManager` | `Manager` with symmetry, for TLC | |
| `Keys` | `router/helpers.go`, `NAMESPACES` in `config.go`, `NewRouter`, the lookup in `reconcile` | `MCKeys`, `KeysProofs` |
| `MCKeys` | `Keys` with an alphabet, kinds, settings and static files, for TLC | |

### ChanQueue

`stage[j]` is the program counter of job `j` from its push to its completion:
each job is pushed by a goroutine of its own. `Push` has three steps (load of
`running`, `wg.Add`, send), `Terminate` one for each statement; the dispatcher's
receive, pick and hand-over and the worker's run, repool and `wg.Done` are
separate as well, since another goroutine may come in between. A send on a
closed channel sets `panicked`, after which nothing moves.

`wg.Wait` is modelled as `sync.WaitGroup` implements it, because racing pushes
make the difference: it returns at once when the counter is zero, else it
registers and sleeps (`blocked`); when the counter comes back to zero the last
`wg.Done` forgets the waiter and wakes it (`woken`), and the waiter looks at the
counter again before it returns. A `wg.Add` between the first two panics ("Add
called concurrently with Wait"), and a waiter that finds the counter in use
panics ("WaitGroup is reused before previous Wait has returned"). With joined
pushes neither can happen. `JoinPushers` tells
two ways of use apart: the callers of `Push` have returned before `Terminate`
is called (the package's tests), or not (main.go, where the bus owns them).
`Run` is one step: nothing else can observe it half done except a push, which
only blocks or queues. `Terminate` and `Run` are called once each; `main.go`
does so, and a second `Run` would use closed channels.

The refinement of `JobService` maps a job's stage to its status: it is accepted
by `wg.Add`, run when `Job()` returns, and the service is closed when `wg.Wait`
has returned. With racing pushes the mapping fails, since `wg.Add` may come
after that.

### ListQueue

The list is `jobQueue`; the dispatcher reads its front under the read lock,
hands the job over, and removes the element later, under the lock. `Pushers`
bounds the goroutines that push at the same time: each of them may find room
before any has added its element. The 10 ms sleep changes nothing and is a
stutter. Pushes are joined, as in the package's tests, so that nobody can add
to the WaitGroup while Terminate waits: the wait is one step.

### Queuer

`internalQueue` is nil until `Run` or `RunListQueue` chooses an implementation;
a `Push` before that does nothing. Every step is one of the queue in place.
`RunListQueue` makes an unbounded list; the run takes a bounded one, of
`NewListQueueWithMaxLen`, in which more can happen.

### Main

`main` is the program counter of `main()`. Start-up: configuration and
telemetry may fail; the pool is opened by the connection check; the table is
waited for; then its columns are read (`live`) and compared, once. `Migrate`
(external) may create, alter or drop the table before, between and after these
steps and as long as the process lives: a statement whose columns the table
does not have fails (`Takes`). The queries run under a context derived from the
root context, so none of them succeeds after a signal. `Deadline` is
DB_READY_TIMEOUT, a signal during the wait, or a query that fails. Every
`os.Exit` leads to `failed`, where no deferred call runs and no goroutine moves.
From `Launch` on the queue's and the writer's goroutines run; a job's run is a
send to `recordChan`, so it blocks while that is full. Events flow when the
routers were started before a signal: an informer started later lists nothing.

Shutdown: the signal stops the writer and lets `main()` drain the worker pool,
then Terminate, then `pool.Close`, which waits for the connection the writer
may hold and refuses new ones. Bus handlers may push at any of these times, and
their pushes may end the process with a panic. `owed` remembers the jobs in
flight when Terminate was called. `Rest` allows the process to be over, or to
hang: Terminate sleeps in `wg.Wait`, a worker of the queue sends, the channel is
full and the writer has returned (`Stalled`). The run does not hide the hang;
`main_hang` shows it.

### Keys

Strings are sequences of tokens, so that a separator inside a name is visible
and splitting is what the code does. The alphabet, the kinds, the namespaces,
the names, the settings and the static files are parameters; `KeysAssumption`
has what the API server guarantees of them (no slash in a name, no separator in
the parts of a kind or in a namespace) and that the static file, which is
compiled in, has no bar. `Split` is defined by the positions of the separators:
part `i` is the span of positions with `i - 1` separators before them. `tracked`
is the manager's map of informers: a kind is started once. `running` are the
informers of all routers, `informers` the worker pool's map of them.
`LookupFindsWatcher` follows an object from the router that is notified of it
to the informer and the store key that `reconcile` comes to. `WatchedAsListed`
does not mention `Split` or `TrimSpace`: it says of the raw setting which
namespaces its entries list.

### BatchWorker and LastWriteStore

A record is its number, its object and whether its composition id is a UUID
(the column's type, `pgcheck.go`): it is the value of a label that anybody may
have written, or the object's UID (`hasCompositionId`). `buffer` and `recordChan` are the code's.
The body of `sync` up to `Exec` is deterministic: `records` is what the map
`seen` holds. `ExecError` covers refusal, a failed connection, and a commit
whose answer was lost. A row keeps the number of the record that last wrote the
columns the upsert refreshes. The refinement maps the store's line to `buffer \o recordChan` and
its table to `refreshed`: receiving is a stutter, a flush is a `Commit` or a
`Lose` of the front of the line.

### RouterPool

A version `v` stands for the pointer to its decoded object `heap[v]`; stores,
queue items and events hold pointers. The informer sees the present version of
an object, so it may skip versions (a relist) and may meet a successor of the
same name; deletions carry the final object or a tombstone. The work queue is
client-go's: queue, dirty and processing sets, delayed items. A `Nil` object in
an item makes `reconcile` look the key up in the store. With `AllNamespaces`
(the default) objects of a namespaced kind are found by the second lookup only,
which reads the informer map without its lock; while another router registers
(`registering`) it may miss or be caught by the runtime (`crashed`).
`replaced` remembers objects whose deletion the informer never reported because
a successor of the same name was listed first. `Forget` and `NumRequeues` are
counted per key item; items with objects never
fail. Errors of `splitKey` and `GetByKey` cannot occur for keys that `buildKey`
made.

### StorageFlow

`Subscribe` comes at any time; events published earlier are `missed`. Every
later storage event has a handler: the test of the timestamp, its
setting or clearing, and `buildRecord` with `Push` are separate steps on the
shared `heap`. Records then reach the table in any order, which is what the
queue's workers allow; the batch writer adds no order between records of
different jobs. `Race` is the runtime's concurrent map access. The early
returns for a missing UID or an unparsable apiVersion cannot happen for objects
of the API server. Loss of a batch is BatchWorker's subject and left out here.

### Manager

One handler for each UPDATE the worker pool addresses to the manager (it sends
no other kind). The CRD's versions come from `ExtractGvrkNsFromCrd`, which
skips unnamed entries and returns none when a part is missing; their order is
arbitrary. `startInformer` tracks
under the lock and registers after it; `stopInformer` reads outside the lock
and then cancels what it read and deletes what is there. An object's deletion
timestamp may be set from the start (the store was ahead of the queue), or by
the storage manager, which shares the object. The stop of `Run` is two steps
that come in either order: `CancelContext` ends every router, and makes one that
is tracked later end at once; `Unsubscribe` keeps new events away. Handlers at
work go on, and the map keeps its entries.

## Runs

Passing runs:

| Run | Bounds | Shows |
|---|---|---|
| `queuer` | 4 jobs, 2 workers, capacity 1; list: 2 pushers, maximum 1 | for both queues: refinement of `JobService`; no panic, no deadlock, every accepted job run once before `wg.Wait` returns, each worker channel lent once, accepted jobs run, Terminate ends all goroutines; the list outgrows its maximum by at most one per pusher |
| `main` | 2 jobs, 1 worker, capacities 1, batch 2, an expected column and a foreign one, 7 states of the table | the process serves and writes only if the columns it read were the expected ones; start-up decides; jobs in flight when Terminate was called have run before the process ends or panics; `wg.Wait` covers every counted job; after a signal the process ends unless a job is blocked on the channel of the writer that has left |
| `batch` | 2 objects, batch 3, channel 2, 4 records | refinement of `LastWriteStore`; healthy batches are executable; nothing received is left at the stop; records are submitted, the stop ends the worker |
| `flow` | 1 name, 2 workers, 1 retry, 3 versions, all namespaces | no update or noticed deletion lost between informer and bus; an object that vanished without a DELETE was replaced between two lists; a row is marked deleted only for an object that is gone or terminating; every object seen has a row, unless its key was dropped or an event of it came before the subscription; the pipeline comes to rest |
| `manager` | 3 events, 2 versions and "vacuum", 3 routers | until the manager is stopped, tracked kinds run; one router per kind and all versions watched while no stop is involved |
| `keys` | settings of up to 3 tokens, static files of a good line and a second one that is good, empty, too short or too long, 4 kinds of both scopes, one in the core group, 2 namespaces, 2 names, one with a bar | a key leads to an informer that sees the object, and to its place in the store; namespaced kinds are watched where the setting says |

Why these bounds: four jobs on two workers and a channel of one reach a full
channel, a full and an empty pool, and a push in each of its steps beside a
running job; they let two pushers overfill a list of one while the dispatcher
holds its front. In `main` a channel of one is full after the first record, and
the second job blocks or makes the batch full; while one job's `wg.Done` wakes
Terminate the push of the other is in any of its steps, which is what the
WaitGroup's panics need. The table is absent, or has any of the columns, of the
wanted type or another; one queue worker keeps this within minutes, two are in
`queuer`, and the safety properties of `main` are proved for any number. Four
records fill a batch of three and start the next, with two records of one object
in the same and in different batches. Three versions make create, mark and
remove, or create, remove and re-create under the same name, while two workers
hold items of it. Three handlers suffice for a start racing a stop racing a
start. One name is enough: keys do not interact in the queue except through its
order. Three tokens make an empty setting, a list of two, blanks around a name,
and leading, trailing and double commas.

`main` ends in a state of rest rather than a deadlock: a process that is over,
or hangs as `main_hang` shows, stutters.

Runs that show a disagreement between the code and what the repository says of
it (each has an entry under "findings"):

| Run | Property | What happens |
|---|---|---|
| `list_overfull` | `ListWithinMax` | a list of at most one element holds two; one goroutine that pushes is enough |
| `main_hang` | `ShutdownEnds` | jobs block on the channel of the batch writer, which the signal has stopped; Terminate waits for them for ever |
| `pool_crd` | `CrdDeletionReachesManager` | a CRD's deletion goes to storage, so its routers are not stopped |
| `flow_living` | `DeletedRowsAreGone` | the row of an object that waits for its finalizers is marked deleted |
| `flow_reorder` | `GoneRowsMarked` | an older UPDATE is stored after the DELETE |
| `manager_orphan` | `NoRouterOrphaned` | a stale stop removes the entry of a newer router |

Other observations made while modelling, which have no run of their own:

- A push that has read `running` before Terminate cleared it may send on the
  closed channel (`chan_queue.go:75`), or add to a WaitGroup whose waiter is
  being released (`chan_queue.go:74`), and panic. `main.go` does not join the
  bus handlers, so this can end its shutdown, before the queue is closed and
  with a job that was pushed late not run; `OwedJobsRun` says what is not lost:
  the jobs in flight when Terminate was called. `recordChan` and the writer's
  buffer are another matter, see `main_hang`.
- The schema is compared once (`pgcheck.go:94`). A migration after that is not
  noticed: batches fail, each as a whole, and the process stays up.
- The lookup that is normal when all namespaces are watched reads the informer
  map without the lock (`workpool.go:132`): it may crash the process or miss, and
  a key that misses too often is dropped. The properties of `flow` exempt both.
- Events published before the storage manager has subscribed (`main.go:130`) are
  lost, and a resync does not repeat them.
- An object replaced by one of the same name between two lists is reported as
  an update (`router.go:158`): its row is never marked deleted.
- The upsert refreshes only `deleted_at` and `raw` (`worker.go:159`):
  `updated_at` and `status_raw` stay those of the first insert.
- A handler of an UPDATE may clear the deletion timestamp of the shared object
  between the test and the `buildRecord` of a handler of its DELETE
  (`storage.go:72`); `flow_reorder`'s counterexample needs no such race.
- A trailing comma in NAMESPACES is a blank entry, which watches everything
  (`config.go:99`); `WatchedAsListed` states it.
- `splitKey` returns no error for an object key with two slashes
  (`helpers.go:24`); keys of `buildKey` have at most one.
- The README's default of DB_READY_TIMEOUT is `2m`, the code's four minutes
  (`config.go:18`).
- `Run` after `Terminate` would reuse closed channels (`chan_queue.go:31`).
- `db.insert.rows` is raised by the number of records before deduplication.
- A router stopped between `manager.go:152` and its registration leaves its
  dead informer in the worker pool's map.

### Fairness

`ChanQueue`: weak fairness of every goroutine that has started, as the Go
scheduler gives; nobody need push or terminate, and jobs return (in the
program a job sends to `recordChan`, which is received from until the stop).
`BatchWorker`: weak fairness of receive, tick and Exec, and strong fairness of
the stop case, since Go's select chooses at random among ready cases.
`ListQueue`: as `ChanQueue`. `Main`: `main()` and the goroutines proceed; the
wait for the database ends, by its deadline at the latest; statements are
answered; a push that has begun goes on. Nobody is obliged to migrate, push or
send a signal. `StorageFlow`: the router's callbacks run, and as long as an
informer, a worker, a back-off timer, the subscription or a bus handler has
something to do, one of them does it, which is less than the scheduler gives;
the cluster and the manager need not do anything. `Queuer`: as the queue in place.

## Proofs

`ChanQueueProofs` proves, for any number of jobs and workers and any capacity:
type correctness, that with joined pushes nothing panics, the WaitGroup
included, and everything
accepted is run exactly once before Terminate closes the channels, that the
queue then implements `JobService`, and that even with racing pushes `wg.Wait`
returns only when no counted job is unfinished. None of these is inductive. The invariant `IInv` adds: the WaitGroup equals the number of jobs in flight
(`WgExact`), whoever holds a job holds it at the matching stage (`JobPlaces`)
and alone (`JobsDistinct`), and channels are closed in Terminate's order
(`ClosingOrder`). Then a counter of zero means that no job is anywhere, so with
joined pushes it stays zero while the waiter is woken, and no sender is left
when a channel is closed. The refinement
(`ChanQueueImplementsService`) adds one lemma per goroutine: `wg.Add` maps to
`Accept`, the failed check to `Refuse`, `Job()` to `Execute`, `wg.Wait` to
`Close`, and everything else leaves every job's status alone.

`BatchWorkerProofs` proves, for any number of objects, batch size and capacity:
type correctness with the bound on a flush, `PendingIsNewer`,
`StopSubmitsBuffer`, `HealthyBatchAccepted`, and the refinement of
`LastWriteStore`. The invariant `BInv` adds that the records in buffer and
channel are in the order of their numbers and none is beyond `sent`. The
refinement rests on three lemmas about sequences (moving a record from the
channel to the buffer keeps the line, a sent record extends it, a flush takes
its front) and on the existence of a last index, from the well-foundedness of
the naturals.

`ManagerProofs` proves, for any CRD and any number of events and routers:
`TypeOK`, `TrackedIsLive`, `OneRouterPerKind` and `EveryVersionWatched`.
`TrackedIsLive` needs that a handler about to cancel holds a router of the
version whose entry it deletes, which is part of `TypeOK`. The other two rest on
`Unstopped`: until something is stopped, every running router is tracked, a
router being registered is the tracked one, a tracked router is registered or
about to be, and a version asked for is tracked or about to be. The stop of the
manager ends the claim: its entries outlive their routers then.

`ChannelsLentOnce` has an invariant of its own in `ChanQueueProofs`, `LentInv`:
from Run until Terminate has closed the pool, each worker's channel is in exactly
one place, the pool, the dispatcher's hand or the worker that reads it, and the
pool names no worker twice. It holds with racing pushes as well.

`ListQueueProofs` proves, for any number of jobs, workers and pushers and any
maximum: type correctness, `ListBounded`, `NoPanic` and the refinement of
`JobService`. `LInv` is the invariant of the channel queue with the places of
its own dispatcher: the front element is handed over before it is removed
(`LFront`), so a job is in the list and in a worker's hands at once, and only
the elements behind the front are sure to be waiting (`LQueued`). The counting
lemmas about the WaitGroup are those of `ChanQueueProofs`, which ask only that
every job has a stage. `ListBounded` is not inductive: a pusher that has found
room has not added its element yet. `LRoom` counts those too, the length and
the pushers let in together.

`MainProofs` proves by composition. `ProcessRunsQueue` and `ProcessRunsWriter`
show that every behaviour of the process is one of `ChanQueue` and, under the
substitution of `Main`, one of `BatchWorker`: every step of `main()` is a step
of theirs or leaves their variables alone. So their theorems hold of the
process and are not proved again (`ProcessQueuePromises`,
`ProcessWriterPromises`, and `ProcessImplementsStore`: in the process, too, the
writer is a last-write-wins store). From the push to the store:
`EachJobSendsOneRecord` shows that the records sent and the jobs run are equally
many, so that the bound `MaxSends` of `BatchWorker` cuts off nothing in `Main`
and only a full channel can hold a job; `WaitCoversRecords` that every counted
job has handed over its record when Terminate passes `wg.Wait`. What is about the composition rests on `MInv`: how far
`main()` has come tells what the queue's caller is doing (`CallerAgrees`), in
what state the connection pool is (`PoolAgrees`), that a shutdown follows a
signal, that whatever runs after the check was let in by the columns in `live`
(`SchemaAgrees`), whatever has become of the table since, that a connection is
held only for a statement (`ConnAgrees`), and how far the
jobs in `owed` are (`OwedAgrees`). `OwedJobsRun` needs that the process can only
panic once Terminate waits, and that a job in flight then stays in flight or is
done, so that the counter cannot come to zero, nor the waiter be woken, before
it has run; the queue's `WgExact` and `ClosingOrder` supply the rest.

`RouterPoolProofs` proves, for any names, versions, workers and retries:
`TypeOK`, `LatestPublished` and `DeletionPublished`. These speak of the state of
rest; the invariant `PInv` says what is due at any other time. The cached
version of an object is published, or in a notification that `onUpdate` will not
take for a resync, or its key is dirty, held by a worker, failing or backing off
(`LatestDue`); a deletion that was noticed is published, notified or in an item
that carries the object (`DeletionsDue`); and whatever travels is of an object
that the informer caches or saw deleted or replaced (`SeenOnly`). `Shape` has
the work queue's rules: what is queued is dirty, queued once and not being
processed, and no two workers process the same item.

`StorageFlowProofs` composes this with the storage manager. The handlers write
to objects that the pool's items point to; `FlowKeepsPool` shows that `PInv`
survives it. `NoFalseDeletion` needs that every deletion mark has a cause
wherever it travels: on an object, in a notification, in an item that carries an
object, in a DELETE event, in a record (`TravelLegit`, `RecordsLegit`).
`EveryObjectHasRow` is the run's `RowForEveryObject`, in every configuration of
a kind that is stored. `NothingGivenUp` drops its exemption for kinds whose
objects are found by the first lookup: that never fails, so every object has its
row, or was published too early.

`KeysProofs` proves, for every alphabet, set of kinds, namespaces, names,
setting and static file: that `splitKey` takes apart what `buildKey` put
together (`KeyRoundTrip`), that no two informers share a key
(`InformerKeysDiffer`), and the three properties of the run. The facts about
`strings.Split` come first. They need no induction over strings: `SplitPieces`
and `SplitOfPiece` say that the parts are exactly the pieces between separators
next to each other, from the least-number principle and the count of separators
before a position; what the code relies on, `SplitPlain` (a string without the
separator is its only part) and `SplitAppend` (a separator and a plain string
add one part), follows from these. A key is then taken apart part by part
(`PrefixNamesKind`, `ObjectKeySplits`, `SplitNFirst`: the first bar ends the
kind, whatever bars the name has). The invariant `KInv` adds to the properties:
every running informer is in the map under its own key, and the map holds
nothing else (`Registered`); the item at hand is the key of an object that some
running informer sees (`Notified`); the informers of a dynamic kind with
namespaces are those of the setting as `Setup` read it, no more and no fewer
(`WatchedWhereSet`). `LookupIsRight` needs the first two together: an object
seen by an informer of its namespace or of all has a key that the first or the
second lookup finds, and, keys being different, what is found there sees it.
`WatchedAsSet` needs the third and that trimming a piece yields the one
namespace its entry lists (`TrimmedIsText`, `EntryIsTrimmed`, `SettingLists`).

Assumptions: `QueueAssumption`, `ListAssumption`, `BatchAssumption`,
`MainAssumption`, `PoolAssumption`, `ManagerAssumption` and `KeysAssumption` (sizes are naturals,
positive where they are a capacity, a batch or a number of goroutines, sets of jobs,
objects and versions finite, there are names, the null values are distinct,
expected and foreign columns differ, `main.go` does not join pushes, names and
kinds hold no separators that Kubernetes forbids), evaluated
by TLC in every run of these modules. The theorems that need more say so: joined
pushes for `JoinedQueueNeverPanics`, `JoinedTerminateDrains` and
`ChanQueueImplementsService`, `~IsCrd` for the rows
(the versions of a CRD go to the manager) and `~AllNamespaces` for
`NothingGivenUp`.

Only model-checked: liveness (`AcceptedJobsRun`, `TerminateReleases`,
`EventuallySubmitted`, `StopEnds`, `FlowComesToRest`, `StartupDecides`,
`ShutdownEndsUnlessStalled`), which is beyond the prover, and for the list queue
`TerminateDrains` and `ChannelsLentOnce`, which are proved of the channel queue.
`Queuer` has no proofs of its own: its steps are those of the queue in place,
and the theorems are about each of the two. Every other property of a passing
run is a theorem.

## Not modelled

- `syncJob`: a result handed over a channel of one; only tests use it.
- The settings other than NAMESPACES: they become constants. The metrics: they
  influence nothing. `GetJobCount`, `GetInformers` and the tickers that report
  them: they only read.
- The health server: started and shut down, otherwise plumbing outside this
  repository.
- The object resolver, `storage/job.go`, `batch.Worker.delete` and `GetGVR`:
  never called.
- Embedded assets and logging.

## What could come next

- A statement from a change in the cluster to the batch that stores it:
  `StorageFlow` ends with records that reach the table in any order and none is
  lost, `Main` begins with anonymous pushes. Composing the two would put the
  loss of a batch and the end of the process into `RowForEveryObject`.
- Fixes of the findings, each as a variant of its action under which the
  violated property holds.
