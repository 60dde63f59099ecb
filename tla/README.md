# go-zero: a TLA+ verification of the concurrent core

go-zero is a framework for web and RPC services in Go. What can be wrong in it and
hardly be tested sits in `core/`: structures that many goroutines share, each with its
own protocol of locks, channels, wait groups and timers. This project models those
structures in TLA+, checks them with TLC on small instances, and proves with TLAPS, for every
size, each safety property that the runs check.

`PROJECT.json` is the index: components, runs, the mutants that show each property can
fail, the source lines of each definition, findings, hazards and theorems. Paths below
are relative to `src/`.

## 1. The system

Modelled parts.

| part | state | operations | uses, and is used by |
|---|---|---|---|
| `core/executors` PeriodicalExecutor, Bulk- and ChunkExecutor | task container, `commander` (one slot) and `confirmChan`, `inflight`, `guarded`, wait group behind `wgBarrier` | Add, Flush, Wait, Sync; the background loop that flushes, quits when idle and is started again | SQL and Mongo bulk inserters, metrics |
| `core/collection` TimingWheel | slots, `tickedPos`, `timers` (a SafeMap) | SetTimer, MoveTimer, RemoveTimer, Drain, Stop; ticks | Cache, the cleaner of `core/stores/cache` |
| `core/collection` SafeMap | two maps and two deletion counters | Set, Del, Get, Size, Range | TimingWheel |
| `core/collection` Cache | map, LRU list, timing wheel, single flight | Set, Del, Get, Take; expiry in a goroutine of its own | applications |
| `core/mr` MapReduce | `source`, `collector`, `output`, `panicChan`, `done`; a once and an error | MapReduce and its variants; generator, executor, mappers, reducer | applications |
| `core/syncx` SingleFlight, LockedCalls, ResourceManager | map of calls or wait groups under a lock; map of resources | Do, DoEx; Do; GetResource, Inject, Close | Cache, `stores/cache`, connections to redis, SQL and etcd |
| `core/discov/internal` Registry | for each watched prefix: values, listeners, a cancel; `c.lock`, `c.done`, `watchGroup` | Monitor, Unmonitor; load, watchStream, handleWatchEvents, reload | Subscriber, Publisher; etcd |
| `core/syncx` TimeoutLimit, Limit, Cond, Pool | tokens in a channel and a signal channel; a list of idle resources, a counter and a condition variable | Borrow, Return; Get, Put | applications, `rest` (Limit) |
| `core/collection` RollingWindow | ring of buckets, `offset`, `lastTime` | Add, Reduce | breaker, load shedding, p2c |
| `core/stores/cache` cacheNode and cleaner, `core/stores/sqlc` | redis, a single flight, a timing wheel with clean tasks and their workers | Take, Del, Set, Exec; retries of a failed Del, drain at shutdown | the generated models; SingleFlight, TimingWheel, the shutdown listeners |
| `core/discov` Publisher | `lease`, `fullKey`, `quit`, the pause and resume channels | KeepAlive, Pause, Resume, Stop; a goroutine that registers again | RPC servers; etcd |
| `core/configcenter` | the container's value, a snapshot | NewConfigCenter, GetConfig; onChange | applications; Registry |
| `core/threading` StableRunner | ring of locked slots, two indices, `done` | Push, Get, Wait | message consumers |
| `core/queue` Queue | unbuffered channel, event channels, `active`, `quit` | Start, Stop, Broadcast; producers, consumers, pause and resume | applications |
| `rest/handler` timeoutHandler | buffer, `timedOut`, `done`, `panicChan` | ServeHTTP; Write, WriteHeader, Flush of the handler | every REST route with a timeout |
| `core/proc`, `core/service`, `rest/internal` | listeners, their wait group and lock | AddShutdownListener, notifyListeners, ServiceGroup.Start, the start of a server | executors, cleaner, Publisher, servers |
| `core/discov` Subscriber container | `values`, `mapping`, `dirty`, `snapshot` | OnAdd, OnDelete, GetValues | the RPC resolver, configcenter |

How they interact: callers and background goroutines meet on channels (executor, wheel,
MapReduce) or under a mutex (the rest); Registry calls its listeners back, holding no
lock; Cache calls the wheel after it has unlocked its map; ResourceManager runs a closure
inside SingleFlight. The behaviours that are hard are the hand-overs: a goroutine that
quits while work is on its way to it, a wait group raised while it is waited for, a
panic that has to reach the caller through channels others are blocked on, a map and a
wheel that change in two steps, a stream that fails and starts again from an old
revision, a lock held across a wait.

Not modelled: `breaker`, `load` and `limit` (floating point decisions, random numbers or Lua
scripts around state of one lock or one atomic), RefResource, ImmutableResource,
ManagedResource, the atomics and guards of `syncx`, the sequential containers, DelayExecutor
and LessExecutor, the wrappers of redis, SQL and Mongo clients, the pushers of `queue`, `fx`,
the rest of `rest`, `zrpc`, `gateway`, `mcp`, `logx`, `mapping`, `conf`, the observability
packages, the utilities and `goctl`. `PROJECT.json` gives the reason for each. The larger part of
the repository's lines is there: `goctl` and `mapping` are sequential transformations of
text and types, `redis.go` and `store.go` hundreds of methods of one client call each, and
much of the rest is mocks, generated parsers and glue.

What makes each modelled part correct:

- executor: no task is lost, executed twice or stranded; Add, Flush and Wait return; Wait
  covers the executions under way.
- wheel: a task runs at the tick it was set for; no pending task disappears.
- SafeMap: it is a map.
- Cache: the list and the map agree, and an entry has a timer.
- MapReduce: the call ends, after all mappers, with a value, an error or the panic; no
  send on a closed channel, no goroutine left, no item skipped silently.
- SingleFlight, LockedCalls, ResourceManager: one execution at a time for a key, no result
  older than the call, nobody waits for ever, one resource for a key.
- Registry and container: a listener that stays is followed, and knows what etcd holds
  when all events have been read; Values returns a set that was live during the call.
- TimeoutLimit, Pool: nobody waits beside a free token or slot; what exists is counted.
- RollingWindow: exactly the last intervals count.
- cacheNode: redis never holds an old row without a known cause; failed deletions end.
- Publisher, config center: what is published, or configured, follows the service, or etcd.
- StableRunner, Queue: order, nothing lost, and an end after Wait or Stop.
- timeoutHandler: one whole answer, and no goroutine left.
- shutdown: every notified listener runs to its end, and Start returns.

## 2. Modules

| module | models | extends or instantiates |
|---|---|---|
| `PeriodicalExecutor` | `core/executors/periodicalexecutor.go`, containers of `bulkexecutor.go` and `chunkexecutor.go` | |
| `TimingWheel` | `core/collection/timingwheel.go` | |
| `SafeMap`, `PlainMap` | `core/collection/safemap.go`; the map it promises to be | SafeMap instantiates PlainMap |
| `Cache` | `core/collection/cache.go` | |
| `MapReduce` | `core/mr/mapreduce.go` | |
| `SingleFlight` | `core/syncx/singleflight.go` | |
| `LockedCalls` | `core/syncx/lockedcalls.go` | |
| `ResourceManager` | `core/syncx/resourcemanager.go` | instantiates SingleFlight, whose fn gets steps |
| `Container` | the container in `core/discov/subscriber.go` | |
| `Registry` | `core/discov/internal/registry.go` | |
| `RollingWindow` | `core/collection/rollingwindow.go` | |
| `TimeoutLimit`, `Pool` | `core/syncx/timeoutlimit.go`, `limit.go`, `cond.go`; `pool.go` | |
| `Cleaner` | `core/stores/cache/cleaner.go` | |
| `CacheNode` | `core/stores/cache/cachenode.go`, ExecCtx of `core/stores/sqlc/cachedsql.go` | instantiates SingleFlight and Cleaner |
| `Publisher` | `core/discov/publisher.go` | |
| `ConfigCenter` | `core/configcenter/configurator.go`, `subscriber/etcd.go` | |
| `StableRunner` | `core/threading/stablerunner.go` | |
| `Queue` | `core/queue/queue.go` | |
| `TimeoutHandler` | `rest/handler/timeouthandler.go` | |
| `Shutdown` | `core/proc/shutdown.go`, `core/service/servicegroup.go`, `rest/internal/starter.go`, handleError of `rest/server.go` | |
| `PeriodicalExecutor_proof`, `MapReduce_proof`, `CacheNode_proof`, `Registry_proof` | theorems | extend the module they prove about |
| `Collection_proof`, `Syncx_proof`, `Discov_proof`, `Services_proof` | theorems about the components and about all of them side by side | extend the MC module that puts them together |
| `MCPeriodicalExecutor`, `MCMapReduce`, `MCRegistry`, `MCCacheNode` | constants and symmetry for TLC | extend the module they check |
| `MCCollection`, `MCSyncx`, `MCDiscov`, `MCServices` | several components side by side | extend one component, instantiate the others |

The last four modules put components together that share no state. The variable `part`, chosen
in the initial state, says which of them moves; the others stay in their initial states, so the run
explores the sum of their state spaces, not the product. This loses nothing, since a
property of a component speaks only of its own variables. The fairness of a component is assumed
also when it does not move; it demands nothing then, because its fair actions are disabled in its
initial states (for the wheel, whose tick is always enabled, the fairness is restricted to its part).

Conventions. A goroutine is a process with a `pc`; a critical section that does not block
is one action; two accesses with an unlock, a channel operation or another atomic between
them are two actions. Variables called history in their declaration are not in the code:
they record what a property needs. An operator marked "Mutant of" is never used by a
specification: it is the plausible bug by which a property is shown to be able to fail.
User functions (execute, map, reduce, generate, fn, fetch, create) may return or panic
where the code lets them, and do return.

**PeriodicalExecutor.** Callers add tasks; the Add that fills the container takes its
content (`AddAndTakeAll`), sends it (`SendCommand`), and waits for the confirmation
(`Confirm`). A background goroutine receives (`RecvCommand`), decrements `inflight`,
confirms, executes; on a tick it flushes; when it has been idle it checks `inflight` under
the lock (`ShallQuit`, `KeepRunning`), clears `guarded`, and flushes a last time on its
way out, while the next Add starts another. The number of idle rounds is a
nondeterministic choice, so quitting may come at any tick. `Size` and `MaxSize` cover
both containers: sizes of 1 are the bulk container, others the chunk container.
Sync only runs a function under the lock and is left out. Tasks are added once.

**TimingWheel.** The wheel's goroutine serialises everything, so each operation is an
action. Kept are the arithmetic of `getPositionAndCircle` and `moveTask` (position, circle,
diff), the scan of a slot, Drain and Stop. A delay is a number of intervals. An item
marked removed is dropped at once; it has no effect when scanned.

**MapReduce.** The five kinds of goroutine with one action per channel operation; the user
functions may do what the constant `Scenarios` allows in a call: write, cancel, panic,
finish early, and the context may end. `once` has three values since a second caller of
`cancel` waits for the first. ForEach, Finish and the void variants are not modelled on their own.

**SafeMap, Cache.** SafeMap is one record, one action per method; `PlainMap` is the
abstract map, and `IsPlainMap` the refinement, with what every call returns. Cache keeps
the two-step updates: map and list under the lock, then the call of the wheel; the wheel
is reduced to the set of keys with a timer, a timer may fire at any moment, and the
callback is a goroutine that deletes.

**SingleFlight, LockedCalls, ResourceManager.** Numbered call objects stand for
results, so that a stale result is told from a fresh one. The deferred function of Do is two
steps, as in the code: delete the key under the lock, then release the waiters.
ResourceManager composes its closure's steps (look up, create, store) with those of
SingleFlight; Inject and Close interleave with them.

**TimeoutLimit, Pool, RollingWindow.** TimeoutLimit keeps the gap between a failed TryBorrow and
the start of the wait, and the signal that is dropped when nobody receives. Pool runs under its
lock, so Get and Put are single actions, apart from the wait; create and destroy may panic; a list that is ordered by the time
of the last use is two counters, the fresh head and the old tail. A RollingWindow bucket is the
set of additions it counts, and the two clock reads of `updateOffset` are two parameters.

**Cleaner, CacheNode.** A row is the number of the update that wrote it, so that a stale row is
told from a fresh one; every second update deletes the row, so that the placeholder is used. A reader goes
through get, query and cache, each of which may fail; Exec updates the database and then deletes,
in one call or, in a cluster, key by key; a failed deletion becomes a task with the five delays of the code. An entry may expire at any time.
The drain at shutdown occupies the wheel until every task has found a worker.

**Publisher, ConfigCenter.** The goroutine of keepAliveAsync and the loop of doKeepAlive are
one process, since the one starts the other and ends. etcd has leases, keys with a lease, and a
watch; calls fail with or without effect, leases end, and the client notices. In ConfigCenter
goroutines of the registry store a value, copy the listeners and call onChange, beside
NewConfigCenter, which loads before it listens; `overtaken` records who is about to store an old value after
another stored the new one.

**StableRunner, Queue, TimeoutHandler, Shutdown.** StableRunner has Push in its four steps
(check, index, lock, schedule) and tasks that may panic; the history `order` records which message
got which index. Queue has producers, consumers, the
event channels under `eventLock`, and the listeners that are told after `active` has changed; the times at which
`active` comes to zero or leaves it are numbered, so that one can tell which of them the listeners were told last.
TimeoutHandler is one request: the handler's calls, the deadline and the three cases of the
select; the error is written in two steps under the lock that Flush does not take. Shutdown has
listeners that run while `lm.lock` is held, servers that wait for all of them, and listeners added
late or inside another. The process ends with a panic (`Crash`) when a server fails, since nothing recovers
in the goroutines of the group, and when a Wait that was woken finds the wait group raised again.

**Container, Registry.** Container has its readers in two steps, since `dirty` is read
without the lock; both modes (exclusive or not) are initial states. OnAdd comes with any value, as any Put of
etcd makes it; the history `stale` has the keys whose value was changed without a deletion. In exclusive
mode doRemoveKey moves the array that addKv iterates over, and which of the keys left there by such changes are skipped depends
on their order, which is not modelled: any of them may be. Registry has etcd as
a log with a revision and a compaction, in which every change carries the keys it results in, watch goroutines that load, tell the listeners,
watch and start again, listeners that come and go, and reload with `c.lock` held while it
waits. etcd and gRPC are not in the repository; the models take from them what the code
uses: revisions, ordered events, errors, compaction.

## 3. Runs

| run | module | what it shows |
|---|---|---|
| `executor` | MCPeriodicalExecutor | TasksConserved, NoWorkStranded; WaitCoversEntered; EveryTaskExecuted, EveryCallReturns: with two callers, one of whom flushes and waits, and two background goroutines, of whom one may be quitting while the other starts, nothing is lost, stranded or left waiting |
| `mr` | MCMapReduce | NoSendAfterClose, ReturnsAfterMappers, OutcomeFaithful; NoGoroutineLeft, in eight scenarios |
| `registry` | MCRegistry | CaughtUp, ListenerInformed |
| `cachenode` | MCCacheNode | StaleExplained: readers, updates, failures, the cleaner and its drain together |
| `collection` | MCCollection | wheel: TimersKept, EveryTimerEnds; SafeMap: the refinement IsPlainMap; Cache: EntriesKept, EntryExpiresUnlessRaced; RollingWindow: WindowExact; Cleaner: CleanEnds |
| `syncx` | MCSyncx | SingleFlight inside ResourceManager: OneFlight, NoStaleResult, OneManagedResource; LockedCalls: Sequential; TimeoutLimit: WaitsForToken; Pool: PoolServes; EveryCallReturns for the calls of ResourceManager and LockedCalls |
| `discov` | MCDiscov | Container: ValuesWereLive; Publisher: StopUnpublishes, KeptPublished; ConfigCenter: SnapshotCurrent |
| `services` | MCServices | StableRunner: OrderUnlessLapped, WaitCovers, WaitEnds; TimeoutHandler: OneAnswer, HandlerReleased; Queue: AllConsumed, PausedIsInactive, StopEndsStart; Shutdown: ListenersCalled, GroupEnds |
| `mr_hang` | MCMapReduce | finding: PanicEndsCall fails |
| `registry_reload` | MCRegistry | finding: ReloadCompletes fails |
| `runner_order` | StableRunner | finding: PushedOrder fails |
| `move_timer` | TimingWheel | finding: MovedOnTime fails |

Each module also has a `TypeOK` as the description of its state and the start of a proof. It
is proved for PeriodicalExecutor, SafeMap, SingleFlight and Container; the other proofs type what they
need. It can be added to the INVARIANTS of a run, and holds there, but it is no result worth a
line of the table.

Several properties have the form "X, unless Y": Y records a known gap of the code (section 5),
mostly in a history variable. They say that the code has this gap and no other. Where the code recovers
from the gap Y ends with it: in Queue and ConfigCenter the next change, or delivery, has to make the state
right again, and in Pool the count of lost wake-ups starts anew with the next wait.

`CHECK_DEADLOCK FALSE` is given where the system may stop: callers have made their bounded
number of calls, the wheel is stopped, the MapReduce call is over, the log of etcd has
reached its bound, a request is answered, a queue has been stopped. The executor never stops,
and is checked for deadlock.

### Bounds

- `executor`: a chunk container with one task that leaves room for others and two that
  fill it, so that two callers can be handing batches over at a time; two callers and two
  background goroutines are the least with which a hand-over races a flush, a Wait and the
  quit. The theorems have no bound.
- `mr`: three items and two workers, so that a mapper waits for the pool and the generator
  for the executor; three writes of the reducer, of which the second ends the call with a panic and
  the third finds nobody. The scenarios group what user functions may
  do; the first two allow everything but a panic of the generator, and everything but an early write and a cancel
  of the reducer (together they would be 2.4 million states, for which the run also passes, in four minutes).
- `registry`: one key that is set to one of two values, changed or deleted in a log of two changes,
  two listeners, two watch goroutines, one failing stream, two reconnections, one compaction, one
  leave; symmetric in listeners, goroutines and values.
- `cachenode`: two rows with two updates together, so that a row is written, deleted, or both
  are updated by one Exec; a reader with two flights for each row, one worker and one clean task.
  The invariant also holds with two readers of one flight each (11.6 million states, left out for its time).
  A late write needs one reader that spans one update; a repeated deletion that meets a newer
  row needs two updates.
- `collection`: 4 slots, delays up to 9 (more than two revolutions), one key and 5 operations for
  the wheel, whose timers do not influence each other; 3 keys, 2 values and both thresholds 2 for
  SafeMap, so that maps are swapped and merged within a few operations; two users, one
  callback, three keys with a limit of two and 4 operations for Cache; two clean tasks for one
  worker, the least with which the drain blocks; three buckets of two ticks and a clock of 14, more than two
  windows.
- `syncx`: three callers, so that one leads, one waits and one comes late; three flights of one
  key, one Inject; two calls of each caller of LockedCalls; four users for two tokens or
  resources, so that two can wait.
- `discov`: two keys, two values, two readers, both modes and four updates, with which a key changes its value
  and another one takes the old or the new one over; four failures, deletions and pauses of a
  Publisher together, with and without an id; two goroutines that deliver three changes.
- `services`: a ring of two slots with two pushers and three messages (four in `runner_order`,
  which is what lapping shows itself with); three calls of a handler; two producers and two consumers
  with two messages, two pauses and a broadcast; two servers, two other listeners and two
  notifications.

### Fairness

Weak fairness for each goroutine's steps: the Go scheduler runs what can run. User
functions return and etcd and redis answer: without that nothing can be promised. Strong fairness
is assumed where a goroutine competes for what others take again and again: a ready case of a
`select` is chosen at random, blocked senders and receivers of a channel are served in
order, and `sync.Mutex` does not starve a waiter. This is so for the executor, for the worker a
clean task waits for, the slot of a StableRunner, the consumer a producer or a broadcast waits for,
and the cases `ch` and `quit` of the Publisher. Receiving a batch is fair for the
background goroutines together, not for each. In Cache firing is strongly fair: the ticker
goes on, and a timer that is set again and again comes to its slot. A producer that has paused is
assumed to resume. No fairness makes a caller start an operation, a listener join or
leave, a server or a call of etcd fail, a key be deleted, or a process be shut down.

## 4. Findings

- `mr_hang`: once the caller has received the reducer's value it only waits for `output` to
  be closed, and nobody reads `panicChan` any more. A reducer that panics after
  `writer.Write`, or a mapper that panics after an early write of the reducer, blocks in
  `panicChan.write`; `finish` is not reached and the call does not return. The tests of the
  package expect a panic to reach the caller.
- `registry_reload`: reload holds `c.lock` while it waits for `watchGroup`, and a watch
  goroutine in handleWatchEvents, load or setupWatch needs `c.lock`.
- `runner_order`: Push takes an index and then locks the slot of that index. A pusher that stops in
  between while others push a whole ring on finds its slot taken by the message one ring later,
  which is read in its place; the messages of one goroutine then come out in the wrong order. The comment of the type
  promises the pushed order. `OrderUnlessLapped` shows that this, and a panic of the
  handler, are the only ways.
- `move_timer`: `moveTask` compares the number of the new slot with the number of the old one and
  takes a larger number for a later time, which is wrong once the hand is between them. The
  task then runs one revolution late or early; `TimersKept` shows that it never runs elsewhere. The
  comment of MoveTimer promises the given delay.

## 5. Known deviations

Formulas one might expect to hold and that the code does not satisfy. They are defined in
their modules with a comment, and no run relies on them.

- `WaitCoversReturned` (PeriodicalExecutor): Wait may return while a task whose Add has
  returned in another goroutine is in a batch another Add is sending; with one caller it
  holds. Check it with the constants of `executor`.
- MoveTimer with less than an interval executes the task and leaves the timer, so that the task runs
  again later.
- `NothingLost` with `UseAfterDrain = TRUE`: Drain empties the slots and leaves `timers` as it
  was, so a later SetTimer of a drained key moves an item that is in no slot.
- Cache: Del unlocks before it removes the timer; a Set in between loses its timer, and the entry
  stays until it is evicted or deleted. `EntryExpiresUnlessRaced` says this is the only way.
- Container: OnAdd with a new value for a known key leaves the key in the list of the old value, so that
  GetValues goes on to return the old one; in exclusive mode a later OnAdd of the old value for another key then
  takes the new value from the first. `ValuesWereLive` allows the values in `Possible` and demands those in `Sure`.
- Registry: a value that changed while nobody was watching is added and then deleted
  (`KeysKeepValues` excludes it); a
  listener that joins may be told old values after newer events; Unmonitor before
  setupWatch leaves a watcher without values. When a reload comes while Monitor is loading, two
  goroutines watch the key (`overlap`): one of them may report old events after newer ones, and a second
  reload may end it before it has made up for that, so that the listener keeps an old view.
  `ListenerInformed` without its conditions on values and `overlap` fails for these reasons; the proof
  attempt showed it, and the bounds of the run were raised until TLC did. The unlock at the end of reload and the start of
  the new watches are one step: a second reload in between would only be one more way to overlap.
- MapReduce: `panicChan` has no buffer, so a goroutine that panics when the caller has left its select is left
  behind: after a cancel of another goroutine, the end of the context, a result or another panic that was taken. A cancel in a mapper together with
  an early write of the reducer is such a case, since the cancel closes `output` between the check and the send of the
  write, which panics. A reducer that writes a third time waits for ever, because the caller panicked at the second.
  `NoGoroutineLeft` names the calls in which none of this can happen (`Isolated`), and says of all calls that
  a goroutine is left only behind such a wait (`Stranded`). The end
  of the context is reported as `ErrReduceNoOutput` when the reducer writes nothing, and
  of two panics one is lost; `Undisturbed` in `OutcomeFaithful` excludes these.
- Pool: a Get that was woken and whose `destroy` panics takes the wake-up with it; others may wait beside a free slot
  until the next Put (`dropped`).
- TimeoutLimit: a signal between a failed TryBorrow and the wait is lost (`missed`); the borrower may time out
  beside a free token.
- Cleaner: with as many failed tasks as workers, and others waiting, the drain at shutdown never
  ends (`Stuck`) and the process is killed; a task that fails after the drain may be lost.
- CacheNode: a row read before an update and written after the deletion stays until it expires
  (`late`), and so does one whose deletion was given up after the last delay (`abandoned`).
  The comment of ExecCtx promises an error when the cache deletion fails; DelCtx always returns nil.
- Publisher: after a watch error, and after a call of etcd that failed, a lease may be left that the
  client renews as long as the process lives (`leaked`); a deletion before the watch has begun, or
  one whose new put fails, is not repaired (`unnoticed`).
- ConfigCenter: a change between the load and AddListener of NewConfigCenter is noticed with the
  next change only; of two deliveries at a time the one that read before the change may store last. `SnapshotCurrent` allows
  nothing else, and neither for longer than until the next delivery.
- StableRunner: a handler that panics sends no result, and the reader waits for its slot; a Push
  that passes the check of `done` before Wait and takes its index after it makes Wait wait for ever.
- TimeoutHandler: Flush takes no lock and does not look at `timedOut`, so a flushed part may stand
  before or after the error.
- Queue: a producer created while the others are paused raises `active` without a word to the listeners; two
  producers may tell them in the wrong order. `PausedIsInactive` allows nothing else, and neither beyond the next time `active`
  comes to zero or leaves it and the listeners are told. A broadcast may stay behind with `eventLock`.
- Shutdown: a listener added after the notification is counted and never called (`Forgotten`), so that servers wait for it until the
  process is killed; one added inside a listener waits for the lock that notifyListeners holds, which waits for the listener (`Entangled`); and one added
  when the last listener is done and a server has not yet left its Wait makes that Wait panic. A comment of
  ServiceGroup says that services stop in reverse order; doStop calls all at a time.
- Cache: a lifetime that is not positive makes the wheel refuse the timer (`ErrArgument`), so that the entry never expires; the
  model has positive ones only.

## 6. Proofs

TLAPS proves every safety property of the runs for every value of the constants, from the
assumptions of the modules (`ConstantsAssumption`; `CollectionAssumption`, `SyncxAssumption`,
`CenterAssumption`, `ServicesAssumption` in the MC modules that put components together). They say that counts are
naturals, that sizes, thresholds and the ring of slots are not empty, as the constructors demand,
that sets of callers are finite where they are counted, and that names of goroutines differ. Every proof has the same outline: an
inductive invariant, a lemma that `Init` implies it, a lemma that every action preserves it, a lemma that it
implies the property, and a theorem that combines them by temporal logic. Components that share an
MC module are proved one by one, as `X!Init /\ [][X!Next]_vars => []P`, and `CollectionSafe`,
`SyncxSafe`, `ServicesSafe` and `DiscovSafe` carry the results to the specifications that the runs check. What an
invariant adds to its property:

**PeriodicalExecutor_proof**: `TypeCorrect`, `Conservation`, `QuitIsSafe`, `CountersMatch`,
`BarrierHolds`, `WaitCovers`. `NoWorkStranded` is not inductive: it needs
that `inflight` counts the senders, the batch in the channel and the goroutine about to
decrement (`Counters`), which in turn needs the shape of a process at each `pc` and
that at most one goroutine is in its loop (`Shape`). Conservation needs that a task is in
one place only (`Placed`). `WaitCovers` needs that what was under way when Wait was
called is executed or still counted in the wait group (`EnteredTracked`), so that when the
counter is zero all of it is executed. The counters are cardinalities of sets of processes
(`Senders`, `Awaiting`, `Decrementing`, `ToConfirm`, `InGroup`), and each action
lemma first states how these sets change.

**Collection_proof**.
- SafeMap: `TypeCorrect`, `Disjoint`, and `Implements`: SafeMap implements PlainMap
  under the mapping that looks a key up in the new map after the old one. Disjointness is
  what makes the mapping sound: without it a deletion would uncover an old value.
- TimingWheel: `TimersAreKept`. The ticks until an item is executed are the slots ahead of the hand, its
  revolutions and its `diff`. getPositionAndCircle takes a delay apart into exactly these (`DelayIs`),
  a tick lowers their sum by one whatever branch the scan takes (`ScannedIs`), and
  moveTask sets it to the new delay or one revolution away (`MovedIs`).
- Cache: `EntriesAreKept`. The list holds each key once, and an entry without a timer is the key of a
  goroutine about to set one or to delete it (`Tended`).
- RollingWindow: `WindowIsExact`. An addition that is `Rank` intervals older than the current bucket is that many
  buckets before it in the ring, and nowhere else; `lastTime` is aligned, so that `span` is a
  difference of interval numbers.

  Wheel and window rest on lemmas about quotients and remainders (`DivMod`, `DivModUnique`, `ModNear`).

**Syncx_proof**.
- SingleFlight: `TypeCorrect`, `AtMostOneFlight`, `ResultsAreNew`, `WaitersAreServed`. The object in `calls` has a
  leader before its delete, is not done, and is younger than whatever was over when a call that joins it
  began.
- LockedCalls: `CallsAreSequential`: who runs a call of a key has its wait group in the map (`Held`).
- TimeoutLimit: `NoSignalIsLost`. A borrower in the gap before its wait counts as one who waits, unless
  it has missed a signal (`GapCounts`).
- Pool: `PoolIsServed`. Resources are in use, idle or lost (`PoolCounts`); free places and idle resources
  are covered by those already woken, or by a wake-up that a panic took away (`PoolWakes`).
- ResourceManager: `ResourcesAreManaged`, on top of the invariant of SingleFlight: its steps are steps of the
  single flight, so one closure runs for a key; a resource is created once and is in the map or on
  its way there (`Once`), and what a flight has recorded is managed (`Results`).

**Discov_proof**.
- Container: `TypeCorrect`, `MapsStayInAgreement`, `ReadersSeeLiveValues`, `ExclusiveIsOneToOne`, in both modes,
  for any calls. A key is mapped to the value it was given last, or, after a change in exclusive mode, to none, and what
  is listed beside that is in `stale`; so the listed values lie between `Sure` and `Possible`. A clean container has a snapshot of what is listed (`Clean`), a reader has recorded what was
  live since it called (`Recorded`), and a reader about to load will find a set it has
  recorded (`Loading`): this is where `dirty`, read without the lock, matters.
- Publisher: `StoppedIsUnpublished`. What is published belongs to the current lease or to `leaked`, and where
  the goroutine cares for no lease, all of it is leaked.
- ConfigCenter: `CenterIsCurrent`. NewConfigCenter has stored what it loaded before it listens (`LoadedFirst`), and an old
  snapshot without a reason in `odd` has somebody who will still bring the value that etcd has (`Brought`).

**Services_proof**.
- TimeoutHandler: `RequestsGetOneAnswer`. Without Flush the buffer is all that was written and the connection
  is empty until ServeHTTP decides.
- Queue: `NoMessageIsLost` (a message is consumed or with a producer that sends it; the channel is
  closed after the producers) and `PausesAreReal`: each time `active` comes to zero or leaves it has one producer who tells
  the listeners of it (`Turns`), and of the latest time they were told or somebody is about to tell them, with a word
  that fits `active` unless a producer was created since (`Latest`).
- StableRunner: `ResultsInOrder` and `WaitCoversPushes`. Messages are followed by their index: each is with its
  pusher, in a task, in its slot or taken out (`Placed`, `Apart`), and of two in one slot the smaller
  index is ahead (`Ring`). Wait needs a counting argument: as many distinct results as indices are all of
  them (`AllTaken`).

**MapReduce_proof**: `CollectorOutlivesMappers`, `CallOutlivesMappers`, `OutcomesAreFaithful`. `Structure` says in which order
the goroutines come to their ends (mappers, collector, reducer, output) and that each deviation has
a reason (a panic, a cancel, the context); `HeardInv` follows a panic from the goroutine to the caller.

**CacheNode_proof**: `StaleRowsAreExplained`. A row becomes stale by an update, which makes its deletion
outstanding; the obligation passes from the caller (`Owed`) to a clean task (`Tended`) and from one state
of the task to the next, until redis has deleted the key or the task is given up. It needs that a
task that is over has no keys.

**Registry_proof**: `RegistryCatchesUp`, `ListenersAreInformed`. What the registry does not know is due to a goroutine
that has to load or has a change of the key before it (`KnownInv`); a goroutine ends with work left
only in a reload or after the last listener left (`GroupInv`, `FirstInv`). For a listener: what it was told,
with what the one goroutine is about to tell it, is what the registry knows (`SoloInv`, `AgreeInv`).

Only model-checked: the liveness properties (EveryTaskExecuted, the EveryCallReturns of two runs,
NoGoroutineLeft, EveryTimerEnds, EntryExpiresUnlessRaced, CleanEnds, KeptPublished, WaitEnds, HandlerReleased,
StopEndsStart, ListenersCalled, GroupEnds), and with them all of Shutdown, because fairness and ENABLED are out of the prover's reach, and the
violations of section 4. `CountersMatch`, `BarrierHolds`, `Disjoint`,
`WaitersAreServed`, `MapsStayInAgreement` and `ExclusiveIsOneToOne` state lemmas of interest that no run repeats.

## 7. What the abstraction leaves out

Time is order: ticks and nondeterminism, no durations; so statements about
milliseconds, jitter of expiry and statistics are outside. Payloads are model values.
Goroutine panics outside user functions (a nil map after Close, a second Stop) end the
process and are guards of the models. Memory is sequentially consistent: the modelled code
guards shared state with locks or atomics.

## 8. Plan

The modules above are ordered by how much of the framework rests on them. What is left:

1. Proofs: every safety property of the runs has one. What remains are action properties (what a
   step may never do, beside the refinement of PlainMap), type correctness of the modules whose
   invariants type only what they need, and the variants of properties in section 5 under the
   conditions that make them true.
2. TokenLimiter, whose monitor sets `redisAlive` before it clears `monitorStarted`, and RedisLock
   with its expiry; the breaker, with its decision as a nondeterministic choice.
3. ForEach and the wrappers of MapReduce; the pipeline of `fx`; the index query of `sqlc`, one
   Take inside another.
