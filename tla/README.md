# OxiDNS: formal models, model checks and proofs

This directory holds TLA+ specifications of the concurrent core of OxiDNS, the
TLC configurations that check them on small instances, and proofs checked by
TLAPS. Paths below are relative to the repository (`src/...` is the server's
own source tree). `PROJECT.json` lists the components, runs, mutants, hazards
and theorems, and maps every definition to the lines it models.

Running things: `tlc -config RequestMap.cfg MCRequestMap`,
`tlapm RequestMapProofs.tla`. Each `MC` module only adds the symmetry set its
configurations use.

## 1. Inventory of the system

OxiDNS is a DNS server. A request received by a *server* plugin runs through a
*sequence* of *matcher* and *executor* plugins; executors answer from caches
and rules or *forward* the query to *upstreams*, each of which owns a pool of
connections. A main task starts, reloads and stops all of it; a management API
talks to the main task.

| Component | State | Operations | Interacts with | What is hard | Correct when |
|---|---|---|---|---|---|
| Request map (`infra/network/upstream/conn/request_map.rs`) | slots (meta word + inline sender), `next_id`, `size` | `store`, `take`, `remove`, `clear`, guard `disarm`/Drop | queries, listener task, closing thread of a connection | lock-free; ids wrap; slots are recycled; close runs beside everything | a sender is in one place, storage is owned, answers reach their query, no thread spins for ever |
| TCP/UDP/QUIC/H2/H3 connections (`.../conn`) | `closed`, `writeable`, request map, queue to the sender task | `query`, `close`, sender and listener loops | pools above, sockets below | close against query; cancellation | a query ends when its connection does |
| Pipelining pool (`.../pool/pipeline.rs`) | slot vector (ArcSwap), `reserved_slots`, per slot `inflight` and state, a Notify | `query`, `acquire`, `expand`, leases and reservations, `maintain` | connections, task center | vector rebuilt by several threads; lost wake-ups; cancellation at every await | bounded, counters exact, no waiter stranded, no connection forgotten |
| Reusing pool (`.../pool/reuse.rs`) | queue, `active_count`, a Notify | `query`, `get`, `release`, `expand`, `maintain` | the same | counter and queue change in separate steps | exclusive borrowing, counter exact, bounded, no waiter stranded |
| Bootstrap (`.../upstream/bootstrap.rs`) | resolved address, expiry, current pool | resolve, replace pool | resolver, pools | double-checked refresh, queries on the old pool | one refresh at a time |
| Controller (`infra/control.rs`) | `ControlState` behind a mutex, command channel | `request_*`, `mark_reload_*` | API, reload executor, main task | flags and channel are updated in two steps | flags tell the truth |
| Main task (`app.rs`, `app/bootstrap.rs`) | current configuration, assembly | start, `wait_for_termination`, `handle_reload_command`, stop | controller, file, plugin registry | failed reloads, roll-back | what it falls back to is what ran |
| Control API (`api/control.rs`) | the configuration file | `save_config_file`, shutdown, restart, reload handlers | controller, file | the file is shared without a lock | an accepted save takes effect |
| API hub/server (`api/`) | listener, routes | start, stop, serve | main task, plugins | connections outlive a stop | no old routes after a reload |
| Plugin registry (`plugin/registry`, `plugin/dependency.rs`) | plugins, lifecycle lock, init order | init, destroy, swap | everything | partial initialisation undone | dependencies before dependents |
| Task center (`infra/task.rs`) | tasks, next runs, running handles | spawn, trigger, stop | pools, cron, recorder | overlap, shutdown with tasks running | at most one run of a task, stop is final |
| Fallback (`plugin/executor/fallback.rs`) | two tasks, watch channel, threshold, buffered backup | `execute` | other executors | order of joins, timer, panics, cancellation | both tried, errors reported, a hang bypassed |
| Cache (`plugin/executor/cache`) | entries with expiry, keys being refreshed | lookup, insert, lazy refresh, dump/load | rest of the chain | refresh beside queries | one refresh per key, no refresh evicts an entry newer than itself, retention kept |
| Forward (`plugin/executor/forward`) | a race of upstream queries | select, race, cancel | pools | losers are cancelled | first usable answer, errors only if all fail |
| Sequence (`plugin/executor/sequence`) | chain position | jump, goto, return, mark | all executors | nesting | the chain's reference semantics |
| Dual/IP selectors, learning, recorder, reverse lookup | probe caches, queues, managed files | see source | sub-queries, writer threads | races of sub-queries, batches, roll-back | what is listed is what matches, the file differs only by failed writes; acknowledged rules last |
| RouterOS executors (`plugin/executor/routeros`, `ros_*`) | mailbox, leases, snapshots | observe, reconcile | a router | stale snapshots, restarts | leases and router agree in the end |
| Providers, matchers, rule matching | immutable snapshots; rate limiter buckets | match, reload | registry | reload beside drain; bucket update | no reload of a destroyed provider |
| Servers (`plugin/server`) | sockets, tasks per request | accept, answer, stop | sequence | stop with requests running | every request is answered or dropped with its server |
| Network glue, observability, CLI, upgrade, crates, web UI | – | – | – | I/O and data conversion | – |

The hazards each component is exposed to are listed with their lines in
`PROJECT.json`; a hazard that no property covers says why.

## 2. Plan

Modules are ordered by how much of the server rests on them:

1. `RequestTable`, the abstract table of a connection's requests, and
   `RequestMap`, the lock-free map that implements it; `RequestMapProofs` – what
   makes every upstream query work.
2. `Connection` – the five kinds of connections, above `RequestTable`;
   `ConnectionProofs`.
3. `Notify` (external), `PipelinePool`, `ReusePool` – the pools of connections;
   `PipelinePoolProofs`, `ReusePoolProofs`.
4. `ConfigReload`, `ConfigReloadProofs` – controller, main task and file.
5. `TaskCenter` – the scheduler that maintenance, dumps and cleanups run on;
   `TaskCenterProofs`.
6. `Cache`, `Fallback`, `ExecutorProofs` – executors with tasks of their own.
7. `DynamicDomainSet`, `DynamicDomainSetProofs` – a provider with a file, a
   worker and reloads.

What composes what: `Connection` instantiates `RequestTable`, which
`RequestMap` is shown to implement, so that what is proved of the map carries
over to what the connection relies on. Both pools use `Notify`. The other
modules stand for themselves; where they touch, one of them holds the other's
behaviour as a free choice (a connection dies, assembling fails, an executor
hangs).

Would come next: the life cycle of the plugin registry (as a refinement of the
step with which `ConfigReload` assembles), the query recorder's writer, the
RouterOS leases and their reconciliation.

## 3. The modules

### RequestMap

`meta[s]` and `sender[s]` are a slot's state word and its inline storage
(`None`: uninitialised); a sender is named by the query that stored it, and
`rx[q]` is what that query's receiver sees. `pc[p]` and `loc[p]` are the
place and the locals of a thread, including the sender it has moved out
(`loc[p].hand`). One action is one atomic access:

- `store`: `StoreStart`, `ProbeFree`/`ProbeTombstone`/`ProbeOccupied`/`ProbeEnd`
  (one load of `try_store_candidate` each), `Claim`/`ClaimLost`, `Publish`,
  `CountStored`; `Retry` is the next candidate id.
- `take`/`remove`: `TakeStart`/`RemoveStart`, `Lookup*`, `Detach`/`DetachLost`,
  `Bury`, `CountDetached`, `CheckEmpty`, `ResetSlot`, `ResetEnd`.
- `clear`: `Clear*`. On a `RESERVED` slot the code spins, so no action is
  enabled there.
- `Churn` is a query that is not followed: it stores, is answered and disarms
  while nothing else runs. It moves `next_id` on, so that ids wrap around
  while an entry is still in the table, without adding a thread.

`RequestTable` is what the callers see of it: `store`, `take`, the guard and
`clear` as single steps on a set of entries. Its weaknesses are part of it: a
`store` may fail, two entries may have one id once ids have wrapped, and a
look-up may miss. The refinement mapping (end of `RequestMap`) puts a sender
into the table from the publication of its slot until the thread that detached
it ends its channel: `Entries` is what the slots hold together with what such
threads have in hand, `Guards` the ids of the armed guards.

Merged steps: a load and a CAS that is retried until it succeeds are one step
(a failed CAS only repeats the load); writing the storage and publishing `FULL`
are one step because the theorem `ExclusiveStorage` says that nobody else may
touch the slot in between. Loads and stores are sequentially consistent: the
code's `Relaxed` accesses are to `size` and `next_id` and to the pre-check of
`reset_tombstones`, where an older value only makes a CAS fail; `size` guards
nothing but that reset.

### Connection

`kind` is the kind of the connection, chosen once. `entries`, `guard`, `rx` are
the request map as `RequestTable` has it, with a channel per attempt (UDP makes
two); `count` is `using_count` of the kinds without a map; `fut[t]` is the
`Notified` future of a background task, which `notify_waiters` wakes only if it
exists; `pc` is the place of every call, task and of the pool as a closer. The
queue to the sender task and the query it is writing belong to TCP, `link` (the
transport works) to QUIC, H2 and H3. `due` is auxiliary: what `clear` found
when it began and must have dropped when it ends.

Every action is one access to what the threads share. Abstractions: an answer
may have any id; the `writeable` flag is left out (it falls just before the
close that follows it); a stream is answered, fails or breaks; a caller's
deadline may drop its future wherever it can be suspended; the sender task's
`recv` cannot return `None`, because the connection it holds owns the other
end. `clear` is given its effect: what it found is gone when it ends (it walks
all slots and empties each); an entry that a listener is just taking counts as
gone when it is answered. In the run entries share one id: `take` and `remove` then may hit any
entry that some choice of ids lets them hit, or none.

The drivers of H2 and H3 wait for `close_notify` without reading the flag, and
nothing else ends them. A close before their first poll (the `notified` future
is created by `select!` then) leaves them, and the socket, to the peer:
`CloseEndsQueries` and `CloseEndsTasks` are promised for TCP, UDP and QUIC only
(QUIC's close closes the transport itself).

### Notify, PipelinePool, ReusePool

`Notify` is `tokio::sync::Notify` as the pools use it (registration by
`enable`, a stored permit, `notify_one` passed on when its waiter is dropped).
It is external: its source is not in the repository.

In `PipelinePool` a slot is named by its connection; `slots`, `reserved`,
`state`, `alive`, `inflight` are the vector, `reserved_slots`, the slot's state
byte, `Connection::available` and the slot's counter. Every query and the
maintenance task has a place (`pc`) and locals (`loc`, `sweep`). Both rounds of
`acquire` use the same actions: a registered waiter (`wait[t]` set) is in the
second. Cancellation (the future is dropped) is possible wherever the code
awaits: `GiveUp`, `Cancelled`, and `ConnectFailed` followed by `GiveUp`.
In `ReusePool`, `queue`, `active`, `alive` are `connections`, `active_count`
(which wraps like its `usize`) and `available`; `at[p]` is the connection a
thread holds, `drops` is `drop_vec`.

Free choices: which slot the round robin starts with, whether a connection has
been idle for long enough, when connections die, when deadlines pass, whether a
connection attempt succeeds. Merged steps: one pass over the vector
(`Prune`), because a slot's fitness to be pruned is final; `Prune` may also count without pruning, which is the
case of a vector replaced by another thread meanwhile; the two loads of `state`
and `available` (both only fall); a `notify_waiters` belongs to the step it
announces, since a task that registers in between would at most be woken once
more.

### ConfigReload

`file` is the content of the configuration file and stands for its SHA-256
too; `control` is `ControlState`, `commands` the channel, `client[c]` an API
connection's request, `main` the main task with `current_config`, the
candidate and the version read; `assembled` is the configuration the runtime
was assembled from. A critical section of the mutex is one action, the send on
the channel is another, every read and write of the file is its own. Assembling
is one step that succeeds or fails. `owed` is an auxiliary variable: an
accepted save has not been read by a reload since. API connections can make
requests from the first assembly until the process ends, also during reloads,
because connection tasks outlive the hub they came from (`api/server.rs`).

### Fallback

One execution: `branch[s]` is where each task is and how it ended, `joined`
what `join_next` has returned, `reached` `threshold_reached`, `buffered`
whether `buffered_secondary` holds a response, `erred` whether `last_err` has
text. Its names carry the module's name (`fallbackVars`, `FallbackSpec`), so that
`ExecutorProofs` can extend it beside `Cache`. A sleep may end at any time, an executor may answer, end without an
answer, fail, panic or run for ever, and the caller may drop the future.

### TaskCenter

`registered`, `nextRun`, `running`, `nextRunId` are the table of tasks (the
handle of a task's run is named by the run), `heap` and `recheckAt` the
scheduler's timers, `control` and `triggers` its channels. `now` is the
monotonic clock and `now + offset` the wall clock, which may jump. `job[j]`
follows the tokio task of a run: spawned, in its factory, live, ended;
`request[q]` follows a caller. The scheduler's actions are the arms of its
`select!` in their order of preference (`HandleCommand`, `Wakeup`,
`HandleTrigger`), each with the head of the loop (`LoopHead`). Calls that must
wait for a run (`AwaitRuns`) do so in a task of their own (`Acknowledge`).
An abort takes effect when the run yields next. Not modelled: a scheduler that
ends because all senders are gone and is started again by the next
registration, and the helpers that run blocking closures.

### Cache

An entry is its answer (positive or not, TTL), its deadlines on `AppClock`,
which restarts at 0 with the process, and an identity; `born` and `trueAge` are
auxiliary and tell its age in time of service. `asking` and `refresh` follow
queries and background refreshes, `inflight` is `lazy_refresh_inflight`,
`dump` the temporary file, `file` the dump on disk. Abstractions: the followed
keys are a few among many, so that pruning may evict any of them; the count of
changes saturates at the threshold it is compared with; touching an entry only
matters to the choice of what is evicted; a rename is atomic. Seconds stand for
milliseconds. The identity stands for the address of an entry's `Arc`: a refresh
keeps the `Arc` of the entry it was started for, so that no new entry gets its
address (`FreeIds`). `overtaken` is auxiliary: the refreshes whose key has been
written, or has lost its entry, since they began. It is kept from what happens
to the table and not from identities, so that `EvictionSparesNewer` would see an
identity that is given out a second time.

As in the code: a panic behind a refresh leaves its key in flight (`abandoned`;
its entry is then not refreshed again before it expires); a load may replace
newer entries; a tear-down before the load has run dumps a cache without the
persisted entries; a dump that fails has already reset the count of changes; a
record holds the time an entry has left and not when it was written, so that the
time from a dump to its load counts for nothing (`born` and `trueAge` leave it
out too: `RetentionKept` speaks of the time spent in a cache).

### DynamicDomainSet

`file` is the managed file, `known` the rules in memory, `snapshot` what the
matchers see, `pending` the batch, `queue` the command channel, `worker` and
`cmd` the worker's place and command. `accepting`, `reload`, `teardown` are
`ProviderRuntimeControl` and the task that destroys the provider. A failed or
crashed append leaves any number of whole lines and perhaps a torn one, or all
of them, if giving back the lock of the file is what failed. A rewrite goes
through a rename: it fails before it (`ExecuteFails`), or after it when the lock
is not given back (`ExecuteFailsLate`), and then the file is replaced while memory
keeps what it had. Somebody may edit the file; a rule may be one no matcher can
be built from (`Bad`), which fails its whole batch. `edited`, `unsettled`,
`durable` and `gone` are auxiliary; `unsettled` are the lines of the writes that
failed since the file was last replaced or read, the only ones in which
`FileIsMatched` lets the file and the matchers differ.

## 4. What the runs show

| Run | Instance | Shows |
|---|---|---|
| `request_map` | 2 queries + listener + closer, 2 slots, 3 ids, 4 ids issued (1.25 million states) | `TypeOK`, `StorageSafe` (`StorageExclusive`, `ReservedHasOwner`, `StorageInitialised`), `SenderInOnePlace`, `ResponseGoesToItsQuery`, `SizeCountsEntries`, `ImplementsTable` |
| `request_map_lost_claim` | 3 queries, 4 slots, 8 ids | violates `StoreKeepsSender` |
| `connection` | each of the 5 kinds, 2 calls (one patient enough for UDP's second attempt), the tasks, the pool as a closer (0.33 million states) | `NoQueryLeftBehind`, `UsingCountExact`, `CloseEnds` (`CloseEndsQueries`, `CloseEndsTasks`) |
| `pipeline_pool` | 2 queries + maintenance, `max_size` 1, `min_size` 0, load 1, 3 connections (1.74 million states) | `PoolBounded`, `CountersExact`, `NoStrandedWaiter`, `ClosedIsFinal` |
| `pipeline_pool_min` | 1 query + maintenance, `max_size` 2, `min_size` 1, 4 connections (0.64 million states) | `NoForgottenConnection` |
| `reuse_pool` | 2 queries + 2 maintenance runs, `max_size` = `min_size` = 1, 3 connections (0.25 million states) | `OnePlace`, `ActiveExact`, `QueriesStrandNoWaiter`, `WithinMaxSize` |
| `config_reload` | 2 API connections, 2 loadable contents, 1 stop request (0.65 million states) | `StatusExact`, `FallbackIsRunning`, `AcceptedSaveIsLoaded`, `CommandsEnd` (`ReloadEnds`, `ShutdownEnds`) |
| `task_center` | a fixed and a cron task, 2 requests, 3 units of time, wall clock 0 or 2 ahead, 2 runs per task, trigger channel of 1 (1.35 million states) | `OneRunAtATime`, `StopIsFinal`, `StartedIsTrue`, `DeadlinesKept` (`DeadlinesOnHeap`, `FixedOnGrid`, `CronRechecked`), `CronNotEarly` |
| `cache` | 1 key, 1 query, 2 refresh tasks, TTLs 1 and 2, `lazy_cache_ttl` 3, 3 seconds of service with crashes and restarts (0.41 million states) | `OneRefreshPerKey`, `FreshWindowInProcess`, `RetentionKept`, `EvictionSparesNewer`, `RefreshesEnd` |
| `cache_fresh_window` | the same without crashes | violates `FreshWindow` |
| `fallback` | no bounds: the whole state space (504 states) | `NoAnswerLost` (`BothTried`, `BackupUsed`), `ErrorReported`, `StandbyWaits`, `HangBypassed` (`SecondaryGetsItsTurn`, `SecondaryAnswerEnds`) |
| `dynamic_domain_set` | a good and a bad rule, 1 waiting client, queue and batch of 2, 4 calls, 2 failures, 1 restart (0.78 million states) | `RulesAgree` (`ListedIsMatched`, `FileIsMatched`), `AcknowledgedLasts` (`FlushedIsDurable`, `RemovedStaysRemoved`), `NoReloadAfterDrain`, `CallersAnswered` |

The parts of a composite property are in parentheses. The type invariants are
conjuncts of `CountersExact`, `OnePlace` (pools), `DeadlinesKept`,
`OneRefreshPerKey`, `NoQueryLeftBehind` and `RulesAgree`; those of `ConfigReload`
and `Fallback` (`FallbackTypeOK`) are proved. Every property of a passing run has a mutant in `PROJECT.json`: a plausible slip in
the modelled code, defined beside the action it replaces, that breaks it.

The violated properties are what an assertion or the documentation says of the
program; the findings in `PROJECT.json` quote it and describe the trace:

- a `store` that loses a claim panics in `expect("sender present")` when its
  retry reaches another free slot;
- an entry loaded by a process that is younger than the answer is served as
  fresh once more, although its TTL had passed before the dump.

Other places where the code does less than one might read into its comments
are in the models as they are, and the properties are stated so that they hold:

- a reset of tombstones that overlaps a `store` can cut a probe chain
  (`request_map.rs:411`): an answer is not matched, and its entry stays until
  its guard is dropped or the connection closes (`RequestTable` lets look-ups
  miss);
- maintenance of the reusing pool frees places without waking those who wait
  (`reuse.rs:131`; `QueriesStrandNoWaiter` speaks of the queries), and can put a
  connection back whose place was taken (`reuse.rs:147`; `WithinMaxSize` allows
  one more than `max_size`);
- the "running" configuration version is read from the file apart from the
  configuration (`app.rs:376`) and can name one that was never assembled;
- in standby mode a backup response that arrives last and before the threshold
  is dropped (`fallback.rs:244`; `BackupUsed` speaks of executions past it);
- an append through the API is answered "ok" at once when the rule is in the
  batch of a learner (`backend.rs:690`), before it is in the file and the
  snapshot; a batch that then fails takes the rule with it;
- "Flush failure means the file and snapshot were not advanced"
  (`backend.rs:557`): a write that fails in the middle, or whose lock is not
  given back, does advance the file; its rules are neither listed nor matched
  until the next reload or start, and then they are. A removal or a clear that
  fails after its rename (`storage.rs:122`) is the opposite case: memory goes on
  matching what the file has lost, and an append of such a rule is answered
  "ok" without being written, since memory has it. `RulesAgree` says that the
  file and the matchers differ in no other lines than these.

### Bounds, and why they are enough

- **Request map.** Two queries, the listener and the closer give every pair of
  concurrent operations (store/store, store/detach, detach/detach,
  clear/either), and threads touch each other only through one slot and one id.
  Two slots suffice to pass over an occupied slot, to recycle a tombstone and to
  fill the table; three ids in two slots wrap within four issued ids
  (`MaxIssued` stops `Churn`), so that an id is reused while its former owner's
  guard or a late response is still about. The table of the code has at least 8
  slots (`MIN_SLOT_COUNT`); nothing in its algorithm depends on that, and the
  theorems hold for every number. The violation needs more free slots than
  that, hence four.
- **Connection.** Calls meet each other only through the map and the queue;
  what can go wrong happens between one call and the thread that closes, and
  the second call is there to close the connection under the first.
- **Pools.** With `max_size` 1 two queries compete for everything; `MaxConns`
  bounds the connections ever created (each can die once, so two replacements
  follow the first). `min_size` only matters to maintenance, so it gets a run
  in which the vector can become stale (`max_size` 2). `MaxSweeps` bounds the
  maintenance runs of the reusing pool to two, which lets one see what the
  other left; `CountRange` only has to exceed what can be counted, `MaxSize + 1`.
- **Reload.** Two connections are what a race of requests takes; a third only
  queues more of the same. The bound of one stop request keeps the channel
  finite: the first one taken ends the main task.
- **Task center.** `MaxTime` 3 and `LastRegister` 1 give each task two
  deadlines, a late wake-up that skips one, and a clock that jumps between them
  in either direction; `RunIdEnd` 3 exhausts the run ids, which also bounds the
  runs. Two requests are what it takes to trigger beside a stop, to overlap two
  triggers, and to fill the trigger channel.
- **Cache.** Entries of different keys meet only in the dump and the prune,
  which treat each by itself; one key with two refresh tasks shows what a second
  refresh would do. Three seconds are enough for an answer to become stale, be
  retained, dumped, loaded and expire (TTLs of 1 and 2, retention 3); a TTL of 1
  is below `min_positive_ttl`.
- **Dynamic domain set.** Four commands are an append, a removal and a reload
  or a second append around a tear-down; two failures are a torn write, or a
  rewrite that fails late, followed by a crash or an edit. One restart shows what
  the next provider reads. With one good and one bad rule a batch
  holds either alone or both; the theorems hold for every set of rules.

No bound is needed for `Fallback`. `CHECK_DEADLOCK FALSE` is set everywhere
because these systems may stop: queries end, bounds are reached, the process
goes down.

### Fairness

Only what the runtime does by itself is fair, and weakly so.
`ConfigReload!FairSpec`: the main task (the runtime polls it, and assembling is
assumed to return) and `Send` (a request that has left its critical section
sends its command without awaiting anything). `Fallback!FairFallbackSpec`: the
secondary's wait and the query's loop (sleeps end, tasks are polled); executors
need not end. `Connection!FairSpec`: every call, task and closer that can take
a step of its own takes one; nothing is promised of the network (answers,
errors and writes may stay away), of deadlines, or of the pool, which may never
close; only a stream whose transport is gone ends. `Cache!FairSpec`: a refresh
task is polled until it ends, and its question is bounded by the timeout around
it. `DynamicDomainSet!FairSpec`: the worker, and the tasks of a reload and of a
tear-down; blocking file operations return. Nothing is assumed of clients,
signals, editors, clocks or crashes. The pools state the absence of lost
wake-ups as a state property instead (`NoStrandedWaiter`), which needs no
fairness: no state with all queries idle or parked, un-notified, while there is
capacity. `TaskCenter` has only safety properties and no fairness.

## 5. What is proved

All theorems hold for every value of the constants that the `ASSUME`s of the
module allow (and, for `SizeIsExact`, its own hypothesis): sizes are natural
numbers, names are distinct, and what is counted is finite, that is the calls
of a connection, the queries of a pool, and the followed keys and refresh tasks
of the cache; nothing else is assumed. Every proof
has the same outline: an inductive invariant, one lemma per action that keeps
it, and theorems that read the property off it. TLC checked each invariant on
the instances of section 4.

**RequestMapProofs** – `TypeCorrect`, `SizeIsExact` (`SizeCountsEntries`) and
`StorageIsSafe` (`StorageSafe`, with its parts `ExclusiveStorage`,
`ReservedIsOwned`, `InitialisedStorage`). None of these is inductive alone. The
inductive invariant `OwnInv` ties each slot to its thread: a thread between its CAS and
its release (`Owns`) has its slot `RESERVED`; two owners have different slots;
every `RESERVED` slot has an owner; storage is initialised in every `FULL` slot
and in the slot of a thread that is about to read it, and not in `EMPTY`,
`TOMBSTONE` or about-to-be-written slots; a thread that is about to write has a
sender in hand. The proof has one lemma per action; the ones that matter are the
CASes (which take a slot only from a state nobody owns) and the three
publications (which only the owner makes). `ExclusiveStorage` is the argument the
code's `unsafe impl Sync for Slot` rests on. `SizeIsExact` adds `SizeInv`: until the
clear, `size` is the number of `FULL` slots plus the detached entries not yet
uncounted minus the stored ones not yet counted, modulo 65536. It holds for
tables of fewer than 65536 slots (the theorem's one hypothesis; the default
limit of 64 queries makes 256), since no sixteen-bit counter tells 0 from 65536.

The second half of the module is about what the map does for its callers:
`SendersInOnePlace` (`SenderInOnePlace`), `ResponsesReachTheirQuery`
(`ResponseGoesToItsQuery`) and `MapImplementsTable` (`ImplementsTable`:
`Spec => Table!Spec`). On top of `OwnInv`, the invariant says
where every sender is, that a query before its publication has its sender in
hand, which id a slot's sender was published under, and that a query's guard
holds the id its entry has; with it every action of the map is a step of the
table under the mapping, or leaves it alone.

**ConfigReloadProofs** – `TypeCorrect`, `RollbackRestores` (`FallbackIsRunning`),
`AcceptedSavesAreRead` (`AcceptedSaveIsLoaded`), `StatusNeverLies`
(`StatusExact`), `ShutdownIsNotLost`. The invariant adds where the main
task can be with which candidate and assembly (`MainInv`), what a client's request
may hold at each place (`ClientInv`), that the flags agree with the main task's
place (`FlagInv`), that a request on its way implies the pending flag
(`RequestInv`), and that an owed read implies a reload that is pending or has not
yet loaded (`OwedInv`): the flag is only cleared by a reload that reads the file
afterwards. For `StatusExact` one more part is needed: who carries the pending
flag's request, a client about to send it, the channel, or the main task,
and that only one of them does (`PendingInv`). `ShutdownIsNotLost` says the same of
the shutdown flag, which nothing clears: its command is on its way until the
process is down.

**ExecutorProofs**, the cache – `OneRefreshAtATime` (`OneRefreshPerKey`),
`FreshnessIsKept` (`FreshWindowInProcess`), `RetentionIsKept` (`RetentionKept`),
`EvictionsSpareNewer` (`EvictionSparesNewer`). Ages and deadlines are on different
clocks, so the invariant relates them wherever an answer can be. In memory the
time left and the age of an entry together stay within its retention (`ItemInv`);
in a record, on disk or in the temporary file, the same holds of the remaining
times written down (`RecordInv`), which is what lets a load put the entry on a new
clock. Between two instances nothing of the old one runs (`QuietInv`): a deadline
computed before the clock restarted would mean nothing after it. A key is in
flight exactly if a refresh of it runs or has panicked (`RefreshInv`), from which
follows that a second refresh finds the key taken. `EvictionsSpareNewer` speaks
of history, the code compares identities, and `OvertakenInv` connects them: a
refresh under way that finds its entry's identity under its key has not been
overtaken. An entry that is stored or loaded has a free identity, which is not
one a refresh refers to (`TableHistory`); that one is always free is a counting
argument over the finite sets of keys and tasks.

**ExecutorProofs**, the fallback – `FallbackTypes`, `BothAreTried`, `ErrorsAreReported`,
`StandbyIsPatient`, `BackupIsUsed` (`BackupUsed`), `NoAnswerIsLost`
(`NoAnswerLost`). The invariant relates branches, joins and result: what a joined
source left behind (`JoinedInv`), that a skipped secondary means an answered
primary and that outside standby mode nothing is buffered (`BranchInv`), and that
a result without a response comes after both joins.

**DynamicDomainSetProofs** – `InvariantHolds`, `RulesAlwaysAgree` (`RulesAgree`),
`AcknowledgementsLast` (`AcknowledgedLasts`), `NoReloadOfDrained`
(`NoReloadAfterDrain`), `NobodyIsForgotten`. Rules are in up to
five places at once: the batch, the memory, the snapshot, the file and, while the
worker rewrites, what it is about to install. `PlaceInv` says what the worker has
in hand where (and that the batch is flushed before any command that rewrites),
`RuleInv` which of the five agree at each of these places, above all that memory
is the snapshot and the batch together, that the file and the snapshot differ
only in the batch being written and in lines of failed writes (`unsettled`), and
that what is about to be installed is what was written and holds no rule whose
removal is acknowledged. `NoReloadOfDrained` is about order: at most one reload is with the worker, and only while
its caller, who holds the lock, waits for it (`ReloadInv`), so that the tear-down
that has the lock finds none behind it. `NobodyIsForgotten` is about who waits: the
reply of a waiting caller is with a command in the queue or in the worker's
hands, or with a batch that is being flushed, and the worker is there; likewise the
reload task and the tear-down that joins the worker. A batch with a waiting caller never waits
for the tick (`CallerInv`), and a worker that has stopped, which only the
tear-down's Shutdown makes it do, left nothing in its queue (`StopInv`).

**ConnectionProofs** – `NobodyIsLeftBehind` (`NoQueryLeftBehind`),
`UsingCountIsExact` (`UsingCountExact`), `CloseReachesTheTasks`, `ConnectionUsesTable`
(`Spec => Table!Spec`). A query that is registered and whose channel is open has
an entry; if the connection is closed and the query is past its second look at
the flag, the close has found that entry (`HeldInv`), and what a close has found
and not yet dropped, its closer is still clearing (`ClearInv`). The counter is followed by the
set it counts: each step adds one call to the set, takes one from it, or leaves
it, and `FiniteSetTheorems` does the rest. The last theorem composes the two
levels: what the connection does with its map is a behaviour of the table that
`MapImplementsTable` says the lock-free map implements. `CloseReachesTheTasks` is
the same argument for the background tasks: after the notification of a close no
task of TCP or UDP sits in its `select!` un-notified (it had created its future
before it looked at the flag), and the driver of QUIC sits beside a transport
that is gone (`TaskInv`).

**PipelinePoolProofs** – `CountersAreExact` (`CountersExact`), `PoolIsBounded`
(`PoolBounded`), `NothingIsForgotten` (`NoForgottenConnection`),
`ClosedStaysClosed` (`ClosedIsFinal`). The invariant places every connection (in the
vector, in a thread's hands, retired or closed: `PlaceInv`, `KnownInv`,
`RetireInv`, `OpenInv`), keeps the counters (`CountInv`) and bounds the vector
(`SizeInv`; `SweepInv` says that the vector a sweep works on is made of the slots
it has sorted and those to come, for as long as nobody has replaced it). The proof
describes each action as a thread going to a place with new locals (`Step`), so
that one lemma serves all the actions that only move a thread.
`NobodyIsStranded` (`NoStrandedWaiter`) has an invariant of its own on top of
that one. A chance is a slot with room, or an empty vector. While somebody waits
un-notified and nobody builds a connection (a build ends by waking everybody), each
chance is minded (`ChanceInv`): somebody is awake, that is notified, about to
notify or looking through the slots unregistered, or is registered and has not
come to that slot yet. Three facts keep it: a stored permit means that nobody
waits (`PermitInv`), who has left the wait holds no registration (`WaitInv`), and
the reservations that a registered waiter has counted still stand, since the end
of one would have woken it (`SeenInv`). The order in which `Notify` serves
its waiters plays no part: whom `notify_one` picks is awake, whoever it is.

**ReusePoolProofs** – `PoolTypes`, `OneUserPerConnection` (`OnePlace`),
`CountIsExact` (`ActiveExact`), `PoolKeepsItsSize` (`WithinMaxSize`). The three
are not inductive: the counter and the queue change in different steps, so
what a thread holds has to be read off its place in the code (`PlaceInv`), and
every open connection is in the queue, in one thread's hands or in one
maintenance's `drop_vec` (`HomeInv`). `CountInv` then equates the counter with
the connections queued and the places held, but for the step of maintenance
that has put a connection back and not counted it yet, where it is one short,
`CountRange - 1` for zero. Of the wrap-around only `CountRange > MaxSize + 1` is assumed.
`QueriesWakeEachOther` (`QueriesStrandNoWaiter`) needs no counting beyond that: a
query parks only after it has found the pool full, whatever frees a place
wakes everybody (`FullInv`), and while a connection is queued and somebody waits,
somebody is awake who will take it or pass the notification on (`QueueInv`).

**TaskCenterProofs** – `RunsNeverOverlap` (`OneRunAtATime`), `DeadlinesAreKept`
(`DeadlinesKept`), `StartedIsNoLie` (`StartedIsTrue`), `StoppedStaysStopped`
(`StopIsFinal`), `CronIsNeverEarly` (`CronNotEarly`). `RunInv`: the only unfinished
run of a task is the one whose handle the scheduler holds, and ids are used
once. `DeadlineInv` adds the registrations still in the channel, and that a
re-check is never farther away than its interval. `ReplyInv`: a trigger is in
the channel or one run has its reply sender, and a stop is pending until its
command is handled. `StopInv` is about order: a task's registration precedes
every stop of it in the channel (`RegisterOrder`, `StopOrder`), after its stop the
task is not in the table (`Stopped`), and a run without a task is awaited by a
stop that is not acknowledged yet (`RunsAwaited`).

Every safety invariant and every action property that a passing run checks is
proved, the refinement `ImplementsTable` included. Only model-checked are the
liveness properties (`CloseEnds`, `CommandsEnd`, `RefreshesEnd`, `CallersAnswered`,
`HangBypassed`), since fairness and `ENABLED` are out of the prover's reach. What
they rest on is proved where it is a state property: whoever waits is known to
somebody who has yet to act (`NobodyIsLeftBehind` and `CloseReachesTheTasks` for
`CloseEnds`, `StatusNeverLies` and `ShutdownIsNotLost` for `CommandsEnd`,
`OneRefreshAtATime` for `RefreshesEnd`, `NobodyIsForgotten` for `CallersAnswered`).
TLC checked the invariants of these theorems too, on the instances of the runs.
No module uses `RECURSIVE` operators, so every one of them can be proved about.

## 6. What is not modelled

Everything marked `not_modelled` in `PROJECT.json`, with the reason: executors
and servers that are sequential or keep no shared state, I/O and data conversion,
parts outside the server, and a few components with a concurrency of their own
that remain to be done (section 2). Within the modelled parts: time (only the
order of events counts, save in `Cache` and `TaskCenter`, which have clocks),
logging and metrics, the contents of messages, rules and configurations, weak
memory (see RequestMap), the restart of the process after a stop (save in `Cache`
and `DynamicDomainSet`), and a panic of a task elsewhere than where the code
asserts or a module says so.
