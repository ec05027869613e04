# EKG: a verification development for the EPICS to Kafka gateway

The gateway reads commands from a Kafka topic ("monitor channel C on topic T",
"stop"), subscribes to EPICS channels, and publishes every value it receives on
the Kafka topics asked for. This directory models the parts that share state
between threads, checks them with TLC on small instances and proves their safety
for every instance with TLAPS. Paths below are relative to `src/src/ekg/`.

## 1. Inventory

| Component | State | Operations | What must hold |
|---|---|---|---|
| EPICS service manager (`service/epics/EpicsServiceManager.cpp`) | `run`, `channel_map_mutex`, `channel_map`, `handler_broadcaster`, the scheduler thread | `addChannel`, `removeChannel`, `monitorChannel`, `addHandler`, `getHandlerSize`, `task`, constructor, destructor | the map is touched only under the mutex, a half-built entry is never polled, live handlers get every event once and in order, the destructor returns |
| Broadcaster (`common/broadcaster.h`) | `targets`, tokens | `registerHandler`, `purge`, `broadcast`, destruction of a token | a purge drops dead targets only |
| EPICS channel (`service/epics/EpicsChannel.cpp`) | the pvac subscription and its queue | `connect`, `startMonitor`, `monitor` | a poll drains up to the first signal |
| Acquire worker (`controller/node/worker/AcquireCommandWorker.cpp`) | `channel_topics_map`, `channel_map_mtx`, its handler token | `acquireManagement` on the pool's threads, `epicsMonitorEvent` on the scheduler | the table is what the commands say; a channel is monitored exactly when it has a topic; events go only where asked |
| Node controller (`controller/node/NodeController.cpp`) | the pool, the workers, the configuration | `submitCommand`, destructor | what is stored is what was asked for |
| Node configuration, channel repository, data storage (`service/data/`) | an SQLite table and a recursive mutex | insert, remove, lookup, `processAllChannelMonitor`, `iterateAllChannelMonitor` | no duplicate row, an iteration misses no row that stays, a handler may use the storage again; what a task was made of is stored first (a removal inserts, `NodeConfiguration.cpp:25`) |
| Command controller (`controller/command/CMDController.cpp`), Kafka subscriber | `run`, the consumer's position and committed offset | `consume`, `start`, `stop`, `getMsg`, `commit` | no command is lost, whatever fails |
| Command parser (`controller/command/CMDCommand.cpp`) | none | `getCMDType`, `checkFields`, `parse` | a command is made only of the fields given |
| Kafka publisher (`service/pubsub/impl/kafka/RDKafkaPublisher.cpp`) | librdkafka's out queue, ownership of messages | `pushMessage(s)`, `dr_cb`, `flush`, `autoPoll`, `deinit` | a message is freed once; none is lost or reordered on a partial failure |
| Thread pool (`common/BS_thread_pool.hpp`) | `tasks`, `tasks_total`, `running`, `waiting`, a mutex, two condition variables, promises | `push_task`, `wait_for_tasks`, `pause`, `submit`, `push_loop`, `parallelize_loop`, `reset`, `worker`, constructor, destructor | each task runs once and in order; a loop covers its range once; waits, futures and the destructor return |
| Gateway and main (`EKGateway.cpp`, `../main.cpp`) | `quit`, `terminated`, a mutex, a condition variable, the service registry | `setup`, `stop`, the signal handler | a stop ends the program and tears it down in order; success means a clean end |
| Program options (`common/ProgramOptions.cpp`) | the options given, with their values | `parse` from three sources, the getters, `parseKVCustomParam` | an earlier source wins; a malformed one ends the setup |
| Logging (`service/log/impl/BoostLogger.cpp`) | the sinks, the filter and the switch of Boost's process-wide core | constructor, destructor, `logMessage` | the log that was asked for, and no other, tells how the process ended |
| Service resolver (`service/ServiceResolver.h`) | one instance per service | `registerService`, `resolve` | a service is used while it is registered |
| uuid, `toShared`, type aliases | none | | |

How they interact: the command controller's thread calls `NodeController::submitCommand`,
which writes the configuration and pushes a task on the pool; a pool thread runs
`acquireManagement`, which edits the topic table and calls `addChannel` or
`removeChannel`; the manager's scheduler thread polls every channel while holding
`channel_map_mutex` and calls the worker's `epicsMonitorEvent`, which takes
`channel_map_mtx` in shared mode and calls the publisher. The hard parts are the
interleavings of pool threads and scheduler, failures half way (a throwing client
library, a handler that throws, a commit that fails), and the order of the teardown.

## 2. Modules

| Module | Models | Composes |
|---|---|---|
| `EpicsServiceManager` | the manager, its scheduler thread, the broadcaster and the channels, one operator per step | |
| `EpicsClients` | any threads and any handlers using the manager, as the unit tests do | `EpicsServiceManager` |
| `AcquireCommandWorker` | `acquireManagement` on the pool's threads and `epicsMonitorEvent` on the scheduler thread | `EpicsServiceManager` |
| `Subscriptions` | what a user of the gateway is promised: a set of topics per channel, edited by wishes in order, and a monitor that follows it | abstract |
| `TaskQueue` | what the pool promises: tasks start in the order of the pushes, each once | abstract |
| `ThreadPool` | `push_task`, `wait_for_tasks`, `pause`, the workers and the destructor, cut at every lock, wait and notification | implements `TaskQueue` |
| `CommandParser` | `getCMDType`, `checkFields`, `parse` as operators | |
| `CommandConsumer` | the command thread with the subscriber and the broker's log and offsets; crashes and restarts | `CommandParser` |
| `CommandTopic` | what a producer of commands is promised: the topic read without a gap from what the group committed, commands handed over in its order, no commit past a message that is owed | abstract |
| `NodeController` | `submitCommand` as the thread's handler, the database table and the pool's queue | `CommandConsumer`; implements `CommandTopic` |
| `Storage` | the table, the recursive mutex and every call of the repository and of `NodeConfiguration`, nested ones included | |
| `KafkaPublisher` | pushes, flushes and delivery reports, and who owns a message when | |
| `LoopBlocks` | `BS::blocks`: how a range is cut, as operators | |
| `ThreadPoolLoops` | `submit`, `push_loop`, `parallelize_loop` with `multi_future::get`, and `reset` | `ThreadPool`, `LoopBlocks` |
| `ProgramOptions` | the three sources of options, their precedence and their errors, as operators | |
| `Logger` | the logging core and `BoostLogger` | |
| `Gateway` | `setup`, its wait and its deallocation, `stop()` from threads and from a signal handler, the command thread | |
| `GatewaySetup` | the gateway's steps with the options they read and what they log | implements `Gateway`; `ProgramOptions`, `Logger` |
| `MC*` | small instances for TLC | |
| `EpicsServiceManagerProofs`, `AcquireCommandWorkerProofs`, `EpicsClientsProofs`, `ThreadPoolProofs`, `NodeControllerProofs`, `StorageProofs`, `KafkaPublisherProofs`, `GatewayProofs` | theorems | |

### How state and steps correspond to the code

*Manager.* `channelMap` holds for each channel the stage its `EpicsChannel` has
reached; `mapMutex` is `channel_map_mutex`. `addChannel` takes the guard
(`AddLock`), creates (`AddCreate`), connects (`AddConnect`) and starts the monitor
(`AddStart`); each of the last three may throw (`AddThrow`), which erases the entry
and releases the guard. A scan is `SchedLock`, one `SchedPoll` per channel, a
broadcast (`SchedCall`, `HandlerReturn`, `SchedSkip`, `SchedEndBroadcast`) and
`SchedUnlock`. The order of the map is left open. A subscription's queue is `fifo`.
A token is a member of `alive`; the weak pointer is locked when the call begins.

*Worker.* `acquireManagement` is cut at every access to shared state: the
`operator[]` with no lock (`Ref`), the search with no lock (`Find`), the lock
(`Lock`), the edit (`Write`), the size with no lock (`Size`), the call of the
manager (`InManager`) and the return. `stale` says that the iterator a thread
holds was invalidated by another thread's edit. `MayDie` lists what the C++
abstract machine leaves undefined (two threads in one vector, an insertion in the
map during a lookup, an erase with a stale iterator) and an exception that leaves
a pool task: after any of it the process may end (`up` becomes false) or go on.

*Pool.* `wpc` and `cpc` are the program counters of workers and callers; a
condition variable is a place a thread blocks in and is moved out of by a
notification or by a spurious wake-up. `tasks_total` is counted where the code
counts it, after the mutex has been released by `push_task`. `ThreadPoolLoops`
adds to each caller the blocks it has still to push (`todo`) and its `multi_future`
(`mf`), and to each task its block and its `promise`. A loop pushes block by block,
and other callers, workers and the tasks themselves run in between. `reset` is the
pause, the wait and the destruction of the destructor, and new threads.

*Storage.* `stack[t]` holds the calls thread `t` is in: a handler called by
`processAllChannelMonitor` may call the repository again, and a call from inside is
a frame on top. `storage_mutex` is recursive, so `Holds(t)` counts frames that are
`Inside`, and `Available(t)` looks at the other threads only. `insert` is two steps
(the count and the insertion), a scan is one step for the query and one per row,
`iterateAllChannelMonitor` reads its pairs of name and protocol under one lock and
scans each under another. A statement or a handler may throw (`Throw`), which leaves every call of
the thread. `before` and `met` are history.

*Pipeline.* Messages are numbered by their place in the log. `position` is the
consumer's, `committed` the broker's, `requested` the commits on their way; a
commit may be lost. A crash (`Crash`, or a parse that dies) loses everything but
the broker's state and the table. `due` and `settled` are history: messages
produced when the group had a committed offset, and messages that were handed to
a worker or found to be no command; so are `dropped`, the batches that an exception
of the database ended, and `lost`, the messages whose task a process took down with it
and that no later process was handed.

*Publisher.* `message` is the `unique_ptr` a thread holds in `pushMessage` or
`dr_cb`, `queued` and `reports` what the library holds, `freed` how often each
message was deleted, `told` the events its handler was called with, in order.
`Produce` and `Release` are two steps, so a report can be served between them.

*Gateway.* `pc` walks through `setup`; `m` is the mutex, held through the setup and
the deallocation and released by the wait. The reset of the node controller is two steps:
`StopNode` begins it and `JoinPool` is the end of `~NodeController`, which waits for the
pool and joins its threads. A signal handler runs on the thread of
`run()` and holds it up until it returns. In `GatewaySetup` each step takes what it
parses and logs along: an `input` is a command line, an environment and the files that
can be opened; `given` is `vm`; `sinks`, `filter` and `enabled` are Boost's core, which
outlives a logger whose constructor threw; `written` is what was said where, and how
severe it was. A message below the filter, or with logging
off, is not written; a core without sinks would write to Boost's default one.

## 3. Runs

| Run | Instance | Shows |
|---|---|---|
| `epics_clients` | 1 channel, 2 threads, 2 handlers, 2 calls, 2 events, additions that throw | live handlers miss and repeat nothing, in order; calls return though the scheduler keeps taking the mutex; the destructor's join ends |
| `acquire_any` | 2 channels, 2 threads, 3 commands, 1 event, throwing library | what holds for every interleaving: the scan meets only started channels, the lookup never inserts, nothing published that was not asked for, a vector never changes under a walk |
| `acquire_serial` | 1 channel, 2 topics, 2 threads, 3 commands, 2 events | if commands of one channel do not overlap, `Subscriptions` is implemented, commands complete, events are published once, in order, and none is lost |
| `pool` | 2 workers, 1 caller, 2 tasks, 1 wait, 2 loops, pause, reset, bodies that throw | the pool's order and count, loops and futures, and no lost notification between pushes, workers and waits |
| `pipeline` | 3 messages of 2 forms, batches of 2, 1 crash, throwing database | no commit ahead of a message nobody looked at, commands stored first, `CommandTopic` is implemented, a stop carries out what a worker was given and the rest is accounted for, what is due is looked at |
| `storage` | 2 threads, 3 rows of 2 names, 3 calls, a file that is old or new, statements that throw | no row twice, an iteration covers what stays, the recursive mutex blocks nobody for ever |
| `publisher` | 2 threads, 3 messages of 2 types, a queue of 2 | ownership, truthful events, each told once, flush |
| `gateway` | 2 callers of `stop()`, 1 signal, 3 command lines, 6 environments, a file | order of the teardown, truthful exit code and log, no lost stop if the pool's destructor returns |
| `acquire_unmonitored` | **violated**: `MonitoredIffWanted` | finding 1 |
| `pipeline_thrown` | **violated**: `ThrownIsNotCommitted` | finding 2 |
| `publisher_unpolled` | **violated**: `CalledAfterSent` | finding 3 |
| `pool_stuck` | **violated**: `DestructorReturns` | finding 4 |

The bounds, and why they are enough. Two channels let one be scanned while another
is edited; two threads let any two commands overlap, and a third command lets a
stale size or iterator matter. Two topics are needed for a vector that shrinks and
stays non-empty; two events for an order. One channel is enough where the property is
about one channel's events or about the mutex, which all calls share. Two tasks on two
workers, with a third thread that pushes, waits, loops, resets or destroys, give every
order of a push, an idle worker and a wait; the loops are one given backwards that is
cut into uneven blocks and one with fewer indexes than blocks, and the theorems of §5
cover every range. Three messages with batches of two give a full batch, a partial one
and a batch that follows a dropped one; the two forms, a full monitor command and a
`get` whose topic is not a string, end as a command, as an exception of the parser and
as the end of the process, and the theorems hold for every set of forms; one crash can
fall at any step and the process restarts any number of times by stopping. Three rows
with one name under two protocols are the case in which an iteration scans a name twice,
and three calls put one in a handler while another thread has its own. A publisher queue
of two is full with one message still to push. The inputs of `gateway` have each option
kind from each source, repeated in a later one, of a wrong type, unknown, and a file that
is missing. `MaxEvents`, `MaxCalls`, `MaxCommands`, `MaxTasks`, `MaxWaits`, `MaxMessages`,
`MaxCrashes` and `MaxSignals` are bounds in the guards of the environment only; `MaxFetch`
and `MaxQueue` are configuration. `CHECK_DEADLOCK FALSE` is given where the system may
stop: a publisher that was destroyed or aborted, a storage with no calls left, a gateway
that has exited or whose signal handler waits for a mutex its own thread holds.

A type invariant is stated in every module with variables of its own that is proved
about, and proved in §5; no run repeats it.

### Fairness

Weak fairness of a thread: the operating system runs it. Strong fairness where a thread
contends for a mutex that others release again and again: the calls of the manager (the
scheduler frees the mutex for 100 us between two scans), the pool's threads, `stop()` and
the relock of the wait, and the calls of the storage. `Fetch` has strong fairness, since a
broker delivers to a consumer that keeps asking. `Deliver` is weakly fair since librdkafka
reports every message at the latest at `message.timeout.ms`. Nothing is assumed of
producers, IOCs, callers, signals, stops, crashes or the arrival of a commit.

Nothing is assumed of `JoinPool` either: finding 4 is that the pool's destructor may never
return. Both fairness formulas of the gateway leave it out, and `RunEnds` says so in its
premise: *if* every join comes to an end, a stop ends the run. Its other exception is a
signal that arrives while `run()` has the mutex (`SelfLocked`), whose handler then waits for
its own thread.

## 4. Findings the runs reproduce

1. `AcquireCommandWorker.cpp:79`: the size that decides whether a channel is
   monitored is used after other commands of the channel may have run.
2. `CMDController.cpp:66`: a batch whose handler threw is dropped, and the next
   batch's commit commits it, against `CMDController.h:27`.
3. `RDKafkaPublisher.cpp:9`: nothing polls in the gateway, so no handler is ever
   called and messages pile up until the queue is full, against `IPublisher.h:43`.
4. `BS_thread_pool.hpp:540`: the destructor clears `running` and notifies without the
   mutex, so a worker between its predicate and its wait sleeps for ever and the join
   never returns, against `:260`.

Behaviours seen while modelling that no run is kept for:

- two overlapping activations of a topic put it in the vector twice
  (`AcquireCommandWorker.cpp:61`); commands of one channel that overtake each other leave a
  deactivated topic published (`:48`); the vector is searched and measured, and the map's
  key inserted, with no lock (`:57`, `:61`, `:79`);
- a handler call in progress outlives the reset of its token (`broadcaster.h:35`);
- with two threads pushing, `wait_for_tasks` can return early (`BS_thread_pool.hpp:434`),
  which the gateway, with one pushing thread, does not meet;
- a signal during the setup or the deallocation makes `stop()` lock the mutex its own thread
  holds (`EKGateway.cpp:99`);
- `BS::blocks` swaps the ends of a range given backwards (`BS_thread_pool.hpp:153`), so
  `push_loop(3, 0, ...)` runs its body for 0, 1 and 2, where the loop it is documented to be
  equivalent to, `for (T i = first_index; i < index_after_last; ++i)` (`:333`, `:388`), runs
  for none; `LoopRunsOnce` states what the code does;
- when the constructor of the logger throws (console and a syslog host that cannot be
  resolved), no logger is registered and neither the sinks nor the error stream hear why the
  setup failed (`EKGateway.cpp:82`, `:85`);
- a stop does not carry out the commands of a batch that an exception has ended, and a crash
  takes down tasks whose messages are committed already (`CMDController.cpp:66`,
  `NodeController.cpp`): `StopLosesNothing` names both, as `dropped` and `lost`;
- `resolve().reset()` clears a copy: the services outlive the shutdown (`:72`-`:78`);
- `processAllChannelMonitor` selects by name only, so an iteration hands a row out once for
  each protocol its name has (`ChannelRepository.cpp`), and the stored channels are never
  read after a restart (`NodeController.cpp:22`);
- a `BoostLogger` whose constructor throws leaves the sinks it has added in the core
  (`BoostLogger.cpp:62`).

## 5. Proofs

All theorems hold for every value of the constants allowed by the named
assumptions (`ManagerAssumption`, `WorkerAssumption`, `PoolAssumption`,
`ConsumerAssumption`, `StorageAssumption`, `PublisherAssumption`), which TLC evaluates on every run.

*`EpicsServiceManagerProofs`* has the lemmas about the manager alone: each of its
steps keeps `MgrTypeOK` and `MgrSafe`, where `MgrSafe` is
`MutexOwner /\ ScanMeetsStartedChannels /\ HalfBuiltIsOwned`. The second is not
inductive without the others: that a scan meets no half-built channel follows from
the scan and the building call owning the same mutex. Its last part is about the monitor
queues: each holds the events of its channel, numbered upwards (`FifoInOrder`); a poll cuts
one in two (`PollMoves`), and what was cut off is older than what stays or is still to be
produced (`Past`).

*`EpicsClientsProofs`*: `Fanned` says what a broadcast in progress has done: the batch is
the last stretch of what was drained, every live handler is among the targets while they
are not chosen, and a handler has received all of that stretch or none of it, as it was
called or not. It gives `LiveHandlersAlwaysMissNothing`. `InOrder` says that what was
drained is ordered per channel and past; with the former, `ChannelOrderAlwaysKept`.

*`AcquireCommandWorkerProofs`*: `TypeCorrect` (strengthened with `WalkHasEvent`, since the
head of the batch must exist while topics are walked), `ManagerSafe`, `TableLockSafe`,
`WalkStable` (from the lock invariant), `PublishedOnlyOnRequest` (every topic of a vector,
and every activation in a thread or in the queue, is an accepted activation), `LookupSafe`
(a channel in the map, and every event, has a key), `SerialConsistent`: if no two commands
of a channel overlap, a channel at rest is monitored exactly if it has a topic. The run
`acquire_unmonitored` shows that the condition is needed; the default pool, with a thread
for each processor (`NodeController.cpp:24`), does not give it. Under the same condition,
`EditInv` (the iterator of `std::find` is still right when the vector is edited, and no
vector holds a topic twice) carries two more theorems. `SerialQuiet` follows from `WishInv`:
the commands taken are a prefix of those accepted, a running command is the last taken one
on its channel and topic, and a topic in a vector was activated last or a command that has
not edited yet is about it. `SerialOrder` follows from `OrderInv`: what waits in a queue, a
batch or the handler is younger than what was published, except that the event in hand may
have gone to the topics already walked; it needs the stability of the vector during the
walk, and that the only handler is called once for a batch.

`SerialKeepsPromise` is the refinement of `Subscriptions` under that condition. The
mapping's queue is the command that a thread has taken and not carried out, followed by the
channel's commands in the pool's queue (`WishQueue`). Taking a command from the front and
pushing one at the back change it for one channel only (`OfChannel` filters the queue; what
it does at either end is proved by induction over the length); the edit of the vector is
`Apply`, the start or stop of the monitor with the channel's lookup is `Settle`, and
everything else stutters.

*`ThreadPoolProofs`*: `TypeCorrect`, `MutexSafe`, `FrontSafe`, `PoolImplementsQueue`
(refinement of `TaskQueue`), `CountExact` (`tasks_total` is the number of unfinished
tasks less the pushes between unlock and increment), `DestructorComplete`, and
`SingleCallerWait`, which assumes that one thread uses the pool. Its second part is about
`LoopBlocks`: for every range and every number of blocks asked for, the blocks follow each
other, none is empty (`BlocksAreConsecutive`), and every index is in exactly one
(`EveryIndexInOneBlock`). They rest on four facts of integer division. Its third part is
about `ThreadPoolLoops`. `PoolInv` holds across `reset()` because of `DownInv`: while the
threads are destroyed one caller is in a call, and in the end every worker has left.
`ResetKeepsPool`, `ResetImplementsQueue` and `SingleCallerWaitLoops` carry the pool's
theorems over to it. `LoopInv` says that the blocks of a loop are its tasks, in order, and
then those still to be pushed (`Cut`), that each submitted one has a promise
(`Submitted`), that a set promise belongs to a task that has run (`Kept`), and that `get()`
has met only values of finished tasks up to its index, or has thrown at the first
exception after such (`Collected`). With the theorems about blocks it
gives `GetComplete`, for any number of callers, and `LoopOnce`, for one: with two, what a
wait covers is not certain (§4).

*`NodeControllerProofs`*: the core is `Placed`, which says where everything is: no offset,
committed or on its way, is past the log (`OffsetsInLog`), the batch is the stretch of the
log that ends at the position (`BatchIsStretch`), and each phase of `consume()` has its
vectors filled or empty (`Phases`). `PipelineTypeCorrect` needs it, because an offset is in
range only as the log is. `CommittedSafe` adds `Looked` (every due message up to the
committed offset, each offset on its way and the beginning of the batch was looked at or
dropped) and `Handled` (a message of the batch is settled or waits among the commands).
Ending a batch moves its beginning to the position, so `Looked` is preserved only if the
whole batch was settled or, when an exception of the database ended it, went to `dropped`;
the run `pipeline_thrown` shows that dropped messages are committed all the same.
`SubmissionOrder` adds that everything submitted comes before the batch or before the
commands left of it, and holds unconditionally. `TableInv` follows a command from the batch
through `persist`, `submit` and the pool: what is in a vector was parsed, what is queued or
being performed has its row, and no row is there twice. It holds across crashes because log
and table only grow, and needs that a message holds at most one command (`OneCommand`).
`TableAlwaysComplete` follows. `StopNeverLoses` needs two things more: `Accounted`, that a
message that was handed over and can only be a monitor command is in the pool, carried out
or `lost`, whatever crashed in between; and `Looked`, for the messages read and not handed
over, which an exception had dropped. `PipelineKeepsTopic` puts the parts together:
`NodeController` implements `CommandTopic` with the batch, the requests on their way and the
phases hidden, and with what is owed as the due messages that were neither looked at nor
dropped. Each step has one of nine effects on what is left to see (`EffectOfStep`), and each
effect is a step of `CommandTopic` or a stutter (`TopicStep`). A hand-over is in order by
`OrderInv`, an arriving commit passes nothing owed by `Looked`, and goes neither back nor
past the position by `CommitsInOrder`: the requests on their way lie, rising, between the
committed offset and the position.

*`StorageProofs`*: `StorageInv` says which call may be inside which (`Shapes`), that
the mutex has one holder (`MutexInv`), that a row whose count was zero is still absent
(`NewAbsent`, which needs the mutex), and that a row an iteration found at its start is
met, or its pair or its scan is still to come (`Covered`). From it
`RowsAlwaysDistinct` and `IterationAlwaysCovers`, for any number of threads, rows and
nested calls.

*`KafkaPublisherProofs`*: `PublisherInv` puts every message in exactly one place: unborn, in
a vector, in a call, with the library, or deleted (`Placed`, `Kept`). `Moves` states once
what a step may move from where to where, and each action is shown to be such a move.
`BufferAlwaysValid`, `NeverLeaks` and, with `ToldInv` (nobody was told of a message that is
not deleted or in its report's call), `SentIsAlwaysStored` follow. `FlushAlwaysCovers` also
needs `Counted`: what `outq_len()` counts is finite.

*`GatewayProofs`*: `SetupRefinesGateway` shows that options and logging take nothing away
from `Gateway`; `PlacesInv` ties the place of `run()` to the services, the node controller
and the command thread that exist at it, and gives `GatewayTypeCorrect`,
`HandlerHasNodeAlways` and `SuccessIsCleanAlways`. `LogTells` needs two things more. What
`parse()` stores for an option is the value of its first source (`OptionAsWanted`), for any
input. And the logging core is set up as the options ask for from the construction of the
logger to its end, nothing is written before, whatever is written is at the level of its
sink or above, and whatever announces itself comes after (`LogPlaced`); where the setup
fails without a logger, the property says that nothing was written; the command thread logs
only between the setup and its join, which is `PlacesInv` again.

Only model-checked: every liveness property (`CallsReturn`, `DestructorReturns` of the
clients, `QueuedEventsArePublished`, `CommandsComplete`, `TasksRun`, `WaitsReturn`,
`GetReturns`, `DueAreSettled`, `FlushEnds`, `RunEnds`, `CallsEnd`), since the prover has no
rule for fairness or `ENABLED`. Every invariant and every refinement that a passing run
checks is proved too, three of them under a named condition: `Serial` for the worker's
`MonitoredIffWanted`, `PublishedInOrder`, `QuietAfterDeactivation` and `KeepsPromise`, and
one calling thread for `WaitCoversTasks` and the wait in `LoopRunsOnce`. The library's induction
theorems take an operator, which the provers cannot instantiate; where induction over a
length is needed (`NatSetInduction`), it is done on a set of numbers, from
the well-foundedness of `<` on the naturals.

## 6. Not modelled

`get` and `put` of EPICS channels, `stopMonitor`, and `addQueue` of the subscriber have no
caller in the gateway; the pool's `timer` and `synced_stream` are no part of it.
`createQueue` changes nothing another call sees. The reconnection of the client library
after a channel has signalled a failure is not modelled, and so no property covers the
channel that then stays in the map (`EpicsChannel.cpp:55`). Values of events, texts of
messages and topic names are model values. More than one partition of the command topic is
not modelled; the configuration uses one topic. Nor is a rebalance that takes the partition
from a running process and gives it back: the position changes at a start only. The
insertion in the handler map that `dr_cb` makes for an unknown type
(`RDKafkaPublisher.cpp:21`), which no lock protects against a registration or another
thread's callback, is atomic in `KafkaPublisher`. `pushMessages` called again with a vector
whose push failed, and whose first element is therefore null, is left out: no caller in the
gateway does. The numbers behind the options `cmd-max-fecth-element` and
`cmd-max-fecth-time-out` are not: the help speaks of microseconds where `getMsg` passes the
count to a call in milliseconds, and their two `GET_OPTION` fallbacks are exchanged but
cannot be reached, since the options have defaults. An option given twice by one source is
left out. The parts that live past the shutdown message (the services whose `reset()` clears
a copy) are not composed with the worker that is gone by then.

## 7. Plan

A composition of the gateway's deallocation with the manager's broadcast, for the
handler that outlives its worker.
