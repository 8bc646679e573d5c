# A TLA+ model of Joseph's Odd Builder's concurrent core

Joseph's Odd Builder ("JOB") is a collection of C++ libraries: a base library
(`job_core`), a threading library (`job_threads`), I/O and networking on top of
it, and a large number of sequential libraries (serialisers, archive and
terminal code, numerics, AI model code, device access). This directory holds TLA+
modules of the parts whose correctness depends on how threads, processes and
messages interleave or on what fails in between, the TLC configurations that check
them, and TLAPS proofs of the results that matter most.

Contents: [inventory](#1-inventory) · [modules](#2-modules-and-the-code-they-model) ·
[how to read a step](#3-what-a-step-is) · [runs](#4-runs) · [bounds](#5-bounds) ·
[fairness](#6-fairness) · [proofs](#7-proofs) ·
[disagreements](#8-where-the-code-and-its-documentation-disagree) ·
[not modelled](#9-what-is-not-modelled) · [plan](#10-plan)

`PROJECT.json` is the machine-readable index: it maps every definition to its source
lines and lists the runs, the mutants, the hazards and the findings.

## 1. Inventory

### `job_threads`: the core

| Component | State it keeps | Operations | What makes it correct |
|---|---|---|---|
| **ThreadPool** (`job_thread_pool.h/.cpp`) | stop flag, scheduler pointer, counting semaphore, sharded map id → closure, progress counter, workers with stop tokens, a watcher | `submit(priority, f)`, `submit(desc, f)`, `workerLoop()`, `shutdown()`, `waitForIdle()`, `setTaskRange()` | a task runs at most once; an accepted task runs; a queued task always has a wake-up on its way; `shutdown()` returns, and gives the scheduler up only after all workers left it |
| **FifoScheduler** (`sched/job_fifo_scheduler.cpp`) | deque, mutex, condition variable, stop flag | `enqueue()`, `next()` (blocks), `size()`, `stop()` | no lost wake-up, at-most-once delivery |
| **JobWorkStealingScheduler** (`sched/job_work_stealing_scheduler.cpp`) | one bounded queue per worker, `m_totalSize`, round-robin cursor | `enqueue()`, `next()` (probes every queue, never blocks), `size()`, `stop()` | the separate count agrees with the queues; a task missed by a walk is not forgotten |
| **JobRoundRobinScheduler**, **JobSporadicScheduler** | queue per priority; EDF queue with reservations | the same interface | fairness over priorities; admission control |
| **JobBoundedMPMCQueue** (`queue/job_mcmp_queue.h`) | deque, capacity, closed flag, mutex, two condition variables | `push`, `pop`, `tryPush`, `tryPop`, `close` | it is an atomic bounded FIFO buffer; nobody sleeps while there is work for him |
| **TaskQueue**, **AsyncEventLoop**, **JobIoAsyncThread** (`queue/`, `io/`) | prioritised tasks, timers, fd callbacks, eventfd, epoll set | `post`, `postDelayed`, `addTimer`, `cancelTimer`, `registerFD`, `modifyFD`, `unregisterFD`, `start`, `stop` | the thread never sleeps on work; a timer runs as often as it should; what arrives is served; `stop()` returns |
| **JobThread**, **JobSem**, **ThreadWatcher** | thread handle and phase; semaphore; list of watched threads | `start`, `join`, `requestStop`; `wait`, `post`; `addThread`, `monitorLoop` | life cycle; who may stop whom |
| **JobThreadGraph** (`utils/job_thread_graph.cpp`) | nodes, edges, `depsLeft`, `m_failed`; promise and counter per run | `addNode`, `addEdge`, `reset`, `clear`, `run`, closures, `hasCycleLocked` | dependency order, once per run, the meaning of the future, the future becomes ready |
| **JobThreadActor** (`utils/job_thread_actor.h`) | mailbox, `m_isScheduled` | `post`, `schedule`, `processBatch`, `stop`, `isAlive` | handlers do not overlap and keep the mailbox's order; accepted messages are handled |
| **parallel_for / parallel_reduce / latch, pipelines, parallel search** (`utils/`) | ranges, latches, stages | fork/join over `ThreadPool`, stages over actors | exact partition; the latch opens; no circular wait |

### `job_core`

| Component | State | Operations | What makes it correct |
|---|---|---|---|
| **Signal / Connection** (`job_signal.h`, `job_connection.cpp`) | copy-on-write list of entries, two counters, a mutex for writers, two flags per connection | `connect`, `disconnect`, `disconnectAll`, `emit`, destruction | lock-free emission sees a consistent list; single-shot callbacks fire once; a disconnected callback is not called by a later emission |
| `Object`, containers, parsers, SIMD | value types | sequential | – |

### `job_io`

| Component | State | Operations | What makes it correct |
|---|---|---|---|
| **JobSharedMemory** (`job_shared_memory.cpp`) | a header (magic, size, two positions) and a byte ring in a named shared memory object, a named semaphore | `attach`, `detach`, `read`, `write`, by two processes | the reader gets the stream, in order and whole, across deaths and restarts of either process; it is woken for what was written |
| **JobMmap**, **JobMemLock**, **JobMemRange** | address, length, mapped ranges, locked ranges | `openDevice`, `unmap`, `unmap(range)`, `grow`, `lock`, `unlock` | the records say what the kernel holds, whichever call fails |
| **JobPagePool, JobSizePool, JobRangePool, JobArenaPool** | free runs, allocations, counters; objects per span; an offset | `alloc`, `free`, `clear`, growth of a size pool | nothing is handed out twice or lost; first fit finds what fits; what is handed out is mapped |
| files, terminals, directories | descriptors | thin wrappers of system calls | – |

### `job_net`

| Component | State | Operations | What makes it correct |
|---|---|---|---|
| **JobHttpClient** (`http/job_http_client.cpp`) | state of the request, bytes sent, transport, parser | `send`, `cancel`, `reset`, handlers of the transport | one outcome per request, the right one; every request ends |
| **JobHttpParser** (`http/job_http_parser.cpp`) | state, framing, fields, partial line, counts | `parse`, `notifyEof`, `reset` | the response does not depend on how the bytes were cut; a truncated one is not complete |
| **TcpClient**, **TcpSocket** | connection state, interest in writability, buffer | `connectToHost`, `read`, `write`, `onEvents`, `disconnect` | no edge is lost; a close is not a reset |
| UDP, Unix, TLS sockets, servers, URLs, resolver | the same shape, or text | – | – |

### How the parts interact

* `ThreadPool` calls its scheduler from three kinds of threads: submitters
  (`enqueue`), workers (`next`, `size`) and the thread in `shutdown()` (`stop`). The
  semaphore and the scheduler are two separate sources of "there is work"; nothing
  makes them change together.
* `JobWorkStealingScheduler` and `JobThreadActor` are built on
  `JobBoundedMPMCQueue`; `MPMCQueue` shows that the queue implements the atomic
  buffer that the other two modules use.
* `JobThreadGraph`, `JobThreadActor`, `parallel_for`, the pipelines and
  the AI libraries submit closures to `ThreadPool`.
* `Signal` is independent of the pool: emissions run on any thread, with callbacks
  called outside the mutex.
* `TcpSocket` registers its descriptor with a `JobIoAsyncThread`, edge-triggered; its handlers, those of
  `TcpClient` and of `JobHttpClient` run on the loop's thread, where user callbacks may call back into the client.
* The pools of `job_io` keep offsets into a `JobMmap` that its owner may shrink, move or close;
  a `JobSizePool` takes its spans from a `JobPagePool`, with one mutex each.
* The two processes of `JobSharedMemory` share nothing but the object and the semaphore, which outlive both.

Hard behaviours: two-step hand-overs without a common lock (enqueue then post; pop
then claim then count; push then flag; list then counter), condition variables
notified outside the mutex, a shutdown that races with everything, a timeout that
acts on idle threads, exceptions from user code in the middle of a protocol,
reuse of shared state (`depsLeft`, `m_failed`) by successive runs, a thread that sleeps on
one object and is woken through another (epoll and the task queue), edges that are reported once,
bytes cut into pieces at any point, a process that dies between two stores, and system calls
that fail half-way through an operation.
`hazards` in `PROJECT.json` lists them at their lines.

## 2. Modules and the code they model

| Module | Models | State and actions |
|---|---|---|
| `ThreadPool` | `ThreadPool` without a scheduler, and the watcher's effect on it | one pc per `submit()` call (`spc`), per worker (`wpc`), for `shutdown()` (`dpc`, loop index `di`) and `waitForIdle()` (`ipc`); an action per atomic access, named after the operation |
| `FifoPool` | `ThreadPool` composed with `FifoScheduler` | adds `m_queue`, `m_stopped`; pc `"block"` is a worker that holds the mutex between the wait predicate and the sleep, `"cv"` one that sleeps; spurious wake-ups included |
| `StealingPool` | `ThreadPool` composed with `JobWorkStealingScheduler` | adds the per-worker queues, `m_totalSize` modulo `Modulus`, the submit cursor, each worker's walk (`scan`) |
| `BoundedQueue` | the promise of `JobBoundedMPMCQueue` | abstract: an operation takes effect in one step |
| `MPMCQueue` | `JobBoundedMPMCQueue` | critical sections, sleep, notification after the unlock, `close()`; refines `BoundedQueue` |
| `Signal` | `Signal`, `Connection` | `owner`/`stage` are the mutex and the owner's next store; `epc`, `snap`, `idx`, `slow` the locals of an `emit()` |
| `JobThreadGraph` | `JobThreadGraph` | the client's calls, and per (run, node) the closure's position (`pc`); `Dfs` and `HasCycle` are the colouring search of `hasCycleLocked()`, as a function of the depth that the recursion may still go to, which the number of nodes bounds |
| `JobThreadActor` | `JobThreadActor<Msg>` | position of every `post()` (`post`), of every pool thread in `processBatch()` (`pc`); the pool is a number of waiting batches |
| `EventLoop` | `AsyncEventLoop`, `JobIoAsyncThread` and the `TaskQueue` between callers and thread | `kind` says which loop; `pc` is the thread's position, `evt` the eventfd, `edge` the epoll ready list, `reg` and `stopPc` the positions of the calls; a caller's operation is split where it releases a mutex or makes a system call |
| `SharedMemory` | `JobSharedMemory`, its header, `JobSem` as the named semaphore | the object (`fileSize`, header, `ring`), the semaphore, a pc per process; a copy moves one byte per step; either process detaches or dies and comes back |
| `Mmap` | `JobMmap`, `JobMemLock`, `JobMemRange` | the records beside the kernel's own state (`osMapped`, `osLocked`); every system call may fail |
| `MemPools` | the four memory pools over one `Mmap` | free list and allocations in units of a page or of a granule; a size pool's `grow()` and `clear()` take several steps, since they release the page pool in between |
| `HttpParser` | `JobHttpParser` | a record and pure operators on it; a symbol stands for the text of a line, a CR, an LF or a body byte. `Prefixes` is the reference that the properties compare with: what a wire means when it is read one symbol at a time (`ReadSymbol`), without pieces |
| `HttpClient` | `JobHttpClient`, `TcpClient`, `TcpSocket`, composed with `HttpParser`; kernel and peer as environment | handlers split at each system call and each turn of `parse()`; `armed` is the edge-triggered notification, `tasks` the loop's queue, where an event names its socket and outlives it, `resolving` the sockets the resolver owes an answer |
| `FifoPoolProofs`, `StealingPoolProofs`, `SignalProofs`, `JobThreadGraphProofs`, `JobThreadActorProofs`, `MemPoolsProofs`, `QueueProofs` (of `MPMCQueue` and `SharedMemory`), `EventLoopProofs` (of `EventLoop`, and of `HttpClient` with `HttpParser`) | – | inductive invariants, lemmas and theorems of the modules each extends (section 7) |
| `MC*` | – | constants, symmetry sets and bounds for TLC |

Composition: `FifoPool` and `StealingPool` extend `ThreadPool` (the composition of pool
and scheduler is one specification, since they share threads). `MPMCQueue` instantiates
`BoundedQueue` under the mapping `St` (`enter`, `sleep` are "pending"; `notify`, `done` are
"done"; `deque`, `closed`, `op`, `arg`, `res` are the same).

Names with a suffix after an underscore that are commented "Mutant" (`Post_Forgotten`,
`EmitClaim_Retry`) are the actions a plausible bug would produce. No specification uses them; each
was substituted for the action it is named after to confirm that the property listed
beside it in `PROJECT.json` is then violated.

## 3. What a step is

A step is one atomic access to shared state, or one critical section when all of its
accesses are under the same lock and nothing outside the lock reads them. Where a lock is held
but the data is read without it (`Signal`'s list and counters, `FifoScheduler`'s stop
flag) every store is a step of its own.

Interleavings are sequentially consistent. The code uses acquire/release atomics; the
protocols modelled hand data over through a mutex, a semaphore or an atomic
read-modify-write. Reorderings that need two relaxed accesses to different
locations to be seen in different orders are outside the model.

Abstractions of data: a task, a message, a node is a model value; a task's body only
ends (a `packaged_task` keeps both the value and the exception, so for the pool the two are alike);
a body byte of an HTTP reply carries no value, a byte of the shared ring is its position in the stream;
memory is counted in granules, two to a page; priorities are absent from `FifoPool` and `StealingPool` because neither scheduler looks at
them; the sharded map is a set, since a shard is chosen by the id and every access
locks exactly one shard; metrics and logging are left out.

Disciplines of the clients appear as constants, never as hidden guards:

| Constant | FALSE / empty means |
|---|---|
| `RacingSubmit` | no `submit()` overlaps `shutdown()` (a call after it is allowed, and refused) |
| `Outlives` | the pool lives less than the watcher's 30 s |
| `Foreign` | no descriptor of a foreign type is submitted; such a descriptor is silently dropped by `enqueue()` although its closure is registered and its token posted |
| `IdleCalls` | no client calls `waitForIdle()` |
| `TaskMins` | nobody calls `setTaskRange()` |
| `RunWhenQuiet` (TRUE) | the client of a graph waits until the closures of a failed run are gone before it touches the graph again |
| `Throwing` | no `onMessage()` throws |
| `PoolMayStop` | the pool is not shut down under the actor |
| `Deadly` | the program points at which the writer of a shared memory may die |
| `OsFails` | `munmap()`, `mlock()`, `munlock()` do not fail |
| `EarlyReply` | the peer answers once it has the whole request |

## 4. Runs

Distinct states are TLC's, after symmetry reduction where the configuration has it.

| Run | Configuration | Instance | Checks | States |
|---|---|---|---|---|
| `fifo_pool` | `MCFifoPool` | 2 workers, up to 2 of: 2 tasks, a foreign descriptor, workers stopped by the watcher; `setTaskRange(0)`, `waitForIdle()` | `AtMostOnce`, `JoinedBeforeReset`, `NoStragglers`, `AcceptedRuns`, `ShutdownReturns` | 134 k |
| `mpmc_queue` | `MPMCQueue` | 3 threads, 1 slot, 2 values | `NoLostWakeup`, `ImplementsBoundedQueue` (safety and progress) | 124 k |
| `stealing_pool` | `MCStealingPool` | 2 workers, one-slot queues, up to 3 of: 3 tasks, a foreign descriptor, stopped workers | `SizeAccounting`, `TokenCoverage` | 1.7 M |
| `signal_emissions` | `MCSignal` | 2 emissions, an ordinary and a single-shot connection to one slot | `ClaimedOnce`, `Delivered`, `NotCalledAfterDisconnect` | 864 k |
| `thread_graph` | `MCJobThreadGraph` | every graph of ≤ 3 nodes and ≤ 3 edges, any tasks throwing; 2 runs with edits, `reset()`, `clear()` between for ≤ 2 nodes and edges | `DependencyOrder`, `OncePerRun`, `FutureTells`, `RunResolves` | 286 k |
| `actor` | `JobThreadActor` | 3 messages, 2 threads, mailbox 2, batch 2, pool may stop | `OneAtATime`, `InOrder`, `AliveAnswer`, `AcceptedHandled` | 413 k |
| `mem_pools` | `MCMemPools` | each kind of pool over a mapping of 2 to 6 pages, two addresses, two requests, two alignments, two ranges | `Partition`, `FindsIfFits`, `SizePoolSound`, `RecordsMatchKernel`, `HandsOutMapped` | 196 k |
| `event_loop` | `MCEventLoop` | either loop, with six combinations of two tasks, two timers, a descriptor, `stop()` and `start()`; batches of 1, heartbeat 2 | `TimerDiscipline`, `TimersShortenSleep`, `QueuedMeansAwake`, `PostedRuns`, `ArrivalsServed`, `StopReturns` | 131 k |
| `shared_memory` | `SharedMemory` | ring of 3, writes and reads of up to 3, 7 bytes, 3 deaths or detaches | `ReadsStream`, `UnreadKept`, `NoLostPost`, `AttachedSound`, `WrittenIsRead` | 64 k |
| `http_client` | `MCHttpClient` | 2 requests, 13 replies cut anywhere, request of 2 through a send buffer of 1, `cancel()` and `reset()` at any time, a body callback that throws or cancels, up to 2 events waiting in the loop's queue | `OneOutcome`, `ResponseWhole`, `GoodReplySucceeds`, `RequestEnds` | 281 k |
| `fifo_wait_for_idle` | `MCFifoIdle` | 1 worker, 1 task | `IdleMeansDone`: violated | |
| `signal_single_shot` | `MCSignalOnce` | 2 emissions, 1 single-shot connection | `SingleShotOnce`: violated | |

The last two are expected to end in a counterexample; see [section 8](#8-where-the-code-and-its-documentation-disagree).

What the properties say:

* `AtMostOnce`: an id is in at most one place (one queue slot, or one
  worker), and a worker about to call a closure finds its future pending.
* `NoStragglers`: with clients that do not let `submit()` overlap `shutdown()`, nobody calls through the null scheduler
  pointer, and no future is pending once `shutdown()` has returned.
* `AcceptedRuns`, `ShutdownReturns`: an accepted task runs unless the watcher stops a worker; `shutdown()` returns unless a
  descriptor was dropped. The exceptions are behaviours of the code, see section 8.
* `TokenCoverage`: until a worker is told to stop, the queued tasks are covered by semaphore
  tokens, workers holding a token not yet spent on a task, and submitters between enqueue
  and post. In `StealingPool` this is what the "Phantom Wakeup" branch is for: `next()`
  can miss a task pushed behind its walk.
* `JoinedBeforeReset`: `m_scheduler` is null only when every worker has exited.
* `SizeAccounting`: `m_totalSize` equals the number of queued tasks up to the
  calls in flight. A token that stands for no task (a dropped descriptor) lets a worker pop a task
  before its push is counted, and the count then wraps below zero for a moment.
* `NoLostWakeup` (queue): a sleeper in `pop()` implies that each queued value has an awake popper or a
  notification in flight; the same for free slots and `push()`.
* `ClaimedOnce`: of the emissions on the single-shot path one calls the
  callback, after the connection is gone. `Delivered`: losing a claim, a
  concurrent disconnect or connect of another entry never costs an ordinary listener its
  call. `NotCalledAfterDisconnect`: an emission that starts after `disconnect()` returned does
  not call the callback.
* `DependencyOrder`, `OncePerRun`, `FutureTells`, `RunResolves`:
  the contract of `run()`, with repeated edges, cycles, several tasks throwing at once, a second run. `FutureTells` also
  covers the cycle search: a graph it takes for cyclic by mistake makes a false future without a failure.
* `OneAtATime`, `InOrder`, `AliveAnswer`, `AcceptedHandled`: the actor's contract.
* `TimerDiscipline`: a one-shot timer runs at most once and never after `cancelTimer()` returned true, a repeating
  one no more often than time allows; a timer that was added is set, or has a run done or on its way, until `cancelTimer()` or `stop()`. `TimersShortenSleep`: an
  `AsyncEventLoop` that sleeps has a deadline no later than the first timer, or a task in its queue or about to be put there that ends the sleep: a timer set while
  the thread was going to sleep is not left to the heartbeat. `QueuedMeansAwake`: a `JobIoAsyncThread` in `epoll_wait()` with a task in its queue has an
  eventfd write behind or ahead of it. `PostedRuns`, `ArrivalsServed`, `StopReturns`: what has to happen.
* `ReadsStream`: what a reader has copied out is the stream from its position on. `UnreadKept`: unread bytes are in the ring.
  `NoLostPost`, `WrittenIsRead`: a reader is woken for what was written, and reads all of it, unless the writer died between the store of
  the position and the post. `AttachedSound`: a reader attaches to a finished header whose ring lies within the object.
* `Partition`: each unit is free or in one allocation, free runs are coalesced, the counter agrees; arenas
  account for every byte. `FindsIfFits`: `alloc()` fails only when no free run holds an aligned block of that size, compared with a
  search of all addresses. `SizePoolSound`: each object of a span is free or handed out once and the span is the pool's, also in the middle
  of `grow()` and after a failed one. `RecordsMatchKernel`, `HandsOutMapped`: mapping, records and pools agree.
* `OneOutcome`: a busy client has reported nothing, a complete one a response, a failed one an error, and each once. A request that `cancel()` or `reset()` withdrew
  between two handlers is never reported; one that its body callback cancelled has not been while the client is idle (what may follow is in section 8). A `send()` that is refused
  reports an error, except after a failed request: `beginRequest()` keeps the state `Error` and `fail()` then returns at once, so that neither `onError` nor `lastError` tells.
* `ResponseWhole`: a reported
  response is a good one, with the code and the body that the reference reads from the wire, and was sent whole unless it runs to the close. `GoodReplySucceeds`: a well-formed reply
  that arrived is never an error, also when events of the previous socket are delivered in the middle of it.
* `RequestEnds`: a request goes out whenever the peer accepts and reads, and ends once it was answered in full or the connection was ended. Nothing makes the peer
  end the connection, so an edge that was lost leaves the request where it is and is not covered up by a close.

`CHECK_DEADLOCK FALSE` is set wherever the finite set of calls can be used up: a pool
after `shutdown()`, a signal whose calls were all made, a stopped loop, a client that has made its requests. `MPMCQueue` runs with
deadlock checking on, as its clients can always call again.

## 5. Bounds

* Two workers give every pairwise race between workers and between a worker and a submitter or
  `shutdown()`; a third submit (or the foreign descriptor) supplies the surplus token that the
  hard cases need. For the properties that section 7 proves the bounds of a run are no restriction.
* `Cap = 1` makes every queue of the stealing pool full as soon as it is used; with three tasks over two
  queues a push has to wait and is released.
  `m_cap = 1` with three threads has a sleeping popper and a sleeping pusher at the same time. `Modulus = 16` stands for 2^64: it is far above the number of
  tasks, so a wrapped count is distinguishable from a real one (`StealingAssumption` says how far: the workers' slots and hands together stay below it).
* `BatchSize = 2` stands for `kActorBatchSize = 16`: full batches that hand over, and batches that run
  dry, both occur with three messages and a mailbox of two.
* Graphs: three nodes and three edges contain chains, forks, joins, doubled edges, self loops
  and cycles; `MaxRuns = 2` is the least with a run after a run, and `RerunNodes = 2` keeps the second run to graphs of two nodes and two edges.
  `Named` keeps the client to adding names in order, which loses nothing because names are interchangeable.
* Signals: two emissions are the least that compete for a claim; ids are never reused, so
  connecting again is another element of `Conns`.

* `MaxEvents` limits how many of the possible `submit()` calls and watcher stops happen in one behaviour (`FewEvents`).
  Neither has to happen for any liveness property (no fairness is assumed of them), so cutting them
  off removes behaviours and leaves the fairness of the others as it is.
* Event loops: `Batch = 1` stands for 100, so that a batch leaves tasks behind; two priorities; time up to 2 lets a one-shot timer of 2 and a repeating one of 1
  expire; a heartbeat of 2 is longer than the interval of the shorter timer, so a sleep that it should have cut short is seen; the items are combined by two or three kinds of call at a time (`MCLoops`) because the full product is too large.
* Shared memory: three bytes with messages of up to three wrap at every offset and fill the ring exactly;
  seven bytes go round twice; three restarts are enough for both processes to die and one to die again. `SemMax = 2` stands for `SEM_VALUE_MAX`,
  so a saturated semaphore occurs.
* Memory: extents that start and end inside the mapping, a mapping whose last page is partial, ranges that cut across pages, and addresses
  whose alignment differs from the offset's.
* HTTP: every framing (length, chunks with trailers, close, none by method or status, interim responses, upgrade), duplicate and conflicting lengths, too many header fields, too many trailer fields, a line too
  long; pieces of at most 4 symbols cut anywhere; a send buffer smaller than the request, so that sending blocks. `ReplyAssumption` says that each reply is `Described`: what
  it claims of itself (good or not, its code, the length of its body) is what the reference makes of its wire; TLC evaluates it for the thirteen replies. `MaxTasks = 2` lets
  an event of the old socket and one of the new wait in the loop's queue together; `MaxTrailerFields = 1` and `MaxHeaderFields = 2` stand for 32 and 128.

Each bound is a constant or the size of a constant set.

## 6. Fairness

| Specification | Assumed | Because |
|---|---|---|
| `FifoPool`, `StealingPool` | strong fairness of every started `submit()` and of every worker, weak fairness of a started `shutdown()` | the OS runs every thread; a thread waiting for a mutex, for the semaphore or for room in a queue is disabled and enabled again by others, and is not passed over for ever. Nobody has to call anything; spurious wake-ups need not come; the watcher need not act |
| `MPMCQueue` | weak fairness per thread | no single waiter is promised service, and `BoundedQueue` promises none: some operation of a kind that can take effect does |
| `JobThreadGraph` | weak fairness of `run()` once called and of every closure | the pool executes what it accepted (`AcceptedRuns`), tasks end |
| `JobThreadActor` | weak fairness of a started `post()`, of the pool taking a waiting batch, of a running batch | as above; `push()` into a full mailbox need not succeed |
| `EventLoop` | weak fairness of the loop's thread, of time, and of each call that has begun | the OS runs every thread; nobody has to call anything; the clock of a sleeping thread goes on |
| `SharedMemory` | weak fairness of an attaching or writing process and of a reader that keeps attaching and reading | processes are scheduled and a dead one is restarted; nobody has to write or to die |
| `HttpClient` | weak fairness of the loop's thread, strong fairness of `SendSome`, weak fairness of a peer that accepts and reads | `EventLoop` serves what arrives; `EINTR` and a full buffer do not meet every `send()` for ever. The peer need not reply or close, and a silent one can hold a request for ever, since the client has no timeout |

`Signal`, `MemPools` and `StealingPool` in the listed run are checked for safety only (`MCStealingPoolLive` has the liveness of the last).

## 7. Proofs

Checked by TLAPS for every value of the constants. Each invariant used below was first checked by
TLC on the instance of the module's run. The assumptions on constants are the modules' own `ASSUME`s, which TLC
evaluates for every run. The 38 theorems include every safety invariant of every passing run. Eight of them have a hypothesis on the clients or the peer. For six
it is known to be needed, since TLC finds the property violated without it (the configurations are in section 8; `OncePerRun` under the
constants of `MCJobThreadGraphStale`). For `FutureIsTrue` and `ResponseIsWhole` it is what the argument rests on: a search without it was
stopped after 14 million states without a violation of `FutureTells`, and completed (3.6 million states) without one of `ResponseWhole` on the thirteen replies of the run.

| Theorem | States | Hypothesis |
|---|---|---|
| `FifoPoolProofs!TypeCorrect` | `[]TypeOK` | |
| `FifoPoolProofs!ExecutedAtMostOnce` | `[]AtMostOnce` | |
| `FifoPoolProofs!SchedulerOutlivesWorkers` | `[]JoinedBeforeReset` | |
| `FifoPoolProofs!ShutdownLeavesNothing` | `[]NoStragglers` | (part of the property: no `RacingSubmit`) |
| `FifoPoolProofs!NoWakeUpLost` | `[]TokenCoverage` of `FifoPool` | |
| `FifoPoolProofs!IdleMeansDrained` | `[]IdleDrained` | |
| `StealingPoolProofs!TypeCorrect` | `[]TypeOK` | |
| `StealingPoolProofs!CountIsExact` | `[]SizeAccounting` | |
| `StealingPoolProofs!NoWakeUpLost` | `[]TokenCoverage` of `StealingPool` | |
| `StealingPoolProofs!ExecutedAtMostOnce` | `[]AtMostOnce` of `StealingPool` | |
| `QueueProofs!TypeCorrect` | `[]TypeOK` of `MPMCQueue` | |
| `QueueProofs!LinearizableBuffer` | `Abstract!Spec` | |
| `QueueProofs!NoWakeupIsLost` | `[]NoLostWakeup` | |
| `SignalProofs!EmitDelivers` | `[]Delivered` | |
| `SignalProofs!DisconnectIsFinal` | `[]NotCalledAfterDisconnect` | |
| `SignalProofs!SingleShotClaimedOnce` | `[]ClaimedOnce` | |
| `JobThreadGraphProofs!PrerequisitesFirst` | `[]DependencyOrder` | `RunWhenQuiet` |
| `JobThreadGraphProofs!RunsOnce` | `[]OncePerRun` | `RunWhenQuiet` |
| `JobThreadGraphProofs!FutureIsTrue` | `[]FutureTells` | `RunWhenQuiet` |
| `JobThreadActorProofs!HandlersDoNotOverlap` | `[]OneAtATime` | |
| `JobThreadActorProofs!HandledInOrder` | `[]InOrder` | |
| `JobThreadActorProofs!AliveIsHonest` | `[]AliveAnswer` | |
| `EventLoopProofs!NeverSleepsOnWork` | `[]QueuedMeansAwake` | |
| `EventLoopProofs!TimersKeepTheirWord` | `[]TimerDiscipline` | |
| `EventLoopProofs!NeverOversleeps` | `[]TimersShortenSleep` | |
| `QueueProofs!SleeperIsWoken` | `[]NoLostPost` | |
| `QueueProofs!ReadsWhatWasWritten` | `[]ReadsStream` | `SameSize` |
| `QueueProofs!UnreadIsKept` | `[]UnreadKept` | `SameSize` |
| `QueueProofs!ReaderAttachesSoundly` | `[]AttachedSound` | `SameSize` |
| `MemPoolsProofs!RecordsAreTrue` | `[]RecordsMatchKernel` | |
| `MemPoolsProofs!NothingLostOrShared` | `[]Partition` | |
| `MemPoolsProofs!FirstFitFinds` | `[]FindsIfFits` | |
| `MemPoolsProofs!PagesHandedOutAreMapped` | `[]HandsOutMapped` | |
| `MemPoolsProofs!ObjectsAccountedFor` | `[]SizePoolSound` | |
| `EventLoopProofs!ReportedOnce` | `[]OneOutcome` | |
| `EventLoopProofs!CancelledStaysCancelled` | `IdleUntilSend` (an action property) | |
| `EventLoopProofs!ResponseIsWhole` | `[]ResponseWhole` | `~EarlyReply` |
| `EventLoopProofs!GoodReplyAccepted` | `[]GoodReplySucceeds` | `~EarlyReply` |

Some operators are defined by recursion over data (the merge of sorted ranges, the flattening of lists, the search for a cycle, the
meaning of a wire). The library's induction theorems take a predicate as a parameter, which the provers cannot instantiate; three of the
modules therefore have a lemma `Induction` in set form (a set of naturals with 0 that is closed under successor is all of them,
from `WFMin` on the order of the naturals), and each use names its set. A recursive function on the naturals is handled the
same way: the functions that satisfy the equation up to n exist for every n, they agree, and so the whole function satisfies its equation.

**`FifoPoolProofs`** (any `NumWorkers ≥ 1`, any sets of tasks, watcher active or not; from `PoolAssumption` only):

* `TypeCorrect`: one lemma per process (`SubmitType`, `WorkerType`, `ShutdownType`,
  `WaitForIdleType`). Not only bookkeeping: the semaphore stays a natural number and the loop index
  of `shutdown()` a worker.
* `ExecutedAtMostOnce`: `AtMostOnce` is not inductive: nothing
  in it prevents a push of an id that is already queued, or a claim of a closure whose future
  is ready. The inductive invariant `OnceInv` adds `Unpushed` (a task whose `submit()` has not pushed
  is neither queued nor held), `Unregistered` and `MapPending` (a closure in the map is
  registered and its future pending). The lemma `Quiet` disposes of all steps that touch neither queue,
  map nor futures; the remaining ones are `Register`, `EnqueuePush`, `Next_Pop`, `Claim`, `Run`, `Finish`, `ClearShards`.
* `SchedulerOutlivesWorkers`: with `JoinInv`: while the join loop is at index
  `di`, all workers below `di` have exited, and an exited worker never comes back.
* `ShutdownLeavesNothing`: on top of both. `StragInv` says that `m_stopping` is set exactly once `shutdown()` has begun and then
  nobody is inside `submit()` (`NobodySubmits`), that a task with a pending future is in the map or held by a worker
  (`PendingKept`), and that after the shards are cleared there is none (`NonePending`); the last needs `JoinInv`.
* `NoWakeUpLost`: `CoverInv` is `TokenCoverage` with two facts it needs: only finitely many calls are in flight (the set of tasks may be
  infinite), and a descriptor of another type is never pushed, so that nobody relies on the surplus token it posts. Each step changes each of the
  four terms by at most one (`OneElement`), and `Covered` adds the changes up.
* `IdleMeansDrained`: what `waitForIdle()` answers for was accepted before the call (`SeenAccepted`), so it is never pushed again, and a
  queue once seen empty gets none of it back.

**`StealingPoolProofs`** (any number of workers, any capacity, any tasks; from `PoolAssumption` and `StealingAssumption`):

* `TypeCorrect`: also that no queue outgrows its capacity and that the walk over the victims stays among the workers (`VictimIsWorker`).
* `CountIsExact`: `CountInv` has `Balance`: the count, plus the pushes not yet counted, less the pops not yet counted down, is the number of queued tasks up to a
  multiple of `Modulus`. With the multiple left open it is inductive through the wrap; `SizeAccounting` fixes it, by `ModUnique`. `Queued`
  is the size of a set of slots, and `PushSlots` and `PopSlots` say that a push or a pop changes that set by one.
* `NoWakeUpLost`: `TokenCoverage` needs `Balance`. The delicate step is the one that drops a token because `size()` is zero: `ZeroIsCovered` shows
  that a count of zero leaves no more queued tasks than there are submitters between push and count, who have yet to post. The assumption that
  the workers' slots and hands are fewer than `Modulus` is used here: a wrapped count is not zero.
* `ExecutedAtMostOnce`: the argument of the FIFO pool with one queue per worker. `OnceInv` says that an id sits in at most one slot of all queues (`QueueOnce`), not
  also in a hand (`HeldNotQueued`) and in one hand only (`HeldOnce`); owner and thief take from the front under the queue's mutex, so a pop moves the id from the slot to the hand.

**`QueueProofs`, `MPMCQueue`** (any finite set of threads, any capacity and values; from `QueueAssumption`):

* `LinearizableBuffer`: the safety part of the refinement of `BoundedQueue`: the initial state maps to an initial one, and each step to a step of the
  abstract queue or to a stutter under the mapping `St`. An operation takes effect in its critical section; going to sleep, a
  notification and a spurious wake-up stutter.
* `NoWakeupIsLost`: the property counts values against awake poppers plus notifications on their way, and free slots likewise, so
  the proof is about cardinalities of sets of threads (which is why `QueueAssumption` says that the set of threads is finite). `WakeInv` is the property
  with the types; each step changes each of the sets by one thread or leaves it alone, which is a lemma per step.

**`SignalProofs`** (any connections, any emissions; from the module's assumption). `SignalInv` ties together what the stores
of one operation leave half done: `Holder` (what the owner of `writeMutex` has still to store), `ListSound` (an entry of the list is connected, and a flag
without an entry belongs to the owner of the mutex), `Counted` (`connectionCount` against the list, at every stage of every
operation), and for each emission `Walks`, `OutOfReach` (a callback whose `disconnect()` returned before is not in the snapshot), `OneWinner`
(who passed the exchange on `claimed`) and `SoFar` (up to its index an emission has called what it owes). `Delivered` needs `Counted`: an
emission that reads a count of zero ends without a snapshot, and must then owe nothing. `NotIt`, the list that `disconnect()`
writes, is defined position by position for this proof.

**`JobThreadGraphProofs`** (any nodes, edges, repeated ones included, any number of runs). Neither property is near inductive. `GraphInv` has
`OneRunAtATime` (closures belong to the current run) and `GraphKept` (its graph does not change while it has any), both of which rest on
`RunWhenQuiet`; `Ends`; `Tokens` and `ReadyOnce` (a node is in the pool once, or on one closure's list once, or has been taken);
`ZeroWhenSubmitted` (a node that was ever submitted has a counter of at most zero); and `CountersHigh`: `depsLeft` is *at least* the number of incoming edges whose
source has not reported. Equality (`KahnCounts`) does not hold after a failure, when a source ends without
reporting; the inequality does, and it is the direction that the order of tasks needs. A second submission is excluded because the closure
that submits saw the counter above zero, and a submitted node's is not. Without `RunWhenQuiet` two runs share `depsLeft`, and TLC finds both
properties violated (`MCJobThreadGraphStale.cfg` has the constants).

`FutureIsTrue` has two halves. That *true* means success rests on `FutureInv`: `CountIs` (until a failure, the counter is the number of nodes
that have been counted, `Counted`), `LastIs` and `EndsWell` (a closure goes on to set the value only if the counter came to the number of
tasks), so every node has been counted and none of its closures is left (`TrueGone`). That *false* has a reason is the cycle search, and
two lemmas about it. `CycleIsReal`: when the nodes can be ranked along the edges, `Dfs` finds no back edge, since the nodes being visited rank below the one
the search stands at (`Above`), and a call gives the colour *visiting* back as it found it (`Clean`); the induction is on the depth of the calls, and inside a call on the edges of
the fold (`FoldRuns`, `TriesStay`, `LooksStay`). `OrderHasRoot`: a graph that can be ranked has a node without incoming edges, so the check for roots does not fail
either. What remains is a thrown task (`Threw`) or no pool.

**`JobThreadActorProofs`** (any messages, any number of threads, any mailbox and batch size, throwing
handlers and a pool that stops included; from `ActorAssumption`):

* `HandlersDoNotOverlap`: the invariant `OneHolder` says that the right to drain the
  mailbox is in one place: in the pool, on one thread, or with one `post()` about to submit, and nowhere while
  `m_isScheduled` is false. It is `OneToken` (a count) written with quantifiers, so that no cardinality is needed.
* `HandledInOrder`: accepted messages are those handled, then the one in a handler's hand, then the mailbox, in this order (`Ordered`, `Kept`); that there is at
  most one hand is the theorem above.
* `AliveIsHonest`: `Asked` describes an `isAlive()` between its two reads, when the first found the mailbox empty: each message it owes an answer
  about has been handled, or is inside a handler, whose batch holds the flag up.

**`EventLoopProofs`** (any tasks, timers, intervals, descriptors, batch size, both kinds of loop; from `LoopAssumption`, which also says that the
sets of items are disjoint and that `Never`, the expiry of a timer that is not set, lies beyond the end of time):

* `NeverSleepsOnWork`: while the thread waits, the queue is empty, or the eventfd is written, or a caller that has queued its task is
  about to write it, or the wait's deadline has passed already (`Awake`, the property with the deadline's type).
* `TimersKeepTheirWord`: an expiry of a timer is set, queued, in the thread's hand or has run. `Issued` adds up the last three; `OneShot` and
  `Paced` bound it by what has expired, `NotAdded` says there is nothing before `addTimer()`. That no timer is lost is `Kept`, which needs `Stopping`: from the first step of
  `stop()` on the loop counts as stopped, also after a `start()`.
* `NeverOversleeps`: the deadline of a sleep is the minimum over the timers (`MinIs`) or the heartbeat; a timer set later has its empty task queued or about to be
  (`Short`, the property with the deadline's type), and only the thread takes it out.

**`QueueProofs`, `SharedMemory`** (any lengths, semaphore limit and program points at which either process dies; from `ShmAssumption`):

* `SleeperIsWoken` holds for any sizes.
* `ReadsWhatWasWritten`, `UnreadIsKept`, `ReaderAttachesSoundly` hold when the writers agree on one size (`SameSize`), of any value. With two sizes a writer that attaches again
  truncates the object under a header it does not rewrite, and all three fail (under the constants of `SharedMemorySize.cfg`). `RingInv` has `Object` (the header is written
  after the object has its length), `Calls` (a copy in progress fits between the positions) and `Stored` (the byte at position p is in slot
  p modulo the size, from `readPos` to the writer's hand, also for a copy that a death cut off). The step that copies a byte rests on `SlotsDiffer`: positions less than a lap apart fall into
  different slots.

**`MemPoolsProofs`** (any page size, lengths, addresses, extents, requests and alignments, whatever the system calls refuse; from `MmapAssumption` and `PoolAssumption`):

* The operators on ranges first. `Sorted` (the sort is a permutation in ascending order), `MergeStep` and `Normalized` (the merge of sorted ranges covers the
  same addresses with gaps between), `Added`, `Cut`, `Kept`, `Replaced`, `Flattened` (adding, removing and splitting cover what they should). They are stated by which addresses a
  list covers (`In`) and that it is `Separated`, and proved by the set-form induction over the loop.
* `RecordsAreTrue`: `MapInv` says that both lists are sorted, separated, page-aligned and inside the mapping, that the lock record belongs to
  the mapping while there is one, and that the lists are the kernel's pages. Alignment is needed: `JobMemLock` rounds a range outwards to pages or to the end of the mapping,
  `unmap()` rounds inwards (`LockRange`, `Inward`), and the lists, which hold addresses, say which *pages* the kernel has only as long as every range starts on one.
* `NothingLostOrShared`: `PoolInv` states the partition by units (`AllocInv`: allocations do not overlap; `FreeInv`: a unit of the extent is free or taken, never both;
  `ArenaInv`), next to `MapInv`, and the counters through cardinalities of intervals (`UsedAre`, `FreeAre`).
* `FirstFitFinds`: `Contiguous` (a block of free units lies within one free run, because the runs are coalesced) and `FirstAligned` (the rounded-up start of a
  run is the least aligned address in it). For the page pool the second uses that alignment and page size divide one another.
* `PagesHandedOutAreMapped`: the pool asks whether its whole extent lies in one mapped range; the block the next `alloc()` would take lies in the extent, and the mapped ranges are the kernel's.
* `ObjectsAccountedFor`: `SizeInv` says, while nobody pulled the memory away (`pulled`), that every span is an allocation of the page pool of the right size (`Owns`, also for a span that `grow()`
  holds but has not recorded) and that each object address is free or handed out once with both counters exact (`Books`). Two spans share no
  object address, since the page pool's allocations do not overlap (`SpansApart`); this is where `Partition` is used.

**`EventLoopProofs`, `HttpClient`** (any replies, any cut into pieces, any peer, any buffer sizes; from `ClientAssumption`, `ParserAssumption`, `ReplyAssumption`):

* `ReportedOnce`: `OpenWhileBusy` (the transport is open exactly while the client is busy) and
  `NothingReported` (inside a handler that can still report, nothing has been) make it inductive: every way to report closes the transport, and an event
  or an answer of the resolver for a socket that is gone meets an expired weak pointer.
* `CancelledStaysCancelled`: outside the parser's loop an idle client changes state and reports only after a `send()`, although events of the old socket are still in the queue
  and the resolver may still answer. A `cancel()` in the body callback is included once `parse()` is back in `onRead()`; before that it is not final
  (`MCHttpCancel.cfg`).
* `ResponseIsWhole` and `GoodReplyAccepted`: the invariant `ReplyInv` says where the parser stands. `Position`: there is a position c such that what is left of the wire
  after c is what is being parsed, in the socket and still with the peer, and the parser is exactly what the reference is after c symbols, unless it has failed because
  the callback threw or because the wire is no response; all of this until the body callback cancels, from when on the socket is gone (`HandlersBusy`) and the two properties claim nothing. `Waiting`: outside `parse()` the parser is neither complete nor in error. `Before`: nothing arrives before
  the request is sent (`~EarlyReply`) and the parser is fresh until then. `Hangs`: a hang-up queued *for this socket* stands for a reset; since sockets are numbered by `send()` and a queued event never has a number to come (`Tagged`), what the last connection left behind
  says nothing of this one. Position is kept by a turn of `parse()` because of two lemmas
  about the parser alone, for any piece. `LineConsumed`: `consumeLine()`, which keeps an unfinished line in a buffer between calls, looks for CRLF also across the cut and
  gives up when the buffer is full, ends at the same symbol with the same result as reading symbol by symbol. `TakesBody` (with `RunsToTheClose`): a stretch of body taken at once is the
  same as its bytes one by one, also where it is cut by the end of a chunk or of the length. Then `CompleteIsWhole` and `ClosedIsWhole` go through the ways to complete, `ErrorIsDue` and `AfterTheEnd` through
  the ways to fail: after an error the reference stays in error (`ErrorStays`), so a reply whose wire ends well is never in error before its end.

Only model-checked, because the prover handles neither fairness nor `ENABLED`: `AcceptedRuns`, `ShutdownReturns`, `RunResolves`, `AcceptedHandled`, `PostedRuns`, `ArrivalsServed`, `StopReturns`,
`WrittenIsRead`, `RequestEnds`, and the progress part of `ImplementsBoundedQueue`.

## 8. Where the code and its documentation disagree

Two runs check what a test of the repository says, and TLC's counterexample is a behaviour of the
code (`findings` quotes the lines):

| Run | Statement | What happens |
|---|---|---|
| `fifo_wait_for_idle` | `test_thread_pool.cpp`: after `waitForIdle()` all submitted tasks have run | a worker has popped the id and has not yet raised `m_progress`: size and progress are both 0. What does hold is `IdleDrained` |
| `signal_single_shot` | `test_job_signal.cpp`: concurrent emissions call a single-shot callback exactly once | snapshot loaded before, `singleShotCount` read after another emission consumed the connection: the fast path calls it again. What does hold is `ClaimedOnce` |

The disciplines of section 3 mark where other statements stop holding. Each can be seen with the
configuration named, by TLC, under the same specification:

| Configuration | Property | What happens |
|---|---|---|
| `MCFifoWatcher` (`Outlives = TRUE`) | `AcceptedAlwaysRuns` | `threading_overview.md` says the watcher stops what "overruns"; time is counted from registration, so 30 s after construction every worker is stopped, idle or not, and a task accepted later never runs |
| `MCFifoStop` (a foreign descriptor) | `ShutdownAlwaysReturns` | `FifoScheduler::stop()` sets the flag and notifies without the mutex: a worker between predicate and sleep misses both, and `shutdown()` hangs in `join()`. The dropped descriptor's surplus token brings the worker there |
| `MCJobThreadGraphStale` (`RunWhenQuiet = FALSE`) | `DependencyOrder` | `run()` or `reset()` clears `m_failed` under closures of a failed run that are still going; a skipped node then releases its dependents |
| `MCJobThreadGraphPartial` | `OnlyDependentsBlocked` | a test is named "partial failure blocks only dependents"; `m_failed` makes every closure that has not started skip its task, related or not |
| `JobThreadActorThrow` (`Throwing` non-empty) | `AcceptedHandled` | a throwing handler leaves `m_isScheduled` set with no batch anywhere; nothing is handled afterwards |
| `MCEventLoopTimer` | `IoTimerFires` | the comment in `addTimer()` (`job_async_event_loop.cpp:108`) says its empty task is to "Wake up sleepy head"; it goes straight into the task queue and not through `post()`, and a `JobIoAsyncThread` asleep in `epoll_wait()` without a timeout is not woken |
| `SharedMemorySize` (two sizes) | `SizeMatches` | `job_shared_memory_header.h:26` says the object's size is the header's plus `totalSize`; a writer that re-attaches with another size truncates the object and keeps the old header |
| `MCMemPoolsRange` | `RangeHandsOutMapped` | `test_job_range_pool.cpp` expects allocations to be mapped memory; `JobRangePool` only asks whether the mapping is valid, so after a partial `unmap()` it hands out the hole |
| `MCHttpCancel` | `CancelIsFinal` | a test is named "cancel during streamed response stops further delivery"; `cancel()` in the body callback resets the parser under the running `parse()`, which goes on with the rest of the piece and reports an outcome |
| `MCHttpHangUp` | `HangUpIsClose` | `tcp_socket.cpp` says that a hang-up without `SO_ERROR` "just means the peer closed normally"; after a reset whose error `read()` has taken, the hang-up completes a close-delimited body |
| `MCHttpEarly` (`EarlyReply = TRUE`) | `GoodReplySucceeds` | a reply that arrives while the request is still being sent is read and dropped, and the request fails at the close |

`MCFifoRacing` (everything racing, `submit()` overlapping `shutdown()`) passes with `AtMostOnce`, `TokenCoverage`,
`JoinedBeforeReset` and `IdleDrained`, and `MCStealingPoolLive` with `AtMostOnce`, `AcceptedRuns` and `ShutdownReturns`.

## 9. What is not modelled

Not yet (planned below): the round-robin and the sporadic scheduler, `JobThread` and `ThreadWatcher` in their own right, pipelines,
`parallel_for`/`parallel_reduce` and the latch, the registry of connections kept by `Object`.

Left out of modelled components:

* `TaskQueue` with a bound (no event loop sets one), `swap()`, `clear()`;
* descriptors registered level-triggered (a `TcpSocket` registers edge-triggered), and `stop()` called from the loop's own thread;
* data that arrived before `registerFD()` stored the callback: the edge may be consumed without a callback and `ArrivalsServed`
  says nothing of it; after `stop()` and `start()` the task queue stays stopped and `post()` drops, and `PostedRuns` is about tasks in the queue;
* the writer's death between the header's magic number and its size: the next writer finds the magic number and does not finish the
  header, and no reader can attach (`Deadly` leaves this one point out);
* file-backed maps, `prefetch()`, NUMA, and the device interface of `JobMmap`;
* what a `JobSizePool` hands out after the memory under its spans was unmapped or moved, or after `JobPagePool::clear()` by another client (the ghost
  `pulled`): the pool keeps absolute addresses and cannot know;
* TLS, the text of the request (`buildRequestData()`), redirects, the grammar within a line, the resolver (one step that answers).

Simplifications inside modelled operations, with what they leave out:

* `ThreadPool`: the semaphore's `wait()` returns only with a token (the retry at `job_thread_pool.cpp:145` after an interrupted wait goes back to the same test); ids
  of descriptors are unique, as `CreateDescriptor` makes them (a client that submits two descriptors of one id overwrites a closure).
* `StealingPool`: as many queues as workers, which is how `job_stealing_ctx.h` and the engines build the pair; the constructors take two numbers.
* `JobThreadGraph`, `JobThreadActor`: the graph's pool accepts what it is given (a refused `submit()` would leave the run's future unresolved); `PoolShutdown` drops an actor's waiting
  batches in one step, where `ThreadPool` has the steps of `shutdown()` one by one.
* `SharedMemory`: the size fits the header's 32 bits, so the cast at `job_shared_memory.cpp:209` is the identity.
* `Mmap`: a `munlock()` that fails changes nothing, as its manual page says; over a hole the kernel may in fact have unlocked the pages before it. A failing `munmap()` in
  `unmap()` without a range, which `closeDevice()` calls, is not distinguished, since the code ignores its result and drops its records either way.
* `MemPools`: the pool's page size is the kernel's, which is the constructors' default (`systemPageSize()`).

Not at all: sequential data conversion (`job_serializer`, `job_schema`, `job_zstd`, `job_aipkg`, parsers of
`job_core`, `job_ansi`), widgets (`job_tui`), cryptographic wrappers (`job_crypto`), numerics
(`job_ai`, `job_science`, `job_sound`), devices (`job_uart`, `job_usb`). They have no interleaving of their own; their values (floats,
byte streams) are out of TLC's reach, and whatever is concurrent in them goes through the components above. They are the
larger part of the repository by lines: the models cover its concurrent core, not its bulk.

Hazards without a property, beside those of `PROJECT.json` that say so and the configurations of section 8:

* `submit()` overlapping `shutdown()` can reach a null scheduler pointer (the pc `"crashed"` of `ThreadPool`; no document states a
  contract for that overlap); `setTaskRange()` with a minimum other than 0 stores it into the counter that `waitForIdle()` compares with 0.
* A task that submits tasks can fill all queues of the stealing scheduler with every worker blocked in `push()`
  (`job_work_stealing_scheduler.cpp:41`), and a pipeline stage posts downstream with a blocking push from a worker (`job_pipeline_stage.h:76`): a task's body is opaque here.
* `parallel_for` and the resolver ignore the result of `submit()` (`job_parallel_for.h:71`, `job_resolver.h:54`): refused by a
  stopping pool, the latch stays up or the callback never comes.
* `JobRoundRobinScheduler::enqueue()` tests the stop flag before it takes the mutex, and a sporadic reservation is released only by `enqueue()`.
* The read loop of `TcpClient` calls `onMessage`, which may end the request that owns the client (`tcp_client.cpp:162`): lifetimes are not followed.
* A bounded `TaskQueue` has one condition variable for both sides, and a task that posts to its own full queue waits for itself.

## 10. Plan

A theorem still worth proving is the converse of `CycleIsReal`: `Dfs` finds a cycle whenever there is one, so that a run that is accepted is one that can be ranked.

Extensions:

1. `RoundRobinPool`: `ThreadPool` over `JobRoundRobinScheduler`; fairness over priorities, `stop()` that clears
   under a racing `enqueue()`.
2. `SporadicScheduler`: admission and reservations against a reference definition of demand; EDF order.
3. `ParallelFor`: the partition of a range as a pure function against its reference, the latch against
   refused submissions. `Pipeline`: two actors over a fixed number of workers (blocking `post()` from a worker).
4. `Object`'s registry of connections with `Signal`.
5. An abstract executor ("accepted tasks run once") that `FifoPool` and `StealingPool` implement,
   so that the clients of the pool (`JobThreadGraph`, `JobThreadActor`) rest on the abstract one.
