----------------------------- MODULE ThreadPool -----------------------------
(***************************************************************************)
(* job::threads::ThreadPool: a fixed set of workers that draw on a         *)
(* counting semaphore, ask an ISchedPolicy for a task id and claim the     *)
(* task's closure from a sharded map.  This module holds the pool's own    *)
(* state and steps; the modules that extend it (FifoPool, StealingPool)    *)
(* add a scheduler: the state and the steps of enqueue(), next(), size()   *)
(* and stop(), which run where a pc below says "enqueue", "next",          *)
(* "phantom" or "sched".                                                   *)
(*                                                                         *)
(* A step is one atomic access to shared state.  Every task is the subject *)
(* of one submit() call made by some thread (a client, or a worker that is *)
(* running another task), so the submitting calls are indexed by the task. *)
(***************************************************************************)
EXTENDS Integers, FiniteSets

CONSTANTS
    NumWorkers,     \* threadCount of the constructor
    Plain,          \* tasks passed to submit(priority, f): the pool makes the descriptor
    Foreign,        \* tasks passed to submit(desc, f) with a descriptor the scheduler drops
    IdleCalls,      \* does a client call waitForIdle()?
    TaskMins,       \* minima a client may pass to setTaskRange()
    RacingSubmit,   \* may a submit() call overlap shutdown()?
    Outlives,       \* can the pool live longer than the watcher's 30 s?
    NoTask          \* "no task claimed"

ASSUME PoolAssumption ==
    /\ NumWorkers \in Nat \ {0}
    /\ Plain \cap Foreign = {}
    /\ NoTask \notin Plain \cup Foreign
    /\ TaskMins \subseteq Int
    /\ IdleCalls \in BOOLEAN
    /\ RacingSubmit \in BOOLEAN
    /\ Outlives \in BOOLEAN

Tasks == Plain \cup Foreign
Workers == 0 .. NumWorkers - 1

VARIABLES
    m_stopping,         \* shutdown() has begun
    m_scheduler,        \* the scheduler pointer is not null
    m_watcher,          \* the watcher's monitor thread is alive
    m_workSemaphore,    \* value of the counting semaphore
    m_taskShards,       \* tasks whose closure is in the sharded map
    m_progress,         \* number of closures being executed (as counted)
    wpc, wtask,         \* per worker: where it is in workerLoop(), the id it holds
    stopReq,            \* per worker: its stop token has been signalled
    spc,                \* per task: where its submit() call is
    future,             \* per task: state of the std::future that submit() makes
    dpc, di,            \* where shutdown() is, and its loop index
    ipc, seen           \* where waitForIdle() is, and the tasks accepted before it

workerVars == <<wpc, wtask>>
idleVars   == <<ipc, seen>>
ctlVars    == <<m_stopping, m_scheduler, m_watcher, dpc, di>>
poolVars   == <<m_stopping, m_scheduler, m_watcher, m_workSemaphore, m_taskShards,
                m_progress, wpc, wtask, stopReq, spc, future, dpc, di, ipc, seen>>

WorkerPC == {"top", "wait", "woken", "next", "block", "cv", "scan", "sub", "claim",
             "phantom", "repost", "begin", "run", "finish", "exited"}
SubmitPC == {"start", "create", "check", "admit", "register", "enqueue", "push",
             "notify", "count", "post", "accepted", "refused", "crashed"}
FutureState == {"none", "pending", "ready", "broken"}
ShutdownPC == {"idle", "watcher", "sched", "notify", "request", "post", "join",
               "clear", "reset", "returned"}
IdlePC == {"out", "size", "progress", "returned", "crashed"}

PoolTypeOK ==
    /\ m_stopping \in BOOLEAN /\ m_scheduler \in BOOLEAN /\ m_watcher \in BOOLEAN
    /\ m_workSemaphore \in Nat
    /\ m_taskShards \subseteq Tasks
    /\ m_progress \in Int
    /\ wpc \in [Workers -> WorkerPC]
    /\ wtask \in [Workers -> Tasks \cup {NoTask}]
    /\ stopReq \in [Workers -> BOOLEAN]
    /\ spc \in [Tasks -> SubmitPC]
    /\ future \in [Tasks -> FutureState]
    /\ dpc \in ShutdownPC /\ di \in Workers
    /\ ipc \in IdlePC /\ seen \subseteq Tasks

-----------------------------------------------------------------------------
(* The constructor: every worker started and registered with the watcher.   *)
PoolInit ==
    /\ m_stopping = FALSE /\ m_scheduler = TRUE /\ m_watcher = TRUE
    /\ m_workSemaphore = 0
    /\ m_taskShards = {}
    /\ m_progress = 0
    /\ wpc = [w \in Workers |-> "top"]
    /\ wtask = [w \in Workers |-> NoTask]
    /\ stopReq = [w \in Workers |-> FALSE]
    /\ spc = [t \in Tasks |-> IF t \in Plain THEN "start" ELSE "check"]
    /\ future = [t \in Tasks |-> "none"]
    /\ dpc = "idle" /\ di = 0
    /\ ipc = "out" /\ seen = {}

-----------------------------------------------------------------------------
(* submit().  A call through the null scheduler pointer ends in "crashed".  *)
GoSubmit(t, pc) == spc' = [spc EXCEPT ![t] = pc]

(* What submit() leaves alone until it registers the closure. *)
SubmitFrame == UNCHANGED <<ctlVars, m_workSemaphore, m_progress, workerVars, stopReq, idleVars>>

(* With no overlap allowed, clients start no call once shutdown() has begun *)
(* (a call after it returned is allowed: it is refused).                    *)
MayStart == RacingSubmit \/ dpc \in {"idle", "returned"}

(* Mutant: no test for a pool that is shut down. *)
SubmitPriority_Unchecked(t) ==
    /\ spc[t] = "start" /\ MayStart
    /\ GoSubmit(t, "create")
    /\ UNCHANGED <<m_taskShards, future>> /\ SubmitFrame

SubmitPriority(t) ==
    /\ spc[t] = "start" /\ MayStart
    /\ GoSubmit(t, IF m_stopping \/ ~m_scheduler THEN "refused" ELSE "create")
    /\ UNCHANGED <<m_taskShards, future>> /\ SubmitFrame

CreateDescriptor(t) ==
    /\ spc[t] = "create"
    /\ GoSubmit(t, IF m_scheduler THEN "check" ELSE "crashed")
    /\ UNCHANGED <<m_taskShards, future>> /\ SubmitFrame

SubmitDescriptor(t) ==
    /\ spc[t] = "check" /\ (t \in Foreign => MayStart)
    /\ GoSubmit(t, IF m_stopping \/ ~m_scheduler THEN "refused" ELSE "admit")
    /\ UNCHANGED <<m_taskShards, future>> /\ SubmitFrame

(* ISchedPolicy::admit() of the FIFO and the stealing scheduler: always true. *)
Admit(t) ==
    /\ spc[t] = "admit"
    /\ GoSubmit(t, IF m_scheduler THEN "register" ELSE "crashed")
    /\ UNCHANGED <<m_taskShards, future>> /\ SubmitFrame

Register(t) ==
    /\ spc[t] = "register"
    /\ m_taskShards' = m_taskShards \cup {t}
    /\ future' = [future EXCEPT ![t] = "pending"]
    /\ GoSubmit(t, "enqueue")
    /\ SubmitFrame

(* Mutant: the wake-up is forgotten. *)
Post_Forgotten(t) ==
    /\ spc[t] = "post"
    /\ GoSubmit(t, "accepted")
    /\ UNCHANGED <<m_taskShards, future>> /\ SubmitFrame

Post(t) ==
    /\ spc[t] = "post"
    /\ m_workSemaphore' = m_workSemaphore + 1
    /\ GoSubmit(t, "accepted")
    /\ UNCHANGED <<ctlVars, m_taskShards, m_progress, workerVars, stopReq, future, idleVars>>

SubmitDone(t) == spc[t] \in {"accepted", "refused", "crashed"}
Submitting(t) == ~SubmitDone(t) /\ spc[t] # "start" /\ (t \in Foreign => spc[t] # "check")

-----------------------------------------------------------------------------
(* workerLoop() *)
Go(w, pc) == wpc' = [wpc EXCEPT ![w] = pc]

(* What a worker's step never writes. *)
WorkerFrame == UNCHANGED <<ctlVars, stopReq, spc, idleVars>>

LoopTop(w) ==
    /\ wpc[w] = "top"
    /\ Go(w, IF stopReq[w] THEN "exited" ELSE "wait")
    /\ UNCHANGED <<m_workSemaphore, m_taskShards, m_progress, wtask, future>> /\ WorkerFrame

SemWait(w) ==
    /\ wpc[w] = "wait" /\ m_workSemaphore > 0
    /\ m_workSemaphore' = m_workSemaphore - 1
    /\ Go(w, "woken")
    /\ UNCHANGED <<m_taskShards, m_progress, wtask, future>> /\ WorkerFrame

Woken(w) ==
    /\ wpc[w] = "woken"
    /\ Go(w, IF stopReq[w] THEN "exited" ELSE "next")
    /\ UNCHANGED <<m_workSemaphore, m_taskShards, m_progress, wtask, future>> /\ WorkerFrame

(* The two results of m_scheduler->next(); the scheduler's module says when. *)
GotTask(w, t) ==
    /\ wtask' = [wtask EXCEPT ![w] = t]
    /\ Go(w, "claim")
    /\ UNCHANGED <<m_workSemaphore, m_taskShards, m_progress, future>> /\ WorkerFrame

GotNone(w) ==
    /\ Go(w, "phantom")
    /\ UNCHANGED <<m_workSemaphore, m_taskShards, m_progress, wtask, future>> /\ WorkerFrame

Claim(w) ==
    /\ wpc[w] = "claim"
    /\ IF wtask[w] \in m_taskShards
         THEN /\ m_taskShards' = m_taskShards \ {wtask[w]}
              /\ Go(w, "begin") /\ UNCHANGED wtask
         ELSE /\ Go(w, "top") /\ wtask' = [wtask EXCEPT ![w] = NoTask]
              /\ UNCHANGED m_taskShards
    /\ UNCHANGED <<m_workSemaphore, m_progress, future>> /\ WorkerFrame

(* Mutant: the token of a phantom wake-up is dropped. *)
Phantom_Drop(w, size) ==
    /\ wpc[w] = "phantom"
    /\ Go(w, "top")
    /\ UNCHANGED <<m_workSemaphore, m_taskShards, m_progress, wtask, future>> /\ WorkerFrame

(* "Phantom Wakeup": size is what m_scheduler->size() returns. *)
Phantom(w, size) ==
    /\ wpc[w] = "phantom"
    /\ Go(w, IF size > 0 THEN "repost" ELSE "top")
    /\ UNCHANGED <<m_workSemaphore, m_taskShards, m_progress, wtask, future>> /\ WorkerFrame

Repost(w) ==
    /\ wpc[w] = "repost"
    /\ m_workSemaphore' = m_workSemaphore + 1
    /\ Go(w, "top")
    /\ UNCHANGED <<m_taskShards, m_progress, wtask, future>> /\ WorkerFrame

Begin(w) ==
    /\ wpc[w] = "begin"
    /\ m_progress' = m_progress + 1
    /\ Go(w, "run")
    /\ UNCHANGED <<m_workSemaphore, m_taskShards, wtask, future>> /\ WorkerFrame

(* The packaged_task: a value or an exception, the future is ready. *)
Run(w) ==
    /\ wpc[w] = "run"
    /\ future' = [future EXCEPT ![wtask[w]] = "ready"]
    /\ Go(w, "finish")
    /\ UNCHANGED <<m_workSemaphore, m_taskShards, m_progress, wtask>> /\ WorkerFrame

(* m_progress goes down; complete() is empty in both schedulers. *)
Finish(w) ==
    /\ wpc[w] = "finish"
    /\ m_progress' = m_progress - 1
    /\ wtask' = [wtask EXCEPT ![w] = NoTask]
    /\ Go(w, "top")
    /\ UNCHANGED <<m_workSemaphore, m_taskShards, future>> /\ WorkerFrame

-----------------------------------------------------------------------------
(* ThreadWatcher::monitorLoop(): the time is measured from addThread(), so   *)
(* once it exceeds the timeout every worker is asked to stop, busy or not.   *)
WatcherStops(w) ==
    /\ Outlives /\ m_watcher /\ wpc[w] # "exited" /\ ~stopReq[w]
    /\ stopReq' = [stopReq EXCEPT ![w] = TRUE]
    /\ UNCHANGED <<ctlVars, m_workSemaphore, m_taskShards, m_progress, workerVars, spc,
                   future, idleVars>>

-----------------------------------------------------------------------------
(* shutdown(), step by step.  A second call finds m_stopping set and returns *)
(* without a state change, so it is no action.                               *)
ShutdownFrame == UNCHANGED <<m_progress, workerVars, spc, idleVars>>

ShutdownCall ==
    /\ dpc = "idle" /\ (RacingSubmit \/ \A t \in Tasks : ~Submitting(t))
    /\ m_stopping' = TRUE /\ dpc' = "watcher"
    /\ UNCHANGED <<m_scheduler, m_watcher, di, m_workSemaphore, m_taskShards, stopReq, future>>
    /\ ShutdownFrame

WatcherStop ==
    /\ dpc = "watcher" /\ dpc' = "sched" /\ m_watcher' = FALSE
    /\ UNCHANGED <<m_stopping, m_scheduler, di, m_workSemaphore, m_taskShards, stopReq, future>>
    /\ ShutdownFrame

(* The loops over m_workers: one iteration each, then the next loop. *)
LoopStep(here, there) ==
    /\ dpc = here
    /\ IF di + 1 = NumWorkers THEN dpc' = there /\ di' = 0
                              ELSE UNCHANGED dpc /\ di' = di + 1

RequestStop ==
    /\ LoopStep("request", "post")
    /\ stopReq' = [stopReq EXCEPT ![di] = TRUE]
    /\ UNCHANGED <<m_stopping, m_scheduler, m_watcher, m_workSemaphore, m_taskShards, future>>
    /\ ShutdownFrame

(* Mutant: sleeping workers are not woken up. *)
PostStop_Forgotten ==
    /\ LoopStep("post", "join")
    /\ UNCHANGED <<m_stopping, m_scheduler, m_watcher, m_workSemaphore, m_taskShards, stopReq, future>>
    /\ ShutdownFrame

PostStop ==
    /\ LoopStep("post", "join")
    /\ m_workSemaphore' = m_workSemaphore + 1
    /\ UNCHANGED <<m_stopping, m_scheduler, m_watcher, m_taskShards, stopReq, future>>
    /\ ShutdownFrame

(* Mutant: the workers are detached, not joined. *)
Join_Detach ==
    /\ LoopStep("join", "clear")
    /\ UNCHANGED <<m_stopping, m_scheduler, m_watcher, m_workSemaphore, m_taskShards, stopReq, future>>
    /\ ShutdownFrame

Join ==
    /\ wpc[di] = "exited"
    /\ LoopStep("join", "clear")
    /\ UNCHANGED <<m_stopping, m_scheduler, m_watcher, m_workSemaphore, m_taskShards, stopReq, future>>
    /\ ShutdownFrame

(* The closures still in the map are destroyed: their futures are broken. *)
ClearShards ==
    /\ dpc = "clear" /\ dpc' = "reset"
    /\ m_taskShards' = {}
    /\ future' = [t \in Tasks |-> IF t \in m_taskShards THEN "broken" ELSE future[t]]
    /\ UNCHANGED <<m_stopping, m_scheduler, m_watcher, di, m_workSemaphore, stopReq>>
    /\ ShutdownFrame

ResetScheduler ==
    /\ dpc = "reset" /\ dpc' = "returned" /\ m_scheduler' = FALSE
    /\ UNCHANGED <<m_stopping, m_watcher, di, m_workSemaphore, m_taskShards, stopReq, future>>
    /\ ShutdownFrame

-----------------------------------------------------------------------------
(* setTaskRange() and waitForIdle(), called by a client. *)
SetTaskRange(min) ==
    /\ m_progress' = min
    /\ UNCHANGED <<ctlVars, m_workSemaphore, m_taskShards, workerVars, stopReq, spc, future, idleVars>>

IdleFrame == UNCHANGED <<ctlVars, m_workSemaphore, m_taskShards, m_progress, workerVars,
                         stopReq, spc, future>>

IdleCall ==
    /\ IdleCalls /\ ipc = "out"
    /\ ipc' = IF m_scheduler THEN "size" ELSE "returned"
    /\ seen' = {t \in Tasks : spc[t] = "accepted"}
    /\ IdleFrame

(* One poll; size is what m_scheduler->size() returns.  Not idle: sleep, poll again. *)
IdleSize(size) ==
    /\ ipc = "size" /\ (m_scheduler => size = 0)
    /\ ipc' = IF m_scheduler THEN "progress" ELSE "crashed"
    /\ UNCHANGED seen /\ IdleFrame

IdleProgress ==
    /\ ipc = "progress"
    /\ ipc' = IF m_progress = 0 THEN "returned" ELSE "size"
    /\ UNCHANGED seen /\ IdleFrame

=============================================================================
