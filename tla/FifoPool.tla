------------------------------ MODULE FifoPool ------------------------------
(***************************************************************************)
(* ThreadPool driven by FifoScheduler: one queue, one mutex, one condition *)
(* variable.  Only next() holds the mutex across two steps (it has         *)
(* evaluated the wait predicate and is about to sleep, pc "block"), so the *)
(* mutex is free exactly when no worker is there.                          *)
(***************************************************************************)
EXTENDS ThreadPool, Sequences

VARIABLES
    m_queue,        \* the descriptors, oldest first
    m_stopped       \* ISchedPolicy::m_stopped

schedVars == <<m_queue, m_stopped>>
vars == <<poolVars, schedVars>>

TypeOK ==
    /\ PoolTypeOK
    /\ m_queue \in Seq(Tasks)
    /\ m_stopped \in BOOLEAN

Init ==
    /\ PoolInit
    /\ m_queue = << >> /\ m_stopped = FALSE

MutexFree == \A w \in Workers : wpc[w] # "block"

-----------------------------------------------------------------------------
(* FifoScheduler *)

(* enqueue(): a stopped scheduler and a descriptor of another type drop it. *)
EnqueueCheck(t) ==
    /\ spc[t] = "enqueue"
    /\ GoSubmit(t, IF ~m_scheduler THEN "crashed"
                   ELSE IF m_stopped \/ t \in Foreign THEN "post" ELSE "push")
    /\ UNCHANGED <<m_taskShards, future, schedVars>> /\ SubmitFrame

EnqueuePush(t) ==
    /\ spc[t] = "push" /\ MutexFree
    /\ m_queue' = Append(m_queue, t)
    /\ GoSubmit(t, "notify")
    /\ UNCHANGED <<m_taskShards, future, m_stopped>> /\ SubmitFrame

Sleepers == {w \in Workers : wpc[w] = "cv"}

NotifyOne(t) ==
    /\ spc[t] = "notify"
    /\ GoSubmit(t, "post")
    /\ IF Sleepers = {} THEN UNCHANGED wpc
                        ELSE \E w \in Sleepers : Go(w, "next")
    /\ UNCHANGED <<ctlVars, m_workSemaphore, m_taskShards, m_progress, wtask, stopReq, future,
                   idleVars, schedVars>>

(* Mutant: the front is read and not popped. *)
Next_Pop_Peek(w) ==
    /\ wpc[w] = "next" /\ MutexFree /\ m_queue # << >>
    /\ GotTask(w, Head(m_queue))
    /\ UNCHANGED schedVars

(* next(): take the mutex and evaluate the predicate of the wait. *)
Next_Pop(w) ==
    /\ wpc[w] = "next" /\ MutexFree /\ m_queue # << >>
    /\ m_queue' = Tail(m_queue)
    /\ GotTask(w, Head(m_queue))
    /\ UNCHANGED m_stopped

Next_None(w) ==
    /\ wpc[w] = "next" /\ MutexFree /\ m_queue = << >> /\ m_stopped
    /\ GotNone(w)
    /\ UNCHANGED schedVars

Next_Block(w) ==
    /\ wpc[w] = "next" /\ MutexFree /\ m_queue = << >> /\ ~m_stopped
    /\ Go(w, "block")
    /\ UNCHANGED <<m_workSemaphore, m_taskShards, m_progress, wtask, future, schedVars>>
    /\ WorkerFrame

Next_Sleep(w) ==
    /\ wpc[w] = "block"
    /\ Go(w, "cv")
    /\ UNCHANGED <<m_workSemaphore, m_taskShards, m_progress, wtask, future, schedVars>>
    /\ WorkerFrame

(* A condition variable may wake a waiter for no reason. *)
SpuriousWake(w) ==
    /\ wpc[w] = "cv"
    /\ Go(w, "next")
    /\ UNCHANGED <<m_workSemaphore, m_taskShards, m_progress, wtask, future, schedVars>>
    /\ WorkerFrame

(* stop(): the flag, then notify_all(), neither under the mutex. *)
SchedStop ==
    /\ dpc = "sched" /\ dpc' = "notify"
    /\ m_stopped' = TRUE
    /\ UNCHANGED <<m_stopping, m_scheduler, m_watcher, di, m_workSemaphore, m_taskShards, stopReq,
                   future, m_queue>>
    /\ ShutdownFrame

NotifyAll ==
    /\ dpc = "notify" /\ dpc' = "request"
    /\ wpc' = [w \in Workers |-> IF wpc[w] = "cv" THEN "next" ELSE wpc[w]]
    /\ UNCHANGED <<m_stopping, m_scheduler, m_watcher, di, m_workSemaphore, m_taskShards, m_progress,
                   wtask, stopReq, spc, future, idleVars, schedVars>>

-----------------------------------------------------------------------------
Submit(t) ==
    \/ (SubmitPriority(t) \/ CreateDescriptor(t) \/ SubmitDescriptor(t) \/ Admit(t)
        \/ Register(t) \/ Post(t)) /\ UNCHANGED schedVars
    \/ EnqueueCheck(t) \/ EnqueuePush(t) \/ NotifyOne(t)

(* size() takes the mutex. *)
WorkerLoop(w) ==
    \/ (LoopTop(w) \/ SemWait(w) \/ Woken(w) \/ Claim(w) \/ Repost(w) \/ Begin(w) \/ Run(w)
        \/ Finish(w)) /\ UNCHANGED schedVars
    \/ MutexFree /\ Phantom(w, Len(m_queue)) /\ UNCHANGED schedVars
    \/ Next_Pop(w) \/ Next_None(w) \/ Next_Block(w) \/ Next_Sleep(w)

Shutdown ==
    \/ (ShutdownCall \/ WatcherStop \/ RequestStop \/ PostStop \/ Join \/ ClearShards
        \/ ResetScheduler) /\ UNCHANGED schedVars
    \/ SchedStop \/ NotifyAll

WaitForIdle ==
    \/ (IdleCall \/ IdleProgress) /\ UNCHANGED schedVars
    \/ MutexFree /\ IdleSize(Len(m_queue)) /\ UNCHANGED schedVars

Next ==
    \/ \E t \in Tasks : Submit(t)
    \/ \E w \in Workers : WorkerLoop(w)
    \/ \E w \in Workers : SpuriousWake(w)
    \/ \E w \in Workers : WatcherStops(w) /\ UNCHANGED schedVars
    \/ \E min \in TaskMins : SetTaskRange(min) /\ UNCHANGED schedVars
    \/ Shutdown
    \/ WaitForIdle

(* Every thread that can run does run (the mutex is not starved: strong       *)
(* fairness on the step that takes it); nobody has to call shutdown(), and    *)
(* no spurious wake-up has to come.                                           *)
Fairness ==
    /\ \A t \in Tasks : SF_vars(Submit(t) /\ Submitting(t))
    /\ \A w \in Workers : SF_vars(WorkerLoop(w))
    /\ WF_vars(Shutdown /\ dpc # "idle")

Spec == Init /\ [][Next]_vars
FairSpec == Spec /\ Fairness

-----------------------------------------------------------------------------
(* Properties *)

Holding == {"claim", "begin", "run", "finish"}
HasToken == {"woken", "next", "block", "cv", "phantom", "repost"}

(* A task is executed at most once: its id is in the queue at most once, at most one      *)
(* worker holds it and then the queue does not, a closure that is claimed is gone from    *)
(* the map, and a worker about to call it finds the future still pending (a packaged_task *)
(* called twice throws).  enqueue(), next() and the claim in workerLoop().                *)
AtMostOnce ==
    /\ \A i, j \in DOMAIN m_queue : m_queue[i] = m_queue[j] => i = j
    /\ \A w \in Workers : wpc[w] \in Holding =>
         /\ \A i \in DOMAIN m_queue : m_queue[i] # wtask[w]
         /\ \A v \in Workers : v # w /\ wpc[v] \in Holding => wtask[v] # wtask[w]
         /\ wpc[w] \in {"begin", "run"} => /\ wtask[w] \notin m_taskShards
                                           /\ future[wtask[w]] = "pending"

(* Until a worker is told to stop no wake-up is lost: the semaphore's value, the workers holding *)
(* a token they have not yet used on a task and the submits that queued a task but have   *)
(* not posted add up to at least the queue's length.  submit() posts after enqueue().     *)
TokenCoverage ==
    (\A w \in Workers : ~stopReq[w]) =>
        Len(m_queue) <= m_workSemaphore
                        + Cardinality({w \in Workers : wpc[w] \in HasToken})
                        + Cardinality({t \in Tasks \ Foreign : spc[t] \in {"notify", "post"}})

(* shutdown() drops the scheduler only after it joined every worker, so no worker calls    *)
(* through the null pointer, and what it leaves behind is a pool nobody works for.         *)
JoinedBeforeReset ==
    /\ \A w \in Workers : wpc[w] # "exited" => m_scheduler
    /\ dpc \in {"clear", "reset", "returned"} => \A w \in Workers : wpc[w] = "exited"

(* Once waitForIdle() saw size() = 0, none of the tasks accepted before the call is left   *)
(* in the queue, however submits and workers interleave with its polls.                    *)
IdleDrained ==
    ipc \in {"progress", "returned"} /\ dpc # "returned" =>
        \A i \in DOMAIN m_queue : m_queue[i] \notin seen

(* With clients that do not let submit() overlap shutdown(), nobody calls through the null *)
(* scheduler pointer and no accepted task is left pending in a pool that was shut down.    *)
NoStragglers ==
    ~RacingSubmit =>
        /\ \A t \in Tasks : spc[t] # "crashed"
        /\ dpc = "returned" => \A t \in Tasks : future[t] # "pending"

(* An accepted task is executed unless the pool is shut down or the watcher stops a worker. *)
AcceptedRuns ==
    \A t \in Plain : spc[t] = "accepted" ~>
        (future[t] = "ready" \/ m_stopping \/ \E w \in Workers : stopReq[w])

(* shutdown() returns: every worker wakes up, notices its stop token and is joined.  Not    *)
(* promised when a descriptor was dropped: its token brings a worker into next() with an    *)
(* empty queue, where stop(), which notifies without the mutex, can miss it.                *)
ShutdownReturns ==
    m_stopping ~> (dpc = "returned" \/ \E t \in Foreign : spc[t] = "accepted")

-----------------------------------------------------------------------------
(* What the repository's tests and comments say, and the code does not do *)

(* A worker that is not stuck is left alone by the watcher, so an accepted task runs.       *)
AcceptedAlwaysRuns == \A t \in Plain : spc[t] = "accepted" ~> (future[t] = "ready" \/ m_stopping)

(* shutdown() returns, dropped descriptors or not.                                          *)
ShutdownAlwaysReturns == m_stopping ~> dpc = "returned"

(* waitForIdle() returned: every task accepted before the call has finished.               *)
IdleMeansDone ==
    ipc = "returned" /\ ~m_stopping => \A t \in seen : future[t] = "ready"

=============================================================================
