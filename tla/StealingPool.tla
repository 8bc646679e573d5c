---------------------------- MODULE StealingPool ----------------------------
(***************************************************************************)
(* ThreadPool driven by JobWorkStealingScheduler: one bounded queue per    *)
(* worker and a count of the queued tasks kept beside them.  The queues    *)
(* are JobBoundedMPMCQueues, used here as the atomic bounded buffers that  *)
(* MPMCQueue shows them to be: a push waits for room, a tryPop does not.   *)
(*                                                                         *)
(* The count is a size_t that is raised after the push and lowered after   *)
(* the pop, so it can be behind the queues in either direction; it wraps   *)
(* at Modulus (2^64 in the code).                                          *)
(***************************************************************************)
EXTENDS ThreadPool, Sequences

CONSTANTS Cap, Modulus

(* A size_t counts more than the queues and the workers' hands can hold. *)
ASSUME StealingAssumption ==
    /\ Cap \in Nat \ {0}
    /\ Modulus \in Nat /\ NumWorkers * (Cap + 1) < Modulus

VARIABLES
    m_queue,            \* per worker: its queue, oldest first
    m_closed,           \* per worker: its queue is closed
    m_totalSize,        \* the count of queued tasks, modulo Modulus
    m_submitCounter,    \* the round-robin target of the next enqueue()
    m_stopped,          \* ISchedPolicy::m_stopped
    target,             \* per task: the queue its enqueue() picked
    scan                \* per worker: how far its walk over the queues is

schedVars == <<m_queue, m_closed, m_totalSize, m_submitCounter, m_stopped, target, scan>>
vars == <<poolVars, schedVars>>

TypeOK ==
    /\ PoolTypeOK
    /\ m_queue \in [Workers -> Seq(Tasks)] /\ \A w \in Workers : Len(m_queue[w]) <= Cap
    /\ m_closed \in [Workers -> BOOLEAN]
    /\ m_totalSize \in 0 .. Modulus - 1
    /\ m_submitCounter \in Workers
    /\ m_stopped \in BOOLEAN
    /\ target \in [Tasks -> Workers]
    /\ scan \in [Workers -> Workers]

Init ==
    /\ PoolInit
    /\ m_queue = [w \in Workers |-> << >>]
    /\ m_closed = [w \in Workers |-> FALSE]
    /\ m_totalSize = 0 /\ m_submitCounter = 0
    /\ m_stopped = FALSE
    /\ target = [t \in Tasks |-> 0]
    /\ scan = [w \in Workers |-> 0]

-----------------------------------------------------------------------------
(* enqueue(): the tests and the pick of the target queue. *)
EnqueuePick(t) ==
    /\ spc[t] = "enqueue"
    /\ IF ~m_scheduler \/ m_stopped \/ t \in Foreign
         THEN /\ GoSubmit(t, IF m_scheduler THEN "post" ELSE "crashed")
              /\ UNCHANGED <<target, m_submitCounter>>
         ELSE /\ GoSubmit(t, "push")
              /\ target' = [target EXCEPT ![t] = m_submitCounter]
              /\ m_submitCounter' = (m_submitCounter + 1) % NumWorkers
    /\ UNCHANGED <<m_taskShards, future, m_queue, m_closed, m_totalSize, m_stopped, scan>>
    /\ SubmitFrame

(* push(): blocks while the queue is open and full, fails when it is closed. *)
EnqueuePush(t) ==
    /\ spc[t] = "push"
    /\ \/ /\ m_closed[target[t]]
          /\ GoSubmit(t, "post") /\ UNCHANGED m_queue
       \/ /\ ~m_closed[target[t]] /\ Len(m_queue[target[t]]) < Cap
          /\ m_queue' = [m_queue EXCEPT ![target[t]] = Append(@, t)]
          /\ GoSubmit(t, "count")
    /\ UNCHANGED <<m_taskShards, future, m_closed, m_totalSize, m_submitCounter, m_stopped, target, scan>>
    /\ SubmitFrame

EnqueueCount(t) ==
    /\ spc[t] = "count"
    /\ m_totalSize' = (m_totalSize + 1) % Modulus
    /\ GoSubmit(t, "post")
    /\ UNCHANGED <<m_taskShards, future, m_queue, m_closed, m_submitCounter, m_stopped, target, scan>>
    /\ SubmitFrame

-----------------------------------------------------------------------------
(* next(): the test of the count, then one tryPop() per queue, the own one first. *)
Next_Empty(w) ==
    /\ wpc[w] = "next" /\ m_totalSize = 0
    /\ GotNone(w)
    /\ UNCHANGED schedVars

Next_Start(w) ==
    /\ wpc[w] = "next" /\ m_totalSize # 0
    /\ Go(w, "scan") /\ scan' = [scan EXCEPT ![w] = 0]
    /\ UNCHANGED <<m_workSemaphore, m_taskShards, m_progress, wtask, future, m_queue, m_closed,
                   m_totalSize, m_submitCounter, m_stopped, target>>
    /\ WorkerFrame

Victim(w) == (w + scan[w]) % NumWorkers

(* Mutant: the front is read and left in the queue. *)
Next_Pop_Peek(w) ==
    /\ wpc[w] = "scan" /\ m_queue[Victim(w)] # << >>
    /\ wtask' = [wtask EXCEPT ![w] = Head(m_queue[Victim(w)])]
    /\ Go(w, "sub")
    /\ UNCHANGED <<m_workSemaphore, m_taskShards, m_progress, future, schedVars>>
    /\ WorkerFrame

(* Mutant: a stolen task is not counted down. *)
Next_Pop_StealUncounted(w) ==
    /\ wpc[w] = "scan" /\ m_queue[Victim(w)] # << >>
    /\ m_queue' = [m_queue EXCEPT ![Victim(w)] = Tail(@)]
    /\ wtask' = [wtask EXCEPT ![w] = Head(m_queue[Victim(w)])]
    /\ Go(w, IF scan[w] = 0 THEN "sub" ELSE "claim")
    /\ UNCHANGED <<m_workSemaphore, m_taskShards, m_progress, future, m_closed, m_totalSize,
                   m_submitCounter, m_stopped, target, scan>>
    /\ WorkerFrame

Next_Pop(w) ==
    /\ wpc[w] = "scan" /\ m_queue[Victim(w)] # << >>
    /\ m_queue' = [m_queue EXCEPT ![Victim(w)] = Tail(@)]
    /\ wtask' = [wtask EXCEPT ![w] = Head(m_queue[Victim(w)])]
    /\ Go(w, "sub")
    /\ UNCHANGED <<m_workSemaphore, m_taskShards, m_progress, future, m_closed, m_totalSize,
                   m_submitCounter, m_stopped, target, scan>>
    /\ WorkerFrame

Next_Miss(w) ==
    /\ wpc[w] = "scan" /\ m_queue[Victim(w)] = << >>
    /\ IF scan[w] + 1 = NumWorkers
         THEN Go(w, "phantom") /\ UNCHANGED scan
         ELSE scan' = [scan EXCEPT ![w] = @ + 1] /\ UNCHANGED wpc
    /\ UNCHANGED <<m_workSemaphore, m_taskShards, m_progress, wtask, future, m_queue, m_closed,
                   m_totalSize, m_submitCounter, m_stopped, target>>
    /\ WorkerFrame

Next_Sub(w) ==
    /\ wpc[w] = "sub"
    /\ m_totalSize' = (m_totalSize - 1) % Modulus
    /\ Go(w, "claim")
    /\ UNCHANGED <<m_workSemaphore, m_taskShards, m_progress, wtask, future, m_queue, m_closed,
                   m_submitCounter, m_stopped, target, scan>>
    /\ WorkerFrame

(* stop(): the flag, then close() on one queue after the other. *)
SchedStop ==
    /\ dpc = "sched" /\ dpc' = "notify"
    /\ m_stopped' = TRUE
    /\ UNCHANGED <<m_stopping, m_scheduler, m_watcher, di, m_workSemaphore, m_taskShards, stopReq,
                   future, m_queue, m_closed, m_totalSize, m_submitCounter, target, scan>>
    /\ ShutdownFrame

CloseQueue ==
    /\ LoopStep("notify", "request")
    /\ m_closed' = [m_closed EXCEPT ![di] = TRUE]
    /\ UNCHANGED <<m_stopping, m_scheduler, m_watcher, m_workSemaphore, m_taskShards, stopReq,
                   future, m_queue, m_totalSize, m_submitCounter, m_stopped, target, scan>>
    /\ ShutdownFrame

-----------------------------------------------------------------------------
Submit(t) ==
    \/ (SubmitPriority(t) \/ CreateDescriptor(t) \/ SubmitDescriptor(t) \/ Admit(t)
        \/ Register(t) \/ Post(t)) /\ UNCHANGED schedVars
    \/ EnqueuePick(t) \/ EnqueuePush(t) \/ EnqueueCount(t)

WorkerLoop(w) ==
    \/ (LoopTop(w) \/ SemWait(w) \/ Woken(w) \/ Claim(w) \/ Repost(w) \/ Begin(w) \/ Run(w)
        \/ Finish(w) \/ Phantom(w, m_totalSize)) /\ UNCHANGED schedVars
    \/ Next_Empty(w) \/ Next_Start(w) \/ Next_Pop(w) \/ Next_Miss(w) \/ Next_Sub(w)

Shutdown ==
    \/ (ShutdownCall \/ WatcherStop \/ RequestStop \/ PostStop \/ Join \/ ClearShards
        \/ ResetScheduler) /\ UNCHANGED schedVars
    \/ SchedStop \/ CloseQueue

WaitForIdle == (IdleCall \/ IdleProgress \/ IdleSize(m_totalSize)) /\ UNCHANGED schedVars

Next ==
    \/ \E t \in Tasks : Submit(t)
    \/ \E w \in Workers : WorkerLoop(w)
    \/ \E w \in Workers : WatcherStops(w) /\ UNCHANGED schedVars
    \/ \E min \in TaskMins : SetTaskRange(min) /\ UNCHANGED schedVars
    \/ Shutdown
    \/ WaitForIdle

(* As in FifoPool.  A submit that waits for room competes with others for it. *)
Fairness ==
    /\ \A t \in Tasks : SF_vars(Submit(t) /\ Submitting(t))
    /\ \A w \in Workers : SF_vars(WorkerLoop(w))
    /\ WF_vars(Shutdown /\ dpc # "idle")

Spec == Init /\ [][Next]_vars
FairSpec == Spec /\ Fairness

-----------------------------------------------------------------------------
(* Properties *)

Holding == {"sub", "claim", "begin", "run", "finish"}
HasToken == {"woken", "next", "scan", "phantom", "repost"}
Slots == {p \in Workers \X (1 .. Cap) : p[2] <= Len(m_queue[p[1]])}
Queued == Cardinality(Slots)

(* A task is executed at most once: it sits in one slot of one queue, or one worker took  *)
(* it and no queue has it any more; and who is about to call its closure finds the future *)
(* pending.  Owner and thieves call tryPop() on the same queues.                          *)
AtMostOnce ==
    /\ \A p, q \in Slots : m_queue[p[1]][p[2]] = m_queue[q[1]][q[2]] => p = q
    /\ \A w \in Workers : wpc[w] \in Holding =>
         /\ \A p \in Slots : m_queue[p[1]][p[2]] # wtask[w]
         /\ \A v \in Workers : v # w /\ wpc[v] \in Holding => wtask[v] # wtask[w]
         /\ wpc[w] \in {"begin", "run"} => future[wtask[w]] = "pending"

(* m_totalSize is exact up to the calls in flight: what is queued is what was counted,    *)
(* plus the pushes not yet counted, minus the pops not yet counted down.                  *)
SizeAccounting ==
    Queued = (m_totalSize + Cardinality({t \in Tasks : spc[t] = "count"})
                          - Cardinality({w \in Workers : wpc[w] = "sub"})) % Modulus

(* While every token stands for a queued task (no dropped descriptor has posted one) the  *)
(* count never goes below zero, although a worker may pop a task not counted yet.         *)
CountNeverWraps ==
    ~m_stopped /\ (\A t \in Foreign : spc[t] # "accepted") => m_totalSize <= Cardinality(Tasks)

(* Until a worker is told to stop no wake-up is lost, although next() may miss a task     *)
(* that was pushed behind its walk: the token is then posted again ("Phantom Wakeup"),    *)
(* or the push it missed has still to post.                                               *)
TokenCoverage ==
    (\A w \in Workers : ~stopReq[w]) =>
        Queued <= m_workSemaphore
                  + Cardinality({w \in Workers : wpc[w] \in HasToken})
                  + Cardinality({t \in Tasks \ Foreign : spc[t] \in {"count", "post"}})

(* An accepted task is executed unless the pool is shut down or the watcher stops workers. *)
AcceptedRuns ==
    \A t \in Plain : spc[t] = "accepted" ~>
        (future[t] = "ready" \/ m_stopping \/ \E w \in Workers : stopReq[w])

(* shutdown() returns.                                                                    *)
ShutdownReturns == m_stopping ~> dpc = "returned"

=============================================================================
