--------------------------- MODULE FifoPoolProofs ---------------------------
(***************************************************************************)
(* Proofs about FifoPool for every number of workers and every set of      *)
(* tasks.                                                                  *)
(***************************************************************************)
EXTENDS FifoPool, FiniteSetTheorems, TLAPS

(* What the variables may hold, one block per pool action. *)
LEMMA SubmitType ==
    ASSUME TypeOK, NEW t \in Tasks, Submit(t)
    PROVE  TypeOK'
<1> USE DEF TypeOK, PoolTypeOK, SubmitPC, FutureState, GoSubmit, SubmitFrame, ctlVars, workerVars,
            idleVars, schedVars
<1>1. CASE SubmitPriority(t) /\ UNCHANGED schedVars
  BY <1>1 DEF SubmitPriority
<1>2. CASE CreateDescriptor(t) /\ UNCHANGED schedVars
  BY <1>2 DEF CreateDescriptor
<1>3. CASE SubmitDescriptor(t) /\ UNCHANGED schedVars
  BY <1>3 DEF SubmitDescriptor
<1>4. CASE Admit(t) /\ UNCHANGED schedVars
  BY <1>4 DEF Admit
<1>5. CASE Register(t) /\ UNCHANGED schedVars
  BY <1>5 DEF Register
<1>6. CASE Post(t) /\ UNCHANGED schedVars
  BY <1>6 DEF Post
<1>7. CASE EnqueueCheck(t)
  BY <1>7 DEF EnqueueCheck
<1>8. CASE EnqueuePush(t)
  BY <1>8 DEF EnqueuePush
<1>9. CASE NotifyOne(t)
  BY <1>9 DEF NotifyOne, Sleepers, Go, WorkerPC
<1>10. QED
  BY <1>1, <1>2, <1>3, <1>4, <1>5, <1>6, <1>7, <1>8, <1>9 DEF Submit

(* A step of workerLoop() keeps the types; SemWait takes a token only when there is one. *)
LEMMA WorkerType ==
    ASSUME TypeOK, NEW w \in Workers, WorkerLoop(w) \/ SpuriousWake(w)
    PROVE  TypeOK'
<1> USE DEF TypeOK, PoolTypeOK, WorkerPC, Go, WorkerFrame, ctlVars, idleVars, schedVars
<1>1. CASE LoopTop(w) /\ UNCHANGED schedVars
  BY <1>1 DEF LoopTop
<1>2. CASE SemWait(w) /\ UNCHANGED schedVars
  BY <1>2 DEF SemWait
<1>3. CASE Woken(w) /\ UNCHANGED schedVars
  BY <1>3 DEF Woken
<1>4. CASE Claim(w) /\ UNCHANGED schedVars
  BY <1>4 DEF Claim
<1>5. CASE Repost(w) /\ UNCHANGED schedVars
  BY <1>5 DEF Repost
<1>6. CASE Begin(w) /\ UNCHANGED schedVars
  BY <1>6 DEF Begin
<1>7. CASE Run(w) /\ UNCHANGED schedVars
  BY <1>7 DEF Run, FutureState
<1>8. CASE Finish(w) /\ UNCHANGED schedVars
  BY <1>8 DEF Finish
<1>9. CASE Phantom(w, Len(m_queue)) /\ UNCHANGED schedVars
  BY <1>9 DEF Phantom
<1>10. CASE Next_Pop(w)
  BY <1>10 DEF Next_Pop, GotTask
<1>11. CASE Next_None(w)
  BY <1>11 DEF Next_None, GotNone
<1>12. CASE Next_Block(w)
  BY <1>12 DEF Next_Block
<1>13. CASE Next_Sleep(w)
  BY <1>13 DEF Next_Sleep
<1>14. CASE SpuriousWake(w)
  BY <1>14 DEF SpuriousWake
<1>15. QED
  BY <1>1, <1>2, <1>3, <1>4, <1>5, <1>6, <1>7, <1>8, <1>9, <1>10, <1>11, <1>12, <1>13, <1>14
     DEF WorkerLoop

(* A step of shutdown() keeps the types; LoopStep keeps the index below NumWorkers. *)
LEMMA ShutdownType ==
    ASSUME TypeOK, Shutdown
    PROVE  TypeOK'
<1> USE DEF TypeOK, PoolTypeOK, ShutdownPC, ShutdownFrame, workerVars, idleVars, schedVars
<1>0. NumWorkers \in Nat \ {0}
  BY PoolAssumption
<1>1. CASE ShutdownCall /\ UNCHANGED schedVars
  BY <1>1 DEF ShutdownCall
<1>2. CASE WatcherStop /\ UNCHANGED schedVars
  BY <1>2 DEF WatcherStop
<1>3. CASE RequestStop /\ UNCHANGED schedVars
  BY <1>0, <1>3 DEF RequestStop, LoopStep, Workers
<1>4. CASE PostStop /\ UNCHANGED schedVars
  BY <1>0, <1>4 DEF PostStop, LoopStep, Workers
<1>5. CASE Join /\ UNCHANGED schedVars
  BY <1>0, <1>5 DEF Join, LoopStep, Workers
<1>6. CASE ClearShards /\ UNCHANGED schedVars
  BY <1>6 DEF ClearShards, FutureState
<1>7. CASE ResetScheduler /\ UNCHANGED schedVars
  BY <1>7 DEF ResetScheduler
<1>8. CASE SchedStop
  BY <1>8 DEF SchedStop
<1>9. CASE NotifyAll
  BY <1>9 DEF NotifyAll, WorkerPC
<1>10. QED
  BY <1>1, <1>2, <1>3, <1>4, <1>5, <1>6, <1>7, <1>8, <1>9 DEF Shutdown

(* A poll of waitForIdle() keeps the types. *)
LEMMA WaitForIdleType ==
    ASSUME TypeOK, WaitForIdle
    PROVE  TypeOK'
<1> USE DEF TypeOK, PoolTypeOK, IdlePC, IdleFrame, ctlVars, workerVars, schedVars
<1>1. CASE IdleCall /\ UNCHANGED schedVars
  BY <1>1 DEF IdleCall
<1>2. CASE IdleProgress /\ UNCHANGED schedVars
  BY <1>2 DEF IdleProgress
<1>3. CASE IdleSize(Len(m_queue)) /\ UNCHANGED schedVars
  BY <1>3 DEF IdleSize
<1>4. QED
  BY <1>1, <1>2, <1>3 DEF WaitForIdle

(* Every step of the pool and its scheduler keeps the variables in their types: the       *)
(* semaphore never goes below zero and shutdown()'s loop index never runs past m_workers. *)
THEOREM TypeCorrect == Spec => []TypeOK
<1>1. Init => TypeOK
  <2> SUFFICES ASSUME Init PROVE TypeOK
    OBVIOUS
  <2> USE DEF Init, PoolInit
  <2>1. di \in Workers
    BY PoolAssumption DEF Workers
  <2>2. spc \in [Tasks -> SubmitPC] /\ future \in [Tasks -> FutureState]
    BY DEF SubmitPC, FutureState
  <2>3. wpc \in [Workers -> WorkerPC] /\ wtask \in [Workers -> Tasks \cup {NoTask}]
    BY DEF WorkerPC
  <2>4. m_queue \in Seq(Tasks) /\ stopReq \in [Workers -> BOOLEAN]
    OBVIOUS
  <2>5. QED
    BY <2>1, <2>2, <2>3, <2>4 DEF TypeOK, PoolTypeOK, ShutdownPC, IdlePC
<1>2. TypeOK /\ [Next]_vars => TypeOK'
  <2> SUFFICES ASSUME TypeOK, [Next]_vars PROVE TypeOK'
    OBVIOUS
  <2>1. CASE \E t \in Tasks : Submit(t)
    BY <2>1, SubmitType
  <2>2. CASE \E w \in Workers : WorkerLoop(w) \/ SpuriousWake(w)
    BY <2>2, WorkerType
  <2>3. CASE \E w \in Workers : WatcherStops(w) /\ UNCHANGED schedVars
    BY <2>3 DEF WatcherStops, TypeOK, PoolTypeOK, ctlVars, workerVars, idleVars, schedVars
  <2>4. CASE \E min \in TaskMins : SetTaskRange(min) /\ UNCHANGED schedVars
    BY <2>4, PoolAssumption DEF SetTaskRange, TypeOK, PoolTypeOK, ctlVars, workerVars, idleVars,
       schedVars
  <2>5. CASE Shutdown
    BY <2>5, ShutdownType
  <2>6. CASE WaitForIdle
    BY <2>6, WaitForIdleType
  <2>7. CASE UNCHANGED vars
    BY <2>7 DEF vars, poolVars, schedVars, TypeOK, PoolTypeOK
  <2>8. QED
    BY <2>1, <2>2, <2>3, <2>4, <2>5, <2>6, <2>7 DEF Next
<1>3. QED
  BY <1>1, <1>2, PTL DEF Spec

-----------------------------------------------------------------------------
(* The inductive invariant behind AtMostOnce and JoinedBeforeReset.  A task that is not  *)
(* yet pushed is neither queued nor held, which is why a push cannot duplicate it; the   *)
(* closures in the map have pending futures, which is why a claimed one is still to run; *)
(* and the join loop has seen every worker below di exit, which nobody undoes.           *)
NotYetPushed == {"start", "create", "check", "admit", "register", "enqueue", "push"}
NotYetRegistered == {"start", "create", "check", "admit", "register"}

QueueOnce == \A i, j \in 1 .. Len(m_queue) : m_queue[i] = m_queue[j] => i = j
HeldNotQueued ==
    \A w \in Workers : wpc[w] \in Holding =>
        wtask[w] \in Tasks /\ \A i \in 1 .. Len(m_queue) : m_queue[i] # wtask[w]
HeldOnce ==
    \A w, v \in Workers :
        v # w /\ wpc[w] \in Holding /\ wpc[v] \in Holding => wtask[v] # wtask[w]
Unpushed ==
    \A t \in Tasks : spc[t] \in NotYetPushed =>
        /\ \A i \in 1 .. Len(m_queue) : m_queue[i] # t
        /\ \A w \in Workers : wpc[w] \in Holding => wtask[w] # t
Unregistered == \A t \in Tasks : spc[t] \in NotYetRegistered => t \notin m_taskShards
MapPending == \A t \in m_taskShards : future[t] = "pending"
ClaimedPending ==
    \A w \in Workers : wpc[w] \in {"begin", "run"} =>
        wtask[w] \notin m_taskShards /\ future[wtask[w]] = "pending"

OnceInv == /\ QueueOnce /\ HeldNotQueued /\ HeldOnce /\ Unpushed
           /\ Unregistered /\ MapPending /\ ClaimedPending

JoinInv ==
    /\ dpc = "join" => \A w \in Workers : w < di => wpc[w] = "exited"
    /\ dpc \in {"clear", "reset", "returned"} => \A w \in Workers : wpc[w] = "exited"
    /\ ~m_scheduler => dpc = "returned"

(* A step that touches neither the queue, the map nor a future, and moves no worker into *)
(* and no submit back into the regions the invariant speaks of, keeps it.                *)
LEMMA Quiet ==
    ASSUME OnceInv, UNCHANGED <<m_queue, m_taskShards, future>>,
           \A w \in Workers : wpc'[w] \in Holding => wpc[w] \in Holding /\ wtask'[w] = wtask[w],
           \A w \in Workers : wpc'[w] \in {"begin", "run"} => wpc[w] \in {"begin", "run"},
           \A t \in Tasks : spc'[t] \in NotYetPushed => spc[t] \in NotYetPushed,
           \A t \in Tasks : spc'[t] \in NotYetRegistered => spc[t] \in NotYetRegistered
    PROVE  OnceInv'
<1>1. QueueOnce' /\ MapPending'
  BY DEF OnceInv, QueueOnce, MapPending
<1>2. HeldNotQueued' /\ HeldOnce'
  BY DEF OnceInv, HeldNotQueued, HeldOnce
<1>3. Unpushed'
  BY DEF OnceInv, Unpushed
<1>4. Unregistered'
  BY DEF OnceInv, Unregistered
<1>5. ClaimedPending'
  <2>1. \A w \in Workers : wpc'[w] \in {"begin", "run"} => wtask'[w] = wtask[w]
    BY DEF Holding
  <2>2. QED
    BY <2>1 DEF OnceInv, ClaimedPending
<1>6. QED
  BY <1>1, <1>2, <1>3, <1>4, <1>5 DEF OnceInv

(* submit(): Register and EnqueuePush are the steps that put a task somewhere. *)
LEMMA SubmitOnce ==
    ASSUME TypeOK, OnceInv, NEW t \in Tasks, Submit(t)
    PROVE  OnceInv'
<1> USE DEF GoSubmit, SubmitFrame, ctlVars, workerVars, idleVars, schedVars
<1>0. spc \in [Tasks -> SubmitPC] /\ wpc \in [Workers -> WorkerPC] /\ m_queue \in Seq(Tasks)
  BY DEF TypeOK, PoolTypeOK
<1>1. CASE UNCHANGED <<m_queue, m_taskShards, future, wpc, wtask>>
           /\ (spc[t] \notin NotYetPushed => spc'[t] \notin NotYetPushed)
           /\ (spc[t] \notin NotYetRegistered => spc'[t] \notin NotYetRegistered)
           /\ \E pc \in SubmitPC : GoSubmit(t, pc)
  BY <1>0, <1>1, Quiet
<1>2. CASE SubmitPriority(t) /\ UNCHANGED schedVars
  BY <1>0, <1>1, <1>2 DEF SubmitPriority, NotYetPushed, NotYetRegistered, SubmitPC
<1>3. CASE CreateDescriptor(t) /\ UNCHANGED schedVars
  BY <1>0, <1>1, <1>3 DEF CreateDescriptor, NotYetPushed, NotYetRegistered, SubmitPC
<1>4. CASE SubmitDescriptor(t) /\ UNCHANGED schedVars
  BY <1>0, <1>1, <1>4 DEF SubmitDescriptor, NotYetPushed, NotYetRegistered, SubmitPC
<1>5. CASE Admit(t) /\ UNCHANGED schedVars
  BY <1>0, <1>1, <1>5 DEF Admit, NotYetPushed, NotYetRegistered, SubmitPC
<1>6. CASE Register(t) /\ UNCHANGED schedVars
  <2>1. /\ UNCHANGED <<m_queue, wpc, wtask>>
        /\ m_taskShards' = m_taskShards \cup {t} /\ future' = [future EXCEPT ![t] = "pending"]
        /\ spc[t] = "register" /\ spc' = [spc EXCEPT ![t] = "enqueue"]
    BY <1>6 DEF Register
  <2>2. QueueOnce' /\ HeldNotQueued' /\ HeldOnce'
    BY <2>1 DEF OnceInv, QueueOnce, HeldNotQueued, HeldOnce
  <2>3. Unpushed' /\ Unregistered'
    BY <1>0, <2>1 DEF OnceInv, Unpushed, Unregistered, NotYetPushed, NotYetRegistered
  <2>4. MapPending'
    BY <2>1 DEF OnceInv, MapPending, TypeOK, PoolTypeOK
  <2>5. ClaimedPending'
    <3>1. \A w \in Workers : wpc[w] \in Holding => wtask[w] # t
      BY <2>1 DEF OnceInv, Unpushed, NotYetPushed
    <3>2. \A w \in Workers : wpc[w] \in {"begin", "run"} => wtask[w] # t /\ wtask[w] \in Tasks
      BY <3>1 DEF Holding, OnceInv, HeldNotQueued
    <3>3. QED
      BY <2>1, <3>2 DEF OnceInv, ClaimedPending, TypeOK, PoolTypeOK
  <2>6. QED
    BY <2>2, <2>3, <2>4, <2>5 DEF OnceInv
<1>7. CASE Post(t) /\ UNCHANGED schedVars
  BY <1>0, <1>1, <1>7 DEF Post, NotYetPushed, NotYetRegistered, SubmitPC
<1>8. CASE EnqueueCheck(t)
  <2>1. spc[t] = "enqueue" /\ UNCHANGED <<m_queue, m_taskShards, future, wpc, wtask>>
    BY <1>8 DEF EnqueueCheck
  <2>2. \E pc \in {"crashed", "post", "push"} : spc' = [spc EXCEPT ![t] = pc]
    BY <1>8 DEF EnqueueCheck
  <2>3. QED
    BY <1>0, <1>1, <2>1, <2>2 DEF NotYetPushed, NotYetRegistered, SubmitPC
<1>9. CASE EnqueuePush(t)
  <2>1. /\ UNCHANGED <<m_taskShards, future, wpc, wtask>>
        /\ m_queue' = Append(m_queue, t)
        /\ spc[t] = "push" /\ spc' = [spc EXCEPT ![t] = "notify"]
    BY <1>9 DEF EnqueuePush
  <2>2. /\ Len(m_queue') = Len(m_queue) + 1 /\ m_queue'[Len(m_queue) + 1] = t
        /\ \A i \in 1 .. Len(m_queue) : m_queue'[i] = m_queue[i]
        /\ Len(m_queue) \in Nat
    BY <1>0, <2>1
  <2>3. /\ \A i \in 1 .. Len(m_queue) : m_queue[i] # t
        /\ \A w \in Workers : wpc[w] \in Holding => wtask[w] # t
    BY <2>1 DEF OnceInv, Unpushed, NotYetPushed
  <2>4. QueueOnce'
    BY <2>2, <2>3 DEF OnceInv, QueueOnce
  <2>5. HeldNotQueued' /\ HeldOnce'
    BY <2>1, <2>2, <2>3 DEF OnceInv, HeldNotQueued, HeldOnce
  <2>6. Unpushed' /\ Unregistered'
    BY <1>0, <2>1, <2>2 DEF OnceInv, Unpushed, Unregistered, NotYetPushed, NotYetRegistered
  <2>7. MapPending' /\ ClaimedPending'
    BY <2>1 DEF OnceInv, MapPending, ClaimedPending
  <2>8. QED
    BY <2>4, <2>5, <2>6, <2>7 DEF OnceInv
<1>10. CASE NotifyOne(t)
  <2>1. /\ UNCHANGED <<m_queue, m_taskShards, future, wtask>>
        /\ \A s \in Tasks : spc'[s] = spc[s] \/ spc'[s] = "post"
        /\ \A w \in Workers : wpc'[w] = wpc[w] \/ wpc'[w] = "next"
    BY <1>0, <1>10 DEF NotifyOne, Sleepers, Go
  <2>2. QED
    BY <2>1, Quiet DEF Holding, NotYetPushed, NotYetRegistered
<1>11. QED
  BY <1>2, <1>3, <1>4, <1>5, <1>6, <1>7, <1>8, <1>9, <1>10 DEF Submit

(* workerLoop(): Next_Pop moves an id from the queue to one worker, Claim the closure. *)
LEMMA WorkerOnce ==
    ASSUME TypeOK, OnceInv, NEW w \in Workers, WorkerLoop(w) \/ SpuriousWake(w)
    PROVE  OnceInv'
<1> USE DEF Go, WorkerFrame, ctlVars, idleVars, schedVars
<1>0. /\ wpc \in [Workers -> WorkerPC] /\ wtask \in [Workers -> Tasks \cup {NoTask}]
      /\ m_queue \in Seq(Tasks) /\ future \in [Tasks -> FutureState] /\ m_taskShards \subseteq Tasks
  BY DEF TypeOK, PoolTypeOK
<1>1. ASSUME UNCHANGED <<m_queue, m_taskShards, future, wtask, spc>>,
             NEW pc, pc \notin Holding, wpc' = [wpc EXCEPT ![w] = pc]
      PROVE  OnceInv'
  BY <1>0, <1>1, Quiet DEF Holding
<1>2. CASE LoopTop(w) /\ UNCHANGED schedVars
  BY <1>1, <1>2 DEF LoopTop, Holding
<1>3. CASE SemWait(w) /\ UNCHANGED schedVars
  BY <1>1, <1>3 DEF SemWait, Holding
<1>4. CASE Woken(w) /\ UNCHANGED schedVars
  BY <1>1, <1>4 DEF Woken, Holding
<1>5. CASE Claim(w) /\ UNCHANGED schedVars
  <2>1. CASE wtask[w] \notin m_taskShards
    <3>1. /\ UNCHANGED <<m_queue, m_taskShards, future, spc>>
          /\ wpc' = [wpc EXCEPT ![w] = "top"] /\ wtask' = [wtask EXCEPT ![w] = NoTask]
      BY <1>5, <2>1 DEF Claim
    <3>2. QED
      BY <1>0, <3>1, Quiet DEF Holding
  <2>2. CASE wtask[w] \in m_taskShards
    <3>1. /\ UNCHANGED <<m_queue, future, spc, wtask>> /\ wpc[w] = "claim"
          /\ wpc' = [wpc EXCEPT ![w] = "begin"] /\ m_taskShards' = m_taskShards \ {wtask[w]}
      BY <1>5, <2>2 DEF Claim
    <3>2. \A v \in Workers : wpc'[v] \in Holding <=> wpc[v] \in Holding
      BY <1>0, <3>1 DEF Holding
    <3>3. QueueOnce' /\ HeldNotQueued' /\ HeldOnce' /\ Unpushed'
      BY <3>1, <3>2 DEF OnceInv, QueueOnce, HeldNotQueued, HeldOnce, Unpushed
    <3>4. Unregistered' /\ MapPending'
      BY <3>1 DEF OnceInv, Unregistered, MapPending
    <3>5. ClaimedPending'
      BY <1>0, <2>2, <3>1 DEF OnceInv, ClaimedPending, MapPending
    <3>6. QED
      BY <3>3, <3>4, <3>5 DEF OnceInv
  <2>3. QED
    BY <2>1, <2>2
<1>6. CASE Repost(w) /\ UNCHANGED schedVars
  BY <1>1, <1>6 DEF Repost, Holding
<1>7. CASE Begin(w) /\ UNCHANGED schedVars
  <2>1. /\ UNCHANGED <<m_queue, m_taskShards, future, spc, wtask>> /\ wpc[w] = "begin"
        /\ wpc' = [wpc EXCEPT ![w] = "run"]
    BY <1>7 DEF Begin
  <2>2. QED
    BY <1>0, <2>1, Quiet DEF Holding
<1>8. CASE Run(w) /\ UNCHANGED schedVars
  <2>1. /\ UNCHANGED <<m_queue, m_taskShards, spc, wtask>> /\ wpc[w] = "run"
        /\ wpc' = [wpc EXCEPT ![w] = "finish"] /\ future' = [future EXCEPT ![wtask[w]] = "ready"]
    BY <1>8 DEF Run
  <2>2. \A v \in Workers : wpc'[v] \in Holding <=> wpc[v] \in Holding
    BY <1>0, <2>1 DEF Holding
  <2>3. QueueOnce' /\ HeldNotQueued' /\ HeldOnce' /\ Unpushed' /\ Unregistered'
    BY <2>1, <2>2 DEF OnceInv, QueueOnce, HeldNotQueued, HeldOnce, Unpushed, Unregistered
  <2>4. MapPending'
    BY <1>0, <2>1 DEF OnceInv, MapPending, ClaimedPending
  <2>5. ClaimedPending'
    <3>1. \A v \in Workers : wpc'[v] \in {"begin", "run"} =>
            v # w /\ wpc[v] \in {"begin", "run"} /\ wtask[v] # wtask[w] /\ wtask[v] \in Tasks
      BY <1>0, <2>1 DEF OnceInv, HeldOnce, HeldNotQueued, Holding
    <3>2. QED
      BY <1>0, <2>1, <3>1 DEF OnceInv, ClaimedPending
  <2>6. QED
    BY <2>3, <2>4, <2>5 DEF OnceInv
<1>9. CASE Finish(w) /\ UNCHANGED schedVars
  <2>1. /\ UNCHANGED <<m_queue, m_taskShards, future, spc>>
        /\ wpc' = [wpc EXCEPT ![w] = "top"] /\ wtask' = [wtask EXCEPT ![w] = NoTask]
    BY <1>9 DEF Finish
  <2>2. QED
    BY <1>0, <2>1, Quiet DEF Holding
<1>10. CASE Phantom(w, Len(m_queue)) /\ UNCHANGED schedVars
  BY <1>1, <1>10 DEF Phantom, Holding
<1>11. CASE Next_Pop(w)
  <2>1. /\ UNCHANGED <<m_taskShards, future, spc>> /\ wpc[w] = "next" /\ m_queue # << >>
        /\ wpc' = [wpc EXCEPT ![w] = "claim"]
        /\ wtask' = [wtask EXCEPT ![w] = Head(m_queue)] /\ m_queue' = Tail(m_queue)
    BY <1>11 DEF Next_Pop, GotTask
  <2>2. /\ Head(m_queue) = m_queue[1] /\ Head(m_queue) \in Tasks
        /\ Len(m_queue) \in Nat \ {0} /\ Len(m_queue') = Len(m_queue) - 1
        /\ \A i \in 1 .. Len(m_queue) - 1 : m_queue'[i] = m_queue[i + 1]
    BY <1>0, <2>1
  <2>3. QueueOnce'
    BY <2>2 DEF OnceInv, QueueOnce
  <2>4. \A i \in 1 .. Len(m_queue') : m_queue'[i] # m_queue[1]
    BY <2>2 DEF OnceInv, QueueOnce
  <2>5. HeldNotQueued'
    BY <1>0, <2>1, <2>2, <2>4 DEF OnceInv, HeldNotQueued, Holding
  <2>6. HeldOnce'
    BY <1>0, <2>1, <2>2 DEF OnceInv, HeldOnce, HeldNotQueued, Holding
  <2>7. Unpushed'
    BY <1>0, <2>1, <2>2 DEF OnceInv, Unpushed, Holding
  <2>8. Unregistered' /\ MapPending'
    BY <2>1 DEF OnceInv, Unregistered, MapPending
  <2>9. ClaimedPending'
    BY <1>0, <2>1 DEF OnceInv, ClaimedPending
  <2>10. QED
    BY <2>3, <2>5, <2>6, <2>7, <2>8, <2>9 DEF OnceInv
<1>12. CASE Next_None(w)
  BY <1>1, <1>12 DEF Next_None, GotNone, Holding
<1>13. CASE Next_Block(w)
  BY <1>1, <1>13 DEF Next_Block, Holding
<1>14. CASE Next_Sleep(w)
  BY <1>1, <1>14 DEF Next_Sleep, Holding
<1>15. CASE SpuriousWake(w)
  BY <1>1, <1>15 DEF SpuriousWake, Holding
<1>16. QED
  BY <1>2, <1>3, <1>4, <1>5, <1>6, <1>7, <1>8, <1>9, <1>10, <1>11, <1>12, <1>13, <1>14, <1>15
     DEF WorkerLoop

(* shutdown(): ClearShards breaks the futures of the closures it destroys. *)
LEMMA ShutdownOnce ==
    ASSUME TypeOK, OnceInv, Shutdown
    PROVE  OnceInv'
<1> USE DEF ShutdownFrame, workerVars, idleVars, schedVars
<1>1. CASE UNCHANGED <<m_queue, m_taskShards, future, wpc, wtask, spc>>
  BY <1>1, Quiet
<1>2. CASE ClearShards /\ UNCHANGED schedVars
  <2>1. /\ UNCHANGED <<m_queue, wpc, wtask, spc>> /\ m_taskShards' = {}
        /\ future' = [t \in Tasks |-> IF t \in m_taskShards THEN "broken" ELSE future[t]]
    BY <1>2 DEF ClearShards
  <2>2. QueueOnce' /\ HeldNotQueued' /\ HeldOnce' /\ Unpushed' /\ Unregistered' /\ MapPending'
    BY <2>1 DEF OnceInv, QueueOnce, HeldNotQueued, HeldOnce, Unpushed, Unregistered, MapPending
  <2>3. ClaimedPending'
    BY <2>1 DEF OnceInv, ClaimedPending, HeldNotQueued, Holding
  <2>4. QED
    BY <2>2, <2>3 DEF OnceInv
<1>3. CASE NotifyAll
  <2>1. /\ UNCHANGED <<m_queue, m_taskShards, future, wtask, spc>>
        /\ \A w \in Workers : wpc'[w] = wpc[w] \/ wpc'[w] = "next"
    BY <1>3 DEF NotifyAll
  <2>2. QED
    BY <2>1, Quiet DEF Holding
<1>4. QED
  BY <1>1, <1>2, <1>3 DEF Shutdown, ShutdownCall, WatcherStop, RequestStop, PostStop, Join,
     ResetScheduler, SchedStop

(* No task is ever executed twice, whatever the number of workers and submitters and    *)
(* however submit(), workerLoop(), the watcher and shutdown() interleave.               *)
THEOREM ExecutedAtMostOnce == Spec => []AtMostOnce
<1>1. Init => OnceInv
  BY DEF Init, PoolInit, OnceInv, QueueOnce, HeldNotQueued, HeldOnce, Unpushed, Unregistered,
     MapPending, ClaimedPending, Holding
<1>2. TypeOK /\ OnceInv /\ [Next]_vars => OnceInv'
  <2> SUFFICES ASSUME TypeOK, OnceInv, [Next]_vars PROVE OnceInv'
    OBVIOUS
  <2>1. CASE UNCHANGED <<m_queue, m_taskShards, future, wpc, wtask, spc>>
    BY <2>1, Quiet
  <2>2. CASE \E t \in Tasks : Submit(t)
    BY <2>2, SubmitOnce
  <2>3. CASE \E w \in Workers : WorkerLoop(w) \/ SpuriousWake(w)
    BY <2>3, WorkerOnce
  <2>4. CASE Shutdown
    BY <2>4, ShutdownOnce
  <2>5. CASE WaitForIdle
    BY <2>1, <2>5 DEF WaitForIdle, IdleCall, IdleProgress, IdleSize, IdleFrame, workerVars, schedVars
  <2>6. CASE \E w \in Workers : WatcherStops(w) /\ UNCHANGED schedVars
    BY <2>1, <2>6 DEF WatcherStops, workerVars, schedVars
  <2>7. CASE \E min \in TaskMins : SetTaskRange(min) /\ UNCHANGED schedVars
    BY <2>1, <2>7 DEF SetTaskRange, workerVars, schedVars
  <2>8. CASE UNCHANGED vars
    BY <2>1, <2>8 DEF vars, poolVars, schedVars
  <2>9. QED
    BY <2>2, <2>3, <2>4, <2>5, <2>6, <2>7, <2>8 DEF Next
<1>3. TypeOK /\ OnceInv => AtMostOnce
  <2>1. TypeOK => DOMAIN m_queue = 1 .. Len(m_queue)
    BY DEF TypeOK
  <2>2. QED
    BY <2>1 DEF OnceInv, QueueOnce, HeldNotQueued, HeldOnce, ClaimedPending, AtMostOnce
<1>4. QED
  BY <1>1, <1>2, <1>3, TypeCorrect, PTL DEF Spec

(* The join loop and the scheduler pointer, along every step. *)
LEMMA JoinInvariant == Spec => []JoinInv
<1>1. Init => JoinInv
  BY DEF Init, PoolInit, JoinInv
<1>2. TypeOK /\ JoinInv /\ [Next]_vars => JoinInv'
  <2> SUFFICES ASSUME TypeOK, JoinInv, [Next]_vars PROVE JoinInv'
    OBVIOUS
  <2>0. wpc \in [Workers -> WorkerPC] /\ di \in Workers /\ NumWorkers \in Nat \ {0}
    BY PoolAssumption DEF TypeOK, PoolTypeOK
  <2>1. CASE /\ UNCHANGED <<dpc, di, m_scheduler>>
             /\ \A w \in Workers : wpc[w] = "exited" => wpc'[w] = "exited"
    BY <2>1 DEF JoinInv
  <2>2. ASSUME NEW t \in Tasks, Submit(t) PROVE JoinInv'
    <3> USE DEF SubmitFrame, ctlVars, workerVars
    <3>1. CASE NotifyOne(t)
      BY <2>0, <2>1, <3>1 DEF NotifyOne, Sleepers, Go
    <3>2. QED
      BY <2>1, <2>2, <3>1 DEF Submit, SubmitPriority, CreateDescriptor, SubmitDescriptor, Admit,
         Register, Post, EnqueueCheck, EnqueuePush
  <2>3. ASSUME NEW w \in Workers, WorkerLoop(w) \/ SpuriousWake(w) PROVE JoinInv'
    BY <2>0, <2>1, <2>3 DEF WorkerLoop, SpuriousWake, LoopTop, SemWait, Woken, Claim, Repost, Begin,
       Run, Finish, Phantom, Next_Pop, Next_None, Next_Block, Next_Sleep, GotTask, GotNone,
       Go, WorkerFrame, ctlVars
  <2>4. CASE Shutdown
    <3> USE DEF ShutdownFrame, workerVars
    <3>1. CASE Join
      BY <2>0, <3>1 DEF Join, LoopStep, JoinInv, Workers
    <3>2. CASE RequestStop \/ PostStop
      BY <2>0, <3>2 DEF RequestStop, PostStop, LoopStep, JoinInv, Workers
    <3>3. CASE NotifyAll
      BY <2>0, <3>3 DEF NotifyAll, JoinInv
    <3>4. CASE ShutdownCall \/ WatcherStop \/ SchedStop \/ ClearShards \/ ResetScheduler
      BY <3>4 DEF ShutdownCall, WatcherStop, SchedStop, ClearShards, ResetScheduler, JoinInv
    <3>5. QED
      BY <2>4, <3>1, <3>2, <3>3, <3>4 DEF Shutdown
  <2>5. CASE WaitForIdle
    BY <2>1, <2>5 DEF WaitForIdle, IdleCall, IdleProgress, IdleSize, IdleFrame, workerVars, ctlVars
  <2>6. CASE \E w \in Workers : WatcherStops(w) /\ UNCHANGED schedVars
    BY <2>1, <2>6 DEF WatcherStops, workerVars, ctlVars
  <2>7. CASE \E min \in TaskMins : SetTaskRange(min) /\ UNCHANGED schedVars
    BY <2>1, <2>7 DEF SetTaskRange, workerVars, ctlVars
  <2>8. CASE UNCHANGED vars
    BY <2>1, <2>8 DEF vars, poolVars
  <2>9. QED
    BY <2>2, <2>3, <2>4, <2>5, <2>6, <2>7, <2>8 DEF Next
<1>4. QED
  BY <1>1, <1>2, TypeCorrect, PTL DEF Spec

(* shutdown() gives the scheduler up only when every worker has been joined, for any    *)
(* number of workers: no worker's call goes through the null pointer.                   *)
THEOREM SchedulerOutlivesWorkers == Spec => []JoinedBeforeReset
<1>1. JoinInv => JoinedBeforeReset
  BY DEF JoinInv, JoinedBeforeReset
<1> QED
  BY <1>1, JoinInvariant, PTL

-----------------------------------------------------------------------------
(* The inductive invariant behind NoStragglers.  A pending future is in the map or in    *)
(* the hands of a worker about to run it; with no submit() overlapping shutdown(), the   *)
(* first is emptied by ClearShards and the second cannot be once every worker exited.    *)
StopFlag == m_stopping <=> dpc # "idle"
NobodySubmits == ~RacingSubmit /\ dpc # "idle" => \A t \in Tasks : ~Submitting(t)
NobodyCrashed == ~RacingSubmit => \A t \in Tasks : spc[t] # "crashed"
PendingKept ==
    \A t \in Tasks : future[t] = "pending" =>
        t \in m_taskShards \/ \E w \in Workers : wpc[w] \in {"begin", "run"} /\ wtask[w] = t
NonePending ==
    ~RacingSubmit /\ dpc \in {"reset", "returned"} => \A t \in Tasks : future[t] # "pending"

StragInv == StopFlag /\ NobodySubmits /\ NobodyCrashed /\ PendingKept /\ NonePending

(* A step that leaves the futures alone and the submits where the invariant wants them. *)
LEMMA QuietStrag ==
    ASSUME StragInv, UNCHANGED <<m_taskShards, future, m_stopping, dpc, spc>>,
           \A w \in Workers : wpc[w] \in {"begin", "run"} =>
               wpc'[w] \in {"begin", "run"} /\ wtask'[w] = wtask[w]
    PROVE  StragInv'
<1>1. StopFlag' /\ NonePending'
  BY DEF StragInv, StopFlag, NonePending
<1>2. NobodySubmits' /\ NobodyCrashed'
  BY DEF StragInv, NobodySubmits, NobodyCrashed, Submitting, SubmitDone
<1>3. PendingKept'
  BY DEF StragInv, PendingKept
<1> QED
  BY <1>1, <1>2, <1>3 DEF StragInv

(* submit(): whoever is past the first test began before shutdown(), and finds the scheduler. *)
LEMMA SubmitStrag ==
    ASSUME TypeOK, JoinInv, StragInv, NEW t \in Tasks, Submit(t)
    PROVE  StragInv'
<1> USE DEF GoSubmit, SubmitFrame, ctlVars, workerVars, idleVars, schedVars
<1>0. /\ spc \in [Tasks -> SubmitPC] /\ wpc \in [Workers -> WorkerPC]
      /\ future \in [Tasks -> FutureState]
  BY DEF TypeOK, PoolTypeOK
<1>1. UNCHANGED <<m_stopping, m_scheduler, dpc>>
  BY DEF Submit, SubmitPriority, CreateDescriptor, SubmitDescriptor, Admit, Register, Post,
     EnqueueCheck, EnqueuePush, NotifyOne
<1>2. StopFlag'
  BY <1>1 DEF StragInv, StopFlag
<1>3. \E pc \in SubmitPC : spc' = [spc EXCEPT ![t] = pc]
  BY DEF Submit, SubmitPriority, CreateDescriptor, SubmitDescriptor, Admit, Register, Post,
     EnqueueCheck, EnqueuePush, NotifyOne, SubmitPC
<1>4. CASE UNCHANGED <<m_taskShards, future>>
           /\ \A w \in Workers : wpc[w] \in {"begin", "run"} => wpc'[w] = wpc[w] /\ wtask'[w] = wtask[w]
  <2>1. PendingKept' /\ NonePending'
    BY <1>1, <1>4 DEF StragInv, PendingKept, NonePending
  <2>2. CASE RacingSubmit
    BY <1>2, <2>1, <2>2 DEF StragInv, NobodySubmits, NobodyCrashed
  <2>3. CASE ~RacingSubmit /\ Submitting(t)
    <3>1. dpc = "idle" /\ m_scheduler /\ ~m_stopping
      BY <2>3 DEF StragInv, NobodySubmits, JoinInv, StopFlag
    <3>2. spc'[t] # "crashed"
      BY <1>0, <2>3, <3>1 DEF Submitting, SubmitDone, Submit, SubmitPriority, CreateDescriptor,
         SubmitDescriptor, Admit, Register, Post, EnqueueCheck, EnqueuePush, NotifyOne
    <3> QED
      BY <1>0, <1>1, <1>2, <1>3, <2>1, <3>1, <3>2 DEF StragInv, NobodySubmits, NobodyCrashed
  <2>4. CASE ~RacingSubmit /\ ~Submitting(t)
    <3>1. spc[t] \in {"start", "check"}
          /\ spc'[t] \in {"refused", IF m_stopping THEN "refused" ELSE IF spc[t] = "start" THEN "create" ELSE "admit"}
      BY <1>0, <2>4 DEF Submitting, SubmitDone, Submit, SubmitPriority, CreateDescriptor,
         SubmitDescriptor, Admit, Register, Post, EnqueueCheck, EnqueuePush, NotifyOne, SubmitPC
    <3>2. spc'[t] # "crashed" /\ (m_stopping => ~Submitting(t)')
      BY <3>1 DEF Submitting, SubmitDone
    <3>3. \A s \in Tasks : s # t => spc'[s] = spc[s]
      BY <1>0, <1>3
    <3>4. NobodyCrashed'
      BY <3>2, <3>3 DEF StragInv, NobodyCrashed
    <3>5. NobodySubmits'
      BY <1>1, <3>2, <3>3 DEF StragInv, NobodySubmits, StopFlag, Submitting, SubmitDone
    <3> QED
      BY <1>2, <2>1, <3>4, <3>5 DEF StragInv
  <2> QED
    BY <2>2, <2>3, <2>4
<1>5. CASE Register(t)
  <2>1. /\ UNCHANGED <<wpc, wtask>> /\ m_taskShards' = m_taskShards \cup {t}
        /\ future' = [future EXCEPT ![t] = "pending"] /\ spc[t] = "register"
        /\ spc' = [spc EXCEPT ![t] = "enqueue"]
    BY <1>5 DEF Register
  <2>2. PendingKept'
    BY <1>0, <2>1 DEF StragInv, PendingKept
  <2>3. Submitting(t)
    BY <2>1 DEF Submitting, SubmitDone
  <2>4. RacingSubmit \/ dpc = "idle"
    BY <2>3 DEF StragInv, NobodySubmits
  <2>5. NobodySubmits' /\ NonePending' /\ NobodyCrashed'
    BY <1>0, <1>1, <2>1, <2>4 DEF StragInv, NobodySubmits, NonePending, NobodyCrashed
  <2> QED
    BY <1>2, <2>2, <2>5 DEF StragInv
<1>6. CASE NotifyOne(t)
  BY <1>0, <1>4, <1>6 DEF NotifyOne, Sleepers, Go
<1> QED
  BY <1>4, <1>5, <1>6 DEF Submit, SubmitPriority, CreateDescriptor, SubmitDescriptor, Admit, Post,
     EnqueueCheck, EnqueuePush

(* workerLoop(): a closure leaves the map for the hands of a worker, which runs it. *)
LEMMA WorkerStrag ==
    ASSUME TypeOK, StragInv, NEW w \in Workers, WorkerLoop(w) \/ SpuriousWake(w)
    PROVE  StragInv'
<1> USE DEF Go, WorkerFrame, ctlVars, idleVars, schedVars
<1>0. /\ wpc \in [Workers -> WorkerPC] /\ wtask \in [Workers -> Tasks \cup {NoTask}]
      /\ future \in [Tasks -> FutureState]
  BY DEF TypeOK, PoolTypeOK
<1>1. UNCHANGED <<m_stopping, dpc, spc>>
  BY DEF WorkerLoop, SpuriousWake, LoopTop, SemWait, Woken, Claim, Repost, Begin, Run, Finish,
     Phantom, Next_Pop, Next_None, Next_Block, Next_Sleep, GotTask, GotNone
<1>2. CASE Claim(w)
  <2>1. CASE wtask[w] \notin m_taskShards
    BY <1>0, <1>1, <1>2, <2>1, QuietStrag DEF Claim
  <2>2. CASE wtask[w] \in m_taskShards
    <3>1. /\ UNCHANGED <<future, wtask>> /\ wpc[w] = "claim"
          /\ m_taskShards' = m_taskShards \ {wtask[w]} /\ wpc' = [wpc EXCEPT ![w] = "begin"]
      BY <1>2, <2>2 DEF Claim
    <3>2. PendingKept'
      BY <1>0, <3>1 DEF StragInv, PendingKept
    <3> QED
      BY <1>1, <3>1, <3>2 DEF StragInv, StopFlag, NobodySubmits, NobodyCrashed, NonePending,
         Submitting, SubmitDone
  <2> QED
    BY <2>1, <2>2
<1>3. CASE Run(w)
  <2>1. /\ UNCHANGED <<m_taskShards, wtask>> /\ wpc[w] = "run"
        /\ wpc' = [wpc EXCEPT ![w] = "finish"] /\ future' = [future EXCEPT ![wtask[w]] = "ready"]
    BY <1>3 DEF Run
  <2>2. PendingKept'
    BY <1>0, <2>1 DEF StragInv, PendingKept
  <2>3. NonePending'
    BY <1>0, <1>1, <2>1 DEF StragInv, NonePending
  <2> QED
    BY <1>1, <2>2, <2>3 DEF StragInv, StopFlag, NobodySubmits, NobodyCrashed, Submitting, SubmitDone
<1>4. CASE LoopTop(w) \/ SemWait(w) \/ Woken(w) \/ Repost(w) \/ Begin(w) \/ Finish(w)
           \/ Phantom(w, Len(m_queue)) \/ Next_Pop(w) \/ Next_None(w) \/ Next_Block(w)
           \/ Next_Sleep(w) \/ SpuriousWake(w)
  <2>1. /\ UNCHANGED <<m_taskShards, future>>
        /\ \A v \in Workers : wpc[v] \in {"begin", "run"} =>
               wpc'[v] \in {"begin", "run"} /\ wtask'[v] = wtask[v]
    BY <1>0, <1>4 DEF LoopTop, SemWait, Woken, Repost, Begin, Finish, Phantom, Next_Pop, Next_None,
       Next_Block, Next_Sleep, SpuriousWake, GotTask, GotNone
  <2> QED
    BY <1>1, <2>1, QuietStrag
<1> QED
  BY <1>2, <1>3, <1>4 DEF WorkerLoop

(* shutdown(): when it clears the map every worker has exited, so nothing is pending. *)
LEMMA ShutdownStrag ==
    ASSUME TypeOK, JoinInv, StragInv, Shutdown
    PROVE  StragInv'
<1> USE DEF ShutdownFrame, workerVars, idleVars, schedVars
<1>0. wpc \in [Workers -> WorkerPC] /\ future \in [Tasks -> FutureState]
  BY DEF TypeOK, PoolTypeOK
<1>1. UNCHANGED spc
  BY DEF Shutdown, ShutdownCall, WatcherStop, SchedStop, NotifyAll, RequestStop, PostStop, Join,
     ClearShards, ResetScheduler
<1>2. ASSUME UNCHANGED <<m_taskShards, future, m_stopping, wtask>>,
             \A w \in Workers : wpc[w] \in {"begin", "run"} => wpc'[w] = wpc[w],
             dpc # "idle", dpc' # "idle",
             dpc' \in {"reset", "returned"} => dpc \in {"reset", "returned"}
      PROVE  StragInv'
  BY <1>1, <1>2 DEF StragInv, StopFlag, NobodySubmits, NobodyCrashed, PendingKept, NonePending,
     Submitting, SubmitDone
<1>3. CASE ShutdownCall
  BY <1>1, <1>3 DEF ShutdownCall, StragInv, StopFlag, NobodySubmits, NobodyCrashed, PendingKept,
     NonePending, Submitting, SubmitDone
<1>4. CASE WatcherStop \/ ResetScheduler \/ SchedStop
  BY <1>2, <1>4 DEF WatcherStop, ResetScheduler, SchedStop
<1>5. CASE RequestStop \/ PostStop \/ Join
  BY <1>2, <1>5 DEF RequestStop, PostStop, Join, LoopStep
<1>6. CASE NotifyAll
  BY <1>0, <1>2, <1>6 DEF NotifyAll
<1>7. CASE ClearShards
  <2>1. \A w \in Workers : wpc[w] = "exited"
    BY <1>7 DEF ClearShards, JoinInv
  <2>2. \A t \in Tasks : future[t] = "pending" => t \in m_taskShards
    BY <2>1 DEF StragInv, PendingKept
  <2>3. \A t \in Tasks : future'[t] # "pending"
    BY <1>7, <2>2 DEF ClearShards
  <2> QED
    BY <1>1, <1>7, <2>3 DEF ClearShards, StragInv, StopFlag, NobodySubmits, NobodyCrashed,
       PendingKept, NonePending, Submitting, SubmitDone
<1> QED
  BY <1>3, <1>4, <1>5, <1>6, <1>7 DEF Shutdown

(* With clients that do not let submit() overlap shutdown(), nobody calls through the    *)
(* null scheduler pointer and no accepted task is left pending in a pool that was shut   *)
(* down, for any number of workers and tasks, dropped descriptors and watcher included.  *)
THEOREM ShutdownLeavesNothing == Spec => []NoStragglers
<1>1. Init => StragInv
  BY DEF Init, PoolInit, StragInv, StopFlag, NobodySubmits, NobodyCrashed, PendingKept, NonePending
<1>2. TypeOK /\ JoinInv /\ StragInv /\ [Next]_vars => StragInv'
  <2> SUFFICES ASSUME TypeOK, JoinInv, StragInv, [Next]_vars PROVE StragInv'
    OBVIOUS
  <2>1. CASE \E t \in Tasks : Submit(t)
    BY <2>1, SubmitStrag
  <2>2. CASE \E w \in Workers : WorkerLoop(w) \/ SpuriousWake(w)
    BY <2>2, WorkerStrag
  <2>3. CASE Shutdown
    BY <2>3, ShutdownStrag
  <2>4. CASE UNCHANGED <<m_taskShards, future, m_stopping, dpc, spc, wpc, wtask>>
    BY <2>4, QuietStrag
  <2>5. CASE WaitForIdle
    BY <2>4, <2>5 DEF WaitForIdle, IdleCall, IdleProgress, IdleSize, IdleFrame, workerVars, ctlVars
  <2>6. CASE \E w \in Workers : WatcherStops(w) /\ UNCHANGED schedVars
    BY <2>4, <2>6 DEF WatcherStops, workerVars, ctlVars
  <2>7. CASE \E min \in TaskMins : SetTaskRange(min) /\ UNCHANGED schedVars
    BY <2>4, <2>7 DEF SetTaskRange, workerVars, ctlVars
  <2>8. CASE UNCHANGED vars
    BY <2>4, <2>8 DEF vars, poolVars
  <2> QED
    BY <2>1, <2>2, <2>3, <2>5, <2>6, <2>7, <2>8 DEF Next
<1>3. StragInv => NoStragglers
  BY DEF StragInv, NobodyCrashed, NonePending, NoStragglers
<1> QED
  BY <1>1, <1>2, <1>3, TypeCorrect, JoinInvariant, PTL DEF Spec

-----------------------------------------------------------------------------
(* Wake-ups.  Every queued task is covered by a token in the semaphore, by a worker that    *)
(* drew one and has not popped a task for it, or by a submit() that has still to post.      *)
Posting == {t \in Tasks \ Foreign : spc[t] \in {"notify", "post"}}
Tokens == {w \in Workers : wpc[w] \in HasToken}
Queued == Len(m_queue)

(* Only calls in flight post, so there are finitely many, of tasks or not; and a           *)
(* descriptor of another type is never pushed, so nobody relies on the token it posts.     *)
FiniteCalls == IsFiniteSet(Posting)
CoverInv ==
    /\ FiniteCalls
    /\ \A t \in Tasks : spc[t] \in {"push", "notify"} => t \notin Foreign
    /\ TokenCoverage

(* Two sets that agree but for one element: how their sizes differ. *)
LEMMA OneElement ==
    ASSUME NEW A, NEW B, NEW x, IsFiniteSet(A), A \ {x} = B \ {x}
    PROVE  /\ IsFiniteSet(B)
           /\ Cardinality(A) \in Nat /\ Cardinality(B) \in Nat
           /\ Cardinality(B) = Cardinality(A) + (IF x \in B THEN 1 ELSE 0) - (IF x \in A THEN 1 ELSE 0)
<1>1. Cardinality(A) \in Nat
  BY FS_CardinalityType
<1>2. CASE x \notin A /\ x \in B
  <2>1. B = A \cup {x}
    BY <1>2
  <2>2. IsFiniteSet(A \cup {x}) /\ Cardinality(A \cup {x}) = Cardinality(A) + 1
    BY <1>2, FS_AddElement
  <2> QED
    BY <1>1, <1>2, <2>1, <2>2
<1>3. CASE x \in A /\ x \notin B
  <2>1. B = A \ {x}
    BY <1>3
  <2>2. IsFiniteSet(A \ {x}) /\ Cardinality(A \ {x}) = Cardinality(A) - 1
    BY <1>3, FS_RemoveElement
  <2>3. Cardinality(B) \in Nat
    BY <2>1, <2>2, FS_CardinalityType
  <2> QED
    BY <1>1, <1>3, <2>1, <2>2, <2>3
<1>4. CASE x \in A <=> x \in B
  <2>1. B = A
    BY <1>4
  <2> QED
    BY <1>1, <1>4, <2>1
<1> QED
  BY <1>2, <1>3, <1>4

(* What the coverage adds up is numbers. *)
Numbers ==
    /\ m_workSemaphore \in Nat /\ Queued \in Nat
    /\ IsFiniteSet(Tokens) /\ Cardinality(Tokens) \in Nat /\ Cardinality(Posting) \in Nat

LEMMA AddsNumbers == TypeOK /\ FiniteCalls => Numbers
<1>1. IsFiniteSet(Workers)
  BY FS_Interval, PoolAssumption DEF Workers
<1>2. IsFiniteSet(Tokens)
  BY <1>1, FS_Subset DEF Tokens
<1> QED
  BY <1>2, FS_CardinalityType DEF TypeOK, PoolTypeOK, FiniteCalls, Numbers, Queued

(* The coverage after a step, from what it did to each of the terms. *)
LEMMA Covered ==
    ASSUME TypeOK, TypeOK', CoverInv, FiniteCalls',
           \A w \in Workers : stopReq[w] => stopReq'[w],
           \/ \E w \in Workers : stopReq[w]
           \/ m_workSemaphore' + Cardinality(Tokens') + Cardinality(Posting') - Queued'
              >= m_workSemaphore + Cardinality(Tokens) + Cardinality(Posting) - Queued
    PROVE  TokenCoverage'
<1>1. Numbers
  BY AddsNumbers DEF CoverInv
<1>2. Numbers'
  <2>1. TypeOK' /\ FiniteCalls' => Numbers'
    BY AddsNumbers, PTL
  <2> QED
    BY <2>1
<1> SUFFICES ASSUME \A w \in Workers : ~stopReq'[w]
             PROVE  Queued' <= m_workSemaphore' + Cardinality(Tokens') + Cardinality(Posting')
  BY DEF TokenCoverage, Tokens, Posting, Queued
<1>3. \A w \in Workers : ~stopReq[w]
  OBVIOUS
<1>4. Queued <= m_workSemaphore + Cardinality(Tokens) + Cardinality(Posting)
  BY <1>3 DEF CoverInv, TokenCoverage, Tokens, Posting, Queued
<1>5. m_workSemaphore' + Cardinality(Tokens') + Cardinality(Posting') - Queued'
      >= m_workSemaphore + Cardinality(Tokens) + Cardinality(Posting) - Queued
  BY <1>3
<1> QED
  BY <1>1, <1>2, <1>4, <1>5 DEF Numbers

(* A step that moves no task, takes no token and no stop request back, and lets the workers *)
(* that have a token keep it.                                                               *)
LEMMA QuietCover ==
    ASSUME TypeOK, TypeOK', CoverInv, UNCHANGED <<m_queue, spc>>,
           \A w \in Workers : wpc'[w] \in HasToken <=> wpc[w] \in HasToken,
           m_workSemaphore' >= m_workSemaphore,
           \A w \in Workers : stopReq[w] => stopReq'[w]
    PROVE  CoverInv'
<1>1. Posting' = Posting /\ Tokens' = Tokens /\ FiniteCalls' /\ Queued' = Queued
  BY DEF Posting, Tokens, CoverInv, FiniteCalls, Queued
<1>2. Numbers /\ m_workSemaphore' \in Nat
  BY AddsNumbers DEF CoverInv, TypeOK, PoolTypeOK
<1>3. m_workSemaphore' + Cardinality(Tokens') + Cardinality(Posting') - Queued'
      >= m_workSemaphore + Cardinality(Tokens) + Cardinality(Posting) - Queued
  BY <1>1, <1>2 DEF Numbers
<1>4. TokenCoverage'
  BY <1>1, <1>3, Covered
<1> QED
  BY <1>1, <1>4 DEF CoverInv

(* submit() posts after enqueue(), and from the push to the post the call itself counts. *)
LEMMA SubmitCover ==
    ASSUME TypeOK, CoverInv, NEW t \in Tasks, Submit(t)
    PROVE  CoverInv'
<1> USE DEF GoSubmit, SubmitFrame, ctlVars, workerVars, schedVars
<1>1. /\ TypeOK' /\ spc \in [Tasks -> SubmitPC] /\ wpc \in [Workers -> WorkerPC]
      /\ Numbers /\ FiniteCalls /\ (m_queue' = m_queue => Queued' = Queued)
  BY SubmitType, AddsNumbers DEF CoverInv, TypeOK, PoolTypeOK, Queued
<1>2. /\ UNCHANGED stopReq
      /\ \A w \in Workers : wpc'[w] = wpc[w] \/ (wpc[w] = "cv" /\ wpc'[w] = "next")
      /\ \A x \in Tasks : x # t => spc'[x] = spc[x]
  BY <1>1 DEF Submit, SubmitPriority, CreateDescriptor, SubmitDescriptor, Admit, Register, Post,
     EnqueueCheck, EnqueuePush, NotifyOne, Sleepers, Go
<1>3. Tokens' = Tokens
  BY <1>2 DEF Tokens, HasToken
<1>4. /\ FiniteCalls' /\ Cardinality(Posting') \in Nat
      /\ Cardinality(Posting') = Cardinality(Posting) + (IF t \in Posting' THEN 1 ELSE 0)
                                 - (IF t \in Posting THEN 1 ELSE 0)
      /\ t \in Posting <=> t \notin Foreign /\ spc[t] \in {"notify", "post"}
      /\ t \in Posting' <=> t \notin Foreign /\ spc'[t] \in {"notify", "post"}
  <2>1. /\ Posting \ {t} = Posting' \ {t}
        /\ t \in Posting <=> t \notin Foreign /\ spc[t] \in {"notify", "post"}
        /\ t \in Posting' <=> t \notin Foreign /\ spc'[t] \in {"notify", "post"}
    BY <1>2 DEF Posting
  <2> QED
    BY <1>1, <2>1, OneElement DEF FiniteCalls
<1>5. ASSUME spc'[t] \in {"push", "notify"} => t \notin Foreign,
             m_workSemaphore' + Cardinality(Posting') - Queued'
             >= m_workSemaphore + Cardinality(Posting) - Queued,
             m_workSemaphore' \in Nat, Queued' \in Nat
      PROVE  CoverInv'
  <2>1. m_workSemaphore' + Cardinality(Tokens') + Cardinality(Posting') - Queued'
        >= m_workSemaphore + Cardinality(Tokens) + Cardinality(Posting) - Queued
    BY <1>1, <1>3, <1>4, <1>5 DEF Numbers
  <2>2. TokenCoverage'
    BY <1>1, <1>2, <1>4, <2>1, Covered
  <2> QED
    BY <1>2, <1>4, <1>5, <2>2 DEF CoverInv
<1>6. CASE SubmitPriority(t) \/ CreateDescriptor(t) \/ SubmitDescriptor(t) \/ Admit(t) \/ Register(t)
  <2>1. UNCHANGED <<m_queue, m_workSemaphore>>
    BY <1>1, <1>6 DEF Submit, SubmitPriority, CreateDescriptor, SubmitDescriptor, Admit, Register, Post,
       EnqueueCheck, EnqueuePush, NotifyOne
  <2>2. spc[t] \notin {"notify", "post"} /\ spc'[t] \notin {"push", "notify", "post"}
    BY <1>1, <1>6 DEF SubmitPriority, CreateDescriptor, SubmitDescriptor, Admit, Register
  <2> QED
    BY <1>1, <1>4, <1>5, <2>1, <2>2 DEF Numbers
<1>7. CASE EnqueueCheck(t)
  <2>1. /\ UNCHANGED <<m_queue, m_workSemaphore>> /\ spc[t] = "enqueue"
        /\ spc'[t] \in {"crashed", "post", "push"} /\ (spc'[t] = "push" => t \notin Foreign)
    BY <1>1, <1>7 DEF EnqueueCheck
  <2> QED
    BY <1>1, <1>4, <1>5, <2>1 DEF Numbers
<1>8. CASE EnqueuePush(t)
  <2>1. /\ UNCHANGED m_workSemaphore /\ spc[t] = "push" /\ spc'[t] = "notify" /\ t \notin Foreign
        /\ m_queue' = Append(m_queue, t)
    BY <1>1, <1>8 DEF EnqueuePush, CoverInv
  <2>2. Queued' = Queued + 1
    BY <2>1 DEF TypeOK, Queued
  <2> QED
    BY <1>1, <1>4, <1>5, <2>1, <2>2 DEF Numbers
<1>9. CASE NotifyOne(t)
  <2>1. /\ UNCHANGED <<m_queue, m_workSemaphore>> /\ spc[t] = "notify" /\ spc'[t] = "post"
    BY <1>1, <1>9 DEF NotifyOne
  <2> QED
    BY <1>1, <1>4, <1>5, <2>1 DEF Numbers
<1>10. CASE Post(t) /\ UNCHANGED schedVars
  <2>1. /\ UNCHANGED m_queue /\ m_workSemaphore' = m_workSemaphore + 1
        /\ spc[t] = "post" /\ spc'[t] = "accepted"
    BY <1>1, <1>10 DEF Post
  <2> QED
    BY <1>1, <1>4, <1>5, <2>1 DEF Numbers
<1> QED
  BY <1>6, <1>7, <1>8, <1>9, <1>10 DEF Submit

(* workerLoop(): a token is spent on a task, posted again, or dropped over an empty queue. *)
LEMMA WorkerCover ==
    ASSUME TypeOK, CoverInv, NEW w \in Workers, WorkerLoop(w) \/ SpuriousWake(w)
    PROVE  CoverInv'
<1> USE DEF Go, WorkerFrame, ctlVars, idleVars, schedVars
<1>1. /\ TypeOK' /\ wpc \in [Workers -> WorkerPC]
      /\ Numbers /\ m_workSemaphore' \in Nat /\ (m_queue' = m_queue => Queued' = Queued)
  BY WorkerType, AddsNumbers DEF CoverInv, TypeOK, PoolTypeOK, Queued
<1>2. UNCHANGED <<spc, stopReq>> /\ \A v \in Workers : v # w => wpc'[v] = wpc[v]
  BY <1>1 DEF WorkerLoop, LoopTop, SemWait, Woken, Claim, Repost, Begin, Run, Finish, Phantom, Next_Pop,
     Next_None, Next_Block, Next_Sleep, SpuriousWake, GotTask, GotNone
<1>3. Posting' = Posting /\ FiniteCalls'
  BY <1>2 DEF Posting, CoverInv, FiniteCalls
<1>4. /\ Cardinality(Tokens') \in Nat
      /\ Cardinality(Tokens') = Cardinality(Tokens) + (IF wpc'[w] \in HasToken THEN 1 ELSE 0)
                                - (IF wpc[w] \in HasToken THEN 1 ELSE 0)
  <2>1. /\ Tokens \ {w} = Tokens' \ {w}
        /\ w \in Tokens <=> wpc[w] \in HasToken
        /\ w \in Tokens' <=> wpc'[w] \in HasToken
    BY <1>2 DEF Tokens
  <2> QED
    BY <1>1, <2>1, OneElement DEF Numbers
<1>5. TokenCoverage' => CoverInv'
  BY <1>2, <1>3 DEF CoverInv
<1>6. ASSUME NEW before \in {0, 1}, NEW after \in {0, 1}, NEW taken \in {0, 1},
             before = IF wpc[w] \in HasToken THEN 1 ELSE 0,
             after = IF wpc'[w] \in HasToken THEN 1 ELSE 0,
             Queued' = Queued - taken,
             m_workSemaphore' + after + taken >= m_workSemaphore + before \/ stopReq[w]
      PROVE  CoverInv'
  <2>1. Cardinality(Tokens') = Cardinality(Tokens) + after - before
    BY <1>4, <1>6
  <2>2. \/ stopReq[w]
        \/ m_workSemaphore' + Cardinality(Tokens') + Cardinality(Posting') - Queued'
           >= m_workSemaphore + Cardinality(Tokens) + Cardinality(Posting) - Queued
    <3> SUFFICES ASSUME ~stopReq[w]
                 PROVE  m_workSemaphore' + Cardinality(Tokens') + Cardinality(Posting') - Queued'
                        >= m_workSemaphore + Cardinality(Tokens) + Cardinality(Posting) - Queued
      OBVIOUS
    <3>1. m_workSemaphore' + after + taken >= m_workSemaphore + before
      BY <1>6
    <3>2. Queued' = Queued - taken /\ before \in Nat /\ after \in Nat /\ taken \in Nat
      BY <1>6
    <3>3. Numbers /\ m_workSemaphore' \in Nat /\ Cardinality(Posting') = Cardinality(Posting)
      BY <1>1, <1>3
    <3> DEFINE sem == m_workSemaphore
               new == m_workSemaphore'
               tok == Cardinality(Tokens)
               post == Cardinality(Posting)
               len == Queued
    <3>4. /\ sem \in Nat /\ new \in Nat /\ tok \in Nat /\ post \in Nat /\ len \in Nat
          /\ new + after + taken >= sem + before
      BY <3>1, <3>3 DEF Numbers
    <3>5. /\ Cardinality(Tokens') = tok + after - before /\ Queued' = len - taken
          /\ Cardinality(Posting') = post
      BY <2>1, <3>2, <3>3
    <3> HIDE DEF sem, new, tok, post, len
    <3>6. new + (tok + after - before) + post - (len - taken) >= sem + tok + post - len
      BY <3>2, <3>4
    <3>7. new + Cardinality(Tokens') + Cardinality(Posting') - Queued' >= sem + tok + post - len
      BY <3>5, <3>6
    <3> QED
      BY <3>7 DEF sem, new, tok, post, len
  <2>3. TokenCoverage'
    BY <1>1, <1>2, <1>3, <2>2, Covered
  <2> QED
    BY <1>5, <2>3
<1>7. CASE LoopTop(w) \/ Claim(w) \/ Begin(w) \/ Run(w) \/ Finish(w)
  <2>1. /\ wpc[w] \in {"top", "claim", "begin", "run", "finish"} /\ UNCHANGED m_workSemaphore
        /\ wpc'[w] \in {"exited", "wait", "begin", "top", "run", "finish"}
    BY <1>1, <1>7 DEF LoopTop, Claim, Begin, Run, Finish
  <2>2. UNCHANGED m_queue
    BY <1>7, <2>1 DEF WorkerLoop, SemWait, Woken, Repost, Phantom, Next_Pop, Next_None, Next_Block,
       Next_Sleep, SpuriousWake
  <2> QED
    BY <1>1, <1>6, <2>1, <2>2 DEF HasToken, Numbers
<1>8. CASE SemWait(w) /\ UNCHANGED schedVars
  <2>1. /\ UNCHANGED m_queue /\ wpc[w] = "wait" /\ wpc'[w] = "woken"
        /\ m_workSemaphore' = m_workSemaphore - 1
    BY <1>1, <1>8 DEF SemWait
  <2> QED
    BY <1>1, <1>6, <2>1 DEF HasToken, Numbers
<1>9. CASE Woken(w) /\ UNCHANGED schedVars
  <2>1. /\ UNCHANGED <<m_queue, m_workSemaphore>> /\ wpc[w] = "woken"
        /\ wpc'[w] = IF stopReq[w] THEN "exited" ELSE "next"
    BY <1>1, <1>9 DEF Woken
  <2> QED
    BY <1>1, <1>6, <2>1 DEF HasToken, Numbers
<1>10. CASE Repost(w) /\ UNCHANGED schedVars
  <2>1. /\ UNCHANGED m_queue /\ wpc[w] = "repost" /\ wpc'[w] = "top"
        /\ m_workSemaphore' = m_workSemaphore + 1
    BY <1>1, <1>10 DEF Repost
  <2> QED
    BY <1>1, <1>6, <2>1 DEF HasToken, Numbers
<1>11. CASE Phantom(w, Len(m_queue)) /\ UNCHANGED schedVars
  <2>1. /\ UNCHANGED <<m_queue, m_workSemaphore>> /\ wpc[w] = "phantom"
        /\ wpc'[w] = IF Queued > 0 THEN "repost" ELSE "top"
    BY <1>1, <1>11 DEF Phantom, Queued
  <2>2. CASE Queued > 0
    BY <1>1, <1>6, <2>1, <2>2 DEF HasToken, Numbers
  <2>3. CASE Queued = 0
    <3>1. Queued' <= m_workSemaphore' + Cardinality(Tokens') + Cardinality(Posting')
      BY <1>1, <1>3, <1>4, <2>1, <2>3 DEF Numbers
    <3>2. TokenCoverage'
      BY <3>1 DEF TokenCoverage, Tokens, Posting, Queued
    <3> QED
      BY <1>5, <3>2
  <2> QED
    BY <1>1, <2>2, <2>3 DEF Numbers
<1>12. CASE Next_Pop(w)
  <2>1. /\ UNCHANGED m_workSemaphore /\ wpc[w] = "next" /\ wpc'[w] = "claim"
        /\ m_queue # << >> /\ m_queue' = Tail(m_queue)
    BY <1>1, <1>12 DEF Next_Pop, GotTask
  <2>2. Queued' = Queued - 1
    BY <2>1 DEF TypeOK, Queued
  <2> QED
    BY <1>1, <1>6, <2>1, <2>2 DEF HasToken, Numbers
<1>13. CASE Next_None(w) \/ Next_Block(w) \/ Next_Sleep(w) \/ SpuriousWake(w)
  <2>1. /\ UNCHANGED <<m_queue, m_workSemaphore>>
        /\ wpc[w] \in {"next", "block", "cv"} /\ wpc'[w] \in {"phantom", "block", "cv", "next"}
    BY <1>1, <1>13 DEF Next_None, Next_Block, Next_Sleep, SpuriousWake, GotNone
  <2> QED
    BY <1>1, <1>6, <2>1 DEF HasToken, Numbers
<1> QED
  BY <1>7, <1>8, <1>9, <1>10, <1>11, <1>12, <1>13 DEF WorkerLoop

(* Until a worker is told to stop every queued task has its wake-up, for any number of      *)
(* workers and submitters: a token in the semaphore, a worker that has not used the one it  *)
(* drew (asleep on the condition variable included), or a submit() about to post.           *)
THEOREM NoWakeUpLost == Spec => []TokenCoverage
<1>1. Init => CoverInv
  <2> SUFFICES ASSUME Init PROVE CoverInv
    OBVIOUS
  <2>1. /\ Posting = {} /\ Tokens = {} /\ Queued = 0 /\ m_workSemaphore = 0
        /\ \A t \in Tasks : spc[t] \notin {"push", "notify"}
    BY DEF Init, PoolInit, Posting, Tokens, HasToken, Queued
  <2>2. IsFiniteSet({}) /\ Cardinality({}) = 0
    BY FS_EmptySet
  <2>3. Queued <= m_workSemaphore + Cardinality(Tokens) + Cardinality(Posting)
    BY <2>1, <2>2
  <2>4. TokenCoverage
    BY <2>3 DEF TokenCoverage, Tokens, Posting, Queued
  <2> QED
    BY <2>1, <2>2, <2>4 DEF CoverInv, FiniteCalls
<1>2. TypeOK /\ TypeOK' /\ CoverInv /\ [Next]_vars => CoverInv'
  <2> SUFFICES ASSUME TypeOK, TypeOK', CoverInv, [Next]_vars PROVE CoverInv'
    OBVIOUS
  <2>0. /\ m_workSemaphore \in Nat /\ stopReq \in [Workers -> BOOLEAN] /\ di \in Workers
        /\ wpc \in [Workers -> WorkerPC]
    BY DEF TypeOK, PoolTypeOK
  <2>1. CASE \E t \in Tasks : Submit(t)
    BY <2>1, SubmitCover
  <2>2. CASE \E w \in Workers : WorkerLoop(w) \/ SpuriousWake(w)
    BY <2>2, WorkerCover
  <2>3. CASE \E w \in Workers : WatcherStops(w) /\ UNCHANGED schedVars
    BY <2>0, <2>3, QuietCover DEF WatcherStops, workerVars, schedVars
  <2>4. CASE \E min \in TaskMins : SetTaskRange(min) /\ UNCHANGED schedVars
    BY <2>0, <2>4, QuietCover DEF SetTaskRange, workerVars, schedVars
  <2>5. CASE NotifyAll
    BY <2>0, <2>5, QuietCover DEF NotifyAll, schedVars, HasToken
  <2>6. CASE Shutdown /\ ~NotifyAll
    BY <2>0, <2>6, QuietCover DEF Shutdown, ShutdownCall, WatcherStop, RequestStop, PostStop, Join,
       ClearShards, ResetScheduler, SchedStop, ShutdownFrame, workerVars, schedVars
  <2>7. CASE WaitForIdle
    BY <2>0, <2>7, QuietCover DEF WaitForIdle, IdleCall, IdleProgress, IdleSize, IdleFrame, workerVars,
       schedVars
  <2>8. CASE UNCHANGED vars
    BY <2>0, <2>8, QuietCover DEF vars, poolVars, schedVars
  <2> QED
    BY <2>1, <2>2, <2>3, <2>4, <2>5, <2>6, <2>7, <2>8 DEF Next
<1>3. CoverInv => TokenCoverage
  BY DEF CoverInv
<1> QED
  BY <1>1, <1>2, <1>3, TypeCorrect, PTL DEF Spec

-----------------------------------------------------------------------------
(* What waitForIdle() can promise.  The tasks it has to answer for were accepted before the *)
(* call, so they are pushed already and never again.                                        *)
SeenAccepted == \A t \in seen : spc[t] = "accepted"

(* Once waitForIdle() saw size() = 0, none of the tasks accepted before the call is queued,  *)
(* for any number of workers and submitters that go on meanwhile.  (That those tasks have   *)
(* also run is what its test expects, and does not hold.)                                   *)
THEOREM IdleMeansDrained == Spec => []IdleDrained
<1>1. Init => SeenAccepted /\ IdleDrained
  BY DEF Init, PoolInit, SeenAccepted, IdleDrained
<1>2. TypeOK /\ JoinInv /\ SeenAccepted /\ IdleDrained /\ [Next]_vars => SeenAccepted' /\ IdleDrained'
  <2> SUFFICES ASSUME TypeOK, JoinInv, SeenAccepted, IdleDrained, [Next]_vars
               PROVE  SeenAccepted' /\ IdleDrained'
    OBVIOUS
  <2>0. spc \in [Tasks -> SubmitPC] /\ m_queue \in Seq(Tasks) /\ seen \subseteq Tasks
    BY DEF TypeOK, PoolTypeOK
  <2>1. ASSUME UNCHANGED <<m_queue, ipc, seen>>, dpc' # "returned" => dpc # "returned",
               \A t \in Tasks : spc[t] = "accepted" => spc'[t] = "accepted"
        PROVE  SeenAccepted' /\ IdleDrained'
    BY <2>0, <2>1 DEF SeenAccepted, IdleDrained
  <2>2. ASSUME NEW t \in Tasks, Submit(t) PROVE SeenAccepted' /\ IdleDrained'
    <3>1. UNCHANGED <<dpc, ipc, seen>>
      BY <2>2 DEF Submit, SubmitPriority, CreateDescriptor, SubmitDescriptor, Admit, Register, Post,
         EnqueueCheck, EnqueuePush, NotifyOne, SubmitFrame, ctlVars, idleVars
    <3>2. \A x \in Tasks : spc[x] = "accepted" => spc'[x] = "accepted"
      BY <2>0, <2>2 DEF Submit, SubmitPriority, CreateDescriptor, SubmitDescriptor, Admit, Register, Post,
         EnqueueCheck, EnqueuePush, NotifyOne, GoSubmit
    <3>3. CASE m_queue' = m_queue
      BY <2>1, <3>1, <3>2, <3>3
    <3>4. CASE EnqueuePush(t)
      <4>1. spc[t] = "push" /\ m_queue' = Append(m_queue, t)
        BY <3>4 DEF EnqueuePush
      <4>2. t \notin seen /\ SeenAccepted'
        BY <2>0, <3>1, <3>2, <4>1 DEF SeenAccepted
      <4>3. /\ DOMAIN m_queue = 1 .. Len(m_queue) /\ Len(m_queue) \in Nat
            /\ DOMAIN m_queue' = 1 .. Len(m_queue) + 1 /\ m_queue'[Len(m_queue) + 1] = t
            /\ \A i \in 1 .. Len(m_queue) : m_queue'[i] = m_queue[i]
        BY <2>0, <4>1
      <4>4. \A i \in DOMAIN m_queue' : (i \in DOMAIN m_queue /\ m_queue'[i] = m_queue[i]) \/ m_queue'[i] = t
        BY <4>3
      <4> QED
        BY <3>1, <4>2, <4>4 DEF IdleDrained
    <3> QED
      BY <2>2, <3>3, <3>4 DEF Submit, EnqueueCheck, NotifyOne, schedVars
  <2>3. ASSUME NEW w \in Workers, WorkerLoop(w) \/ SpuriousWake(w) PROVE SeenAccepted' /\ IdleDrained'
    <3>1. UNCHANGED <<dpc, ipc, seen, spc>>
      BY <2>3 DEF WorkerLoop, LoopTop, SemWait, Woken, Claim, Repost, Begin, Run, Finish, Phantom,
         Next_Pop, Next_None, Next_Block, Next_Sleep, SpuriousWake, GotTask, GotNone, WorkerFrame, ctlVars,
         idleVars
    <3>2. CASE m_queue' = m_queue
      BY <2>1, <3>1, <3>2
    <3>3. CASE Next_Pop(w)
      <4>1. m_queue # << >> /\ m_queue' = Tail(m_queue)
        BY <3>3 DEF Next_Pop
      <4>2. \A i \in DOMAIN m_queue' : i + 1 \in DOMAIN m_queue /\ m_queue'[i] = m_queue[i + 1]
        BY <2>0, <4>1
      <4> QED
        BY <3>1, <4>2 DEF IdleDrained, SeenAccepted
    <3> QED
      BY <2>3, <3>2, <3>3 DEF WorkerLoop, Next_None, Next_Block, Next_Sleep, SpuriousWake, schedVars
  <2>4. CASE \E w \in Workers : WatcherStops(w) /\ UNCHANGED schedVars
    BY <2>1, <2>4 DEF WatcherStops, ctlVars, idleVars, schedVars
  <2>5. CASE \E min \in TaskMins : SetTaskRange(min) /\ UNCHANGED schedVars
    BY <2>1, <2>5 DEF SetTaskRange, ctlVars, idleVars, schedVars
  <2>6. CASE Shutdown
    <3>1. UNCHANGED <<m_queue, ipc, seen, spc>> /\ dpc # "returned"
      BY <2>6 DEF Shutdown, ShutdownCall, WatcherStop, RequestStop, PostStop, Join, ClearShards,
         ResetScheduler, SchedStop, NotifyAll, LoopStep, ShutdownFrame, idleVars, schedVars
    <3> QED
      BY <2>1, <3>1
  <2>7. CASE WaitForIdle
    <3>1. UNCHANGED <<m_queue, dpc, spc, m_scheduler>>
      BY <2>7 DEF WaitForIdle, IdleCall, IdleProgress, IdleSize, IdleFrame, ctlVars, schedVars
    <3>2. CASE IdleCall
      BY <3>1, <3>2 DEF IdleCall, SeenAccepted, IdleDrained, JoinInv
    <3>3. CASE IdleProgress
      BY <3>1, <3>3 DEF IdleProgress, SeenAccepted, IdleDrained
    <3>4. CASE IdleSize(Len(m_queue))
      <4>1. UNCHANGED seen /\ (ipc' \in {"progress", "returned"} => Len(m_queue) = 0)
        BY <3>4 DEF IdleSize
      <4>2. Len(m_queue) = 0 => DOMAIN m_queue = {}
        BY <2>0
      <4> QED
        BY <3>1, <4>1, <4>2 DEF SeenAccepted, IdleDrained
    <3> QED
      BY <2>7, <3>2, <3>3, <3>4 DEF WaitForIdle
  <2>8. CASE UNCHANGED vars
    BY <2>1, <2>8 DEF vars, poolVars, schedVars
  <2> QED
    BY <2>2, <2>3, <2>4, <2>5, <2>6, <2>7, <2>8 DEF Next
<1> QED
  BY <1>1, <1>2, TypeCorrect, JoinInvariant, PTL DEF Spec

=============================================================================
