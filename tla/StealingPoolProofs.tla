------------------------- MODULE StealingPoolProofs -------------------------
(***************************************************************************)
(* Proofs about StealingPool for every number of workers, every set of     *)
(* tasks and every capacity of the queues.  The count beside the queues is *)
(* never exact, and next() acts on it; what is shown is how far off it can *)
(* be, and that no wake-up is lost because of it.                          *)
(***************************************************************************)
EXTENDS StealingPool, FiniteSetTheorems, TLAPS

(* The indices the code computes are indices of workers. *)
LEMMA Indices ==
    /\ 0 \in Workers
    /\ \A i, j \in Workers : (i + j) % NumWorkers \in Workers
    /\ \A i \in Workers : (i + 1) % NumWorkers \in Workers
    /\ \A i \in Workers : i + 1 # NumWorkers => i + 1 \in Workers
<1>1. NumWorkers \in Nat /\ NumWorkers > 0
  BY PoolAssumption
<1>2. \A x \in Int : x % NumWorkers \in 0 .. NumWorkers - 1
  BY <1>1
<1> QED
  BY <1>1, <1>2 DEF Workers

(* Workers are finitely many and the bounds are numbers, with room in the count. *)
LEMMA Bounds ==
    /\ NumWorkers \in Nat /\ NumWorkers > 0
    /\ Cap \in Nat /\ Cap > 0 /\ Modulus \in Nat
    /\ NumWorkers * Cap \in Nat /\ NumWorkers * Cap + NumWorkers < Modulus
<1>1. NumWorkers \in Nat /\ NumWorkers > 0 /\ Cap \in Nat /\ Cap > 0 /\ Modulus \in Nat
      /\ NumWorkers * (Cap + 1) < Modulus
  BY PoolAssumption, StealingAssumption
<1>2. NumWorkers * (Cap + 1) = NumWorkers * Cap + NumWorkers /\ NumWorkers * Cap \in Nat
  BY <1>1
<1> QED
  BY <1>1, <1>2

(* What the variables may hold along a submit(). *)
LEMMA SubmitType ==
    ASSUME TypeOK, NEW t \in Tasks, Submit(t)
    PROVE  TypeOK'
<1> USE DEF TypeOK, PoolTypeOK, SubmitPC, FutureState, GoSubmit, SubmitFrame, ctlVars, workerVars,
            idleVars, schedVars
<1>1. CASE SubmitPriority(t) /\ UNCHANGED schedVars
  BY <1>1 DEF SubmitPriority
<1>2. CASE CreateDescriptor(t) /\ UNCHANGED schedVars
  BY <1>2 DEF CreateDescriptor
<1>3. CASE SubmitDescriptor(t) /\ UNCHANGED schedVars
  BY <1>3 DEF SubmitDescriptor
<1>4. CASE Admit(t) /\ UNCHANGED schedVars
  BY <1>4 DEF Admit
<1>5. CASE Register(t) /\ UNCHANGED schedVars
  BY <1>5 DEF Register
<1>6. CASE Post(t) /\ UNCHANGED schedVars
  BY <1>6 DEF Post
<1>7. CASE EnqueuePick(t)
  <2>1. (m_submitCounter + 1) % NumWorkers \in Workers
    BY Indices
  <2> QED
    BY <1>7, <2>1 DEF EnqueuePick
<1>8. CASE EnqueuePush(t)
  <2>1. CASE UNCHANGED m_queue
    BY <1>8, <2>1 DEF EnqueuePush
  <2>2. CASE Len(m_queue[target[t]]) < Cap
             /\ m_queue' = [m_queue EXCEPT ![target[t]] = Append(@, t)]
    <3>1. PICK v \in Workers : v = target[t]
      OBVIOUS
    <3>2. m_queue[v] \in Seq(Tasks) /\ Len(m_queue[v]) < Cap
      BY <2>2, <3>1
    <3>3. Append(m_queue[v], t) \in Seq(Tasks) /\ Len(Append(m_queue[v], t)) <= Cap
      BY <3>2, Bounds
    <3>4. /\ m_queue' \in [Workers -> Seq(Tasks)]
          /\ \A w \in Workers : Len(m_queue'[w]) <= Cap
      BY <2>2, <3>1, <3>3
    <3> QED
      BY <1>8, <3>4 DEF EnqueuePush
  <2> QED
    BY <1>8, <2>1, <2>2 DEF EnqueuePush
<1>9. CASE EnqueueCount(t)
  <2>1. (m_totalSize + 1) % Modulus \in 0 .. Modulus - 1
    BY Bounds
  <2> QED
    BY <1>9, <2>1 DEF EnqueueCount
<1>10. QED
  BY <1>1, <1>2, <1>3, <1>4, <1>5, <1>6, <1>7, <1>8, <1>9 DEF Submit

(* The queue a worker looks at next is a worker's. *)
LEMMA VictimIsWorker ==
    ASSUME TypeOK, NEW w \in Workers
    PROVE  Victim(w) \in Workers
BY Indices DEF TypeOK, Victim

(* A step of workerLoop() keeps the types; a pop leaves the rest of a queue within bounds. *)
LEMMA WorkerType ==
    ASSUME TypeOK, NEW w \in Workers, WorkerLoop(w)
    PROVE  TypeOK'
<1> USE DEF TypeOK, PoolTypeOK, WorkerPC, Go, WorkerFrame, ctlVars, idleVars, schedVars
<1>1. CASE LoopTop(w) /\ UNCHANGED schedVars
  BY <1>1 DEF LoopTop
<1>2. CASE SemWait(w) /\ UNCHANGED schedVars
  BY <1>2 DEF SemWait
<1>3. CASE Woken(w) /\ UNCHANGED schedVars
  BY <1>3 DEF Woken
<1>4. CASE Claim(w) /\ UNCHANGED schedVars
  BY <1>4 DEF Claim
<1>5. CASE Repost(w) /\ UNCHANGED schedVars
  BY <1>5 DEF Repost
<1>6. CASE Begin(w) /\ UNCHANGED schedVars
  BY <1>6 DEF Begin
<1>7. CASE Run(w) /\ UNCHANGED schedVars
  BY <1>7 DEF Run, FutureState
<1>8. CASE Finish(w) /\ UNCHANGED schedVars
  BY <1>8 DEF Finish
<1>9. CASE Phantom(w, m_totalSize) /\ UNCHANGED schedVars
  BY <1>9 DEF Phantom
<1>10. CASE Next_Empty(w)
  BY <1>10 DEF Next_Empty, GotNone
<1>11. CASE Next_Start(w)
  BY <1>11, Indices DEF Next_Start
<1>12. CASE Next_Pop(w)
  <2>1. PICK v \in Workers : v = Victim(w)
    BY VictimIsWorker
  <2>2. m_queue[v] \in Seq(Tasks) /\ m_queue[v] # << >>
    BY <1>12, <2>1 DEF Next_Pop
  <2>3. Head(m_queue[v]) \in Tasks /\ Tail(m_queue[v]) \in Seq(Tasks)
        /\ Len(Tail(m_queue[v])) <= Cap
    BY <2>2, Bounds
  <2> QED
    BY <1>12, <2>1, <2>3 DEF Next_Pop
<1>13. CASE Next_Miss(w)
  <2>1. CASE scan[w] + 1 = NumWorkers
    BY <1>13, <2>1 DEF Next_Miss
  <2>2. CASE scan[w] + 1 # NumWorkers
    <3>1. scan[w] + 1 \in Workers
      BY <2>2, Indices
    <3> QED
      BY <1>13, <2>2, <3>1 DEF Next_Miss
  <2> QED
    BY <2>1, <2>2
<1>14. CASE Next_Sub(w)
  <2>1. (m_totalSize - 1) % Modulus \in 0 .. Modulus - 1
    BY Bounds
  <2> QED
    BY <1>14, <2>1 DEF Next_Sub
<1>15. QED
  BY <1>1, <1>2, <1>3, <1>4, <1>5, <1>6, <1>7, <1>8, <1>9, <1>10, <1>11, <1>12, <1>13, <1>14
     DEF WorkerLoop

(* A step of shutdown() keeps the types. *)
LEMMA ShutdownType ==
    ASSUME TypeOK, Shutdown
    PROVE  TypeOK'
<1> USE DEF TypeOK, PoolTypeOK, ShutdownPC, ShutdownFrame, workerVars, idleVars, schedVars
<1>0. ASSUME NEW a, NEW b, LoopStep(a, b) PROVE di' \in Workers /\ dpc' \in {dpc, b}
  BY <1>0, Indices DEF LoopStep
<1>1. CASE ShutdownCall /\ UNCHANGED schedVars
  BY <1>1 DEF ShutdownCall
<1>2. CASE WatcherStop /\ UNCHANGED schedVars
  BY <1>2 DEF WatcherStop
<1>3. CASE RequestStop /\ UNCHANGED schedVars
  BY <1>0, <1>3 DEF RequestStop
<1>4. CASE PostStop /\ UNCHANGED schedVars
  BY <1>0, <1>4 DEF PostStop
<1>5. CASE Join /\ UNCHANGED schedVars
  BY <1>0, <1>5 DEF Join
<1>6. CASE ClearShards /\ UNCHANGED schedVars
  BY <1>6 DEF ClearShards, FutureState
<1>7. CASE ResetScheduler /\ UNCHANGED schedVars
  BY <1>7 DEF ResetScheduler
<1>8. CASE SchedStop
  BY <1>8 DEF SchedStop
<1>9. CASE CloseQueue
  BY <1>0, <1>9 DEF CloseQueue
<1> QED
  BY <1>1, <1>2, <1>3, <1>4, <1>5, <1>6, <1>7, <1>8, <1>9 DEF Shutdown

(* What the variables of the pool and of the stealing scheduler may hold: no queue grows   *)
(* past its capacity, the round-robin counter and the walk over the queues stay in range.  *)
THEOREM TypeCorrect == Spec => []TypeOK
<1>1. Init => TypeOK
  <2> SUFFICES ASSUME Init PROVE TypeOK
    OBVIOUS
  <2>1. PoolTypeOK
    <3>1. spc \in [Tasks -> SubmitPC] /\ future \in [Tasks -> FutureState]
      BY DEF Init, PoolInit, SubmitPC, FutureState
    <3>2. wpc \in [Workers -> WorkerPC] /\ wtask \in [Workers -> Tasks \cup {NoTask}]
          /\ stopReq \in [Workers -> BOOLEAN]
      BY DEF Init, PoolInit, WorkerPC
    <3> QED
      BY <3>1, <3>2, Indices DEF Init, PoolInit, PoolTypeOK, ShutdownPC, IdlePC
  <2>2. << >> \in Seq(Tasks) /\ Len(<< >>) <= Cap
    BY Bounds
  <2>3. m_queue \in [Workers -> Seq(Tasks)] /\ \A w \in Workers : Len(m_queue[w]) <= Cap
    BY <2>2 DEF Init
  <2> QED
    BY <2>1, <2>3, Indices, Bounds DEF Init, TypeOK
<1>2. TypeOK /\ [Next]_vars => TypeOK'
  <2> SUFFICES ASSUME TypeOK, [Next]_vars PROVE TypeOK'
    OBVIOUS
  <2>1. CASE \E t \in Tasks : Submit(t)
    BY <2>1, SubmitType
  <2>2. CASE \E w \in Workers : WorkerLoop(w)
    BY <2>2, WorkerType
  <2>3. CASE \E w \in Workers : WatcherStops(w) /\ UNCHANGED schedVars
    BY <2>3 DEF TypeOK, PoolTypeOK, WatcherStops, ctlVars, workerVars, idleVars, schedVars
  <2>4. CASE \E min \in TaskMins : SetTaskRange(min) /\ UNCHANGED schedVars
    BY <2>4, PoolAssumption DEF TypeOK, PoolTypeOK, SetTaskRange, ctlVars, workerVars, idleVars, schedVars
  <2>5. CASE Shutdown
    BY <2>5, ShutdownType
  <2>6. CASE WaitForIdle
    BY <2>6 DEF TypeOK, PoolTypeOK, WaitForIdle, IdleCall, IdleProgress, IdleSize, IdleFrame, IdlePC,
       ctlVars, workerVars, schedVars
  <2>7. CASE UNCHANGED vars
    BY <2>7 DEF TypeOK, PoolTypeOK, vars, poolVars, schedVars
  <2> QED
    BY <2>1, <2>2, <2>3, <2>4, <2>5, <2>6, <2>7 DEF Next
<1> QED
  BY <1>1, <1>2, PTL DEF Spec

-----------------------------------------------------------------------------
(* The sets that the two invariants count. *)
Counting == {t \in Tasks : spc[t] = "count"}
Posting == {t \in Tasks \ Foreign : spc[t] \in {"count", "post"}}
Popped == {w \in Workers : wpc[w] = "sub"}
Tokens == {w \in Workers : wpc[w] \in HasToken}

(* Only calls in flight are counted, so there are finitely many, of tasks or not. *)
FiniteCalls == IsFiniteSet(Counting) /\ IsFiniteSet(Posting)

(* A descriptor of another type never gets into a queue. *)
OwnPushes == \A t \in Tasks : spc[t] \in {"push", "count"} => t \notin Foreign

(* The count and the calls in flight give what is queued, up to the wrapping. *)
Balance ==
    \E k \in Int : m_totalSize + Cardinality(Counting) - Cardinality(Popped) = Queued + Modulus * k

CountInv == FiniteCalls /\ OwnPushes /\ Balance /\ TokenCoverage

(* Two sets that agree but for one element: how their sizes differ. *)
LEMMA OneElement ==
    ASSUME NEW A, NEW B, NEW x, IsFiniteSet(A), A \ {x} = B \ {x}
    PROVE  /\ IsFiniteSet(B)
           /\ Cardinality(A) \in Nat /\ Cardinality(B) \in Nat
           /\ Cardinality(B) = Cardinality(A) + (IF x \in B THEN 1 ELSE 0) - (IF x \in A THEN 1 ELSE 0)
<1>1. Cardinality(A) \in Nat
  BY FS_CardinalityType
<1>2. CASE x \notin A /\ x \in B
  <2>1. B = A \cup {x}
    BY <1>2
  <2>2. IsFiniteSet(A \cup {x}) /\ Cardinality(A \cup {x}) = Cardinality(A) + 1
    BY <1>2, FS_AddElement
  <2> QED
    BY <1>1, <1>2, <2>1, <2>2
<1>3. CASE x \in A /\ x \notin B
  <2>1. B = A \ {x}
    BY <1>3
  <2>2. IsFiniteSet(A \ {x}) /\ Cardinality(A \ {x}) = Cardinality(A) - 1
    BY <1>3, FS_RemoveElement
  <2>3. Cardinality(B) \in Nat
    BY <2>1, <2>2, FS_CardinalityType
  <2> QED
    BY <1>1, <1>3, <2>1, <2>2, <2>3
<1>4. CASE x \in A <=> x \in B
  <2>1. B = A
    BY <1>4
  <2> QED
    BY <1>1, <1>4, <2>1
<1> QED
  BY <1>2, <1>3, <1>4

(* The queues hold no more tasks than they have room for. *)
LEMMA QueuedBound ==
    ASSUME TypeOK
    PROVE  IsFiniteSet(Slots) /\ Queued \in Nat /\ Queued <= NumWorkers * Cap
<1>1. IsFiniteSet(Workers) /\ Cardinality(Workers) = NumWorkers
  BY FS_Interval, Bounds DEF Workers
<1>2. IsFiniteSet(1 .. Cap) /\ Cardinality(1 .. Cap) = Cap
  BY FS_Interval, Bounds
<1>3. IsFiniteSet(Workers \X (1 .. Cap)) /\ Cardinality(Workers \X (1 .. Cap)) = NumWorkers * Cap
  BY <1>1, <1>2, FS_Product
<1>4. Slots \subseteq Workers \X (1 .. Cap)
  BY DEF Slots
<1> QED
  BY <1>3, <1>4, FS_Subset, FS_CardinalityType DEF Queued

(* A push fills one slot. *)
LEMMA PushSlots ==
    ASSUME TypeOK, NEW v \in Workers, NEW t \in Tasks, Len(m_queue[v]) < Cap,
           m_queue' = [m_queue EXCEPT ![v] = Append(@, t)]
    PROVE  Queued' = Queued + 1
<1>1. m_queue[v] \in Seq(Tasks) /\ m_queue \in [Workers -> Seq(Tasks)]
  BY DEF TypeOK
<1> DEFINE n == Len(m_queue[v]) + 1
<1>2. n \in 1 .. Cap
  BY <1>1, Bounds
<1>3. Len(m_queue'[v]) = n /\ \A w \in Workers : w # v => m_queue'[w] = m_queue[w]
  BY <1>1
<1>4. Slots' = Slots \cup {<<v, n>>}
  <2>1. \A p \in Workers \X (1 .. Cap) : p \in Slots' <=> p \in Slots \/ p = <<v, n>>
    <3> SUFFICES ASSUME NEW w \in Workers, NEW i \in 1 .. Cap
                 PROVE  i <= Len(m_queue'[w]) <=> i <= Len(m_queue[w]) \/ (w = v /\ i = n)
      BY DEF Slots
    <3>1. CASE w = v
      BY <1>1, <1>3, <3>1, Bounds
    <3>2. CASE w # v
      BY <1>3, <3>2
    <3> QED
      BY <3>1, <3>2
  <2> QED
    BY <1>2, <2>1 DEF Slots
<1>5. <<v, n>> \notin Slots
  BY <1>1 DEF Slots
<1> QED
  BY <1>4, <1>5, QueuedBound, FS_AddElement DEF Queued

(* A pop frees one slot. *)
LEMMA PopSlots ==
    ASSUME TypeOK, NEW v \in Workers, m_queue[v] # << >>,
           m_queue' = [m_queue EXCEPT ![v] = Tail(@)]
    PROVE  Queued' = Queued - 1
<1>1. m_queue[v] \in Seq(Tasks) /\ m_queue \in [Workers -> Seq(Tasks)] /\ Len(m_queue[v]) <= Cap
  BY DEF TypeOK
<1> DEFINE n == Len(m_queue[v])
<1>2. n \in 1 .. Cap
  BY <1>1, Bounds
<1>3. n \in Nat /\ Len(m_queue'[v]) = n - 1 /\ \A w \in Workers : w # v => m_queue'[w] = m_queue[w]
  BY <1>1
<1>4. Slots' = Slots \ {<<v, n>>}
  <2>1. \A p \in Workers \X (1 .. Cap) : p \in Slots' <=> p \in Slots /\ p # <<v, n>>
    <3> SUFFICES ASSUME NEW w \in Workers, NEW i \in 1 .. Cap
                 PROVE  i <= Len(m_queue'[w]) <=> i <= Len(m_queue[w]) /\ ~(w = v /\ i = n)
      BY DEF Slots
    <3>1. CASE w = v
      <4> HIDE DEF n
      <4>1. i \in Int /\ n \in Int /\ Len(m_queue'[w]) = n - 1 /\ Len(m_queue[w]) = n
        BY <1>2, <1>3, <3>1, Bounds DEF n
      <4> QED
        BY <3>1, <4>1
    <3>2. CASE w # v
      BY <1>3, <3>2
    <3> QED
      BY <3>1, <3>2
  <2> QED
    BY <2>1 DEF Slots
<1>5. <<v, n>> \in Slots
  BY <1>1, <1>2 DEF Slots
<1> QED
  BY <1>4, <1>5, QueuedBound, FS_RemoveElement DEF Queued

(* The sets that are counted are finite, and their sizes are numbers. *)
LEMMA Sizes ==
    ASSUME TypeOK, FiniteCalls
    PROVE  /\ IsFiniteSet(Popped) /\ IsFiniteSet(Tokens)
           /\ Cardinality(Popped) \in 0 .. NumWorkers
           /\ Cardinality(Tokens) \in Nat /\ Cardinality(Counting) \in Nat /\ Cardinality(Posting) \in Nat
<1>1. IsFiniteSet(Workers) /\ Cardinality(Workers) = NumWorkers
  BY FS_Interval, Bounds DEF Workers
<1>2. Popped \subseteq Workers /\ Tokens \subseteq Workers
  BY DEF Popped, Tokens
<1> QED
  BY <1>1, <1>2, FS_Subset, FS_CardinalityType DEF FiniteCalls

(* A worker moves on: how many are then in each of the sets. *)
LEMMA WorkerMoves ==
    ASSUME TypeOK, NEW w \in Workers, \A v \in Workers : v # w => wpc'[v] = wpc[v]
    PROVE  /\ Cardinality(Popped') = Cardinality(Popped) + (IF wpc'[w] = "sub" THEN 1 ELSE 0)
                                     - (IF wpc[w] = "sub" THEN 1 ELSE 0)
           /\ Cardinality(Tokens') = Cardinality(Tokens) + (IF wpc'[w] \in HasToken THEN 1 ELSE 0)
                                     - (IF wpc[w] \in HasToken THEN 1 ELSE 0)
<1>1. wpc \in [Workers -> WorkerPC] /\ IsFiniteSet(Workers)
  BY FS_Interval, Bounds DEF TypeOK, PoolTypeOK, Workers
<1>2. IsFiniteSet(Popped) /\ IsFiniteSet(Tokens)
  BY <1>1, FS_Subset DEF Popped, Tokens
<1>3. /\ Popped \ {w} = Popped' \ {w} /\ Tokens \ {w} = Tokens' \ {w}
      /\ w \in Popped <=> wpc[w] = "sub"
      /\ w \in Popped' <=> wpc'[w] = "sub"
      /\ w \in Tokens <=> wpc[w] \in HasToken
      /\ w \in Tokens' <=> wpc'[w] \in HasToken
  BY <1>1 DEF Popped, Tokens
<1> QED
  BY <1>2, <1>3, OneElement

(* A submit() moves on: how many are then in each of the sets. *)
LEMMA SubmitMoves ==
    ASSUME TypeOK, FiniteCalls, NEW t \in Tasks, \A x \in Tasks : x # t => spc'[x] = spc[x]
    PROVE  /\ FiniteCalls' /\ Cardinality(Posting') \in Nat
           /\ Cardinality(Counting') = Cardinality(Counting) + (IF spc'[t] = "count" THEN 1 ELSE 0)
                                       - (IF spc[t] = "count" THEN 1 ELSE 0)
           /\ t \notin Foreign =>
                Cardinality(Posting') = Cardinality(Posting)
                                        + (IF spc'[t] \in {"count", "post"} THEN 1 ELSE 0)
                                        - (IF spc[t] \in {"count", "post"} THEN 1 ELSE 0)
           /\ t \in Foreign => Cardinality(Posting') = Cardinality(Posting)
<1>1. spc \in [Tasks -> SubmitPC]
  BY DEF TypeOK, PoolTypeOK
<1>2. /\ Counting \ {t} = Counting' \ {t} /\ Posting \ {t} = Posting' \ {t}
      /\ t \in Counting <=> spc[t] = "count"
      /\ t \in Counting' <=> spc'[t] = "count"
      /\ t \in Posting <=> t \notin Foreign /\ spc[t] \in {"count", "post"}
      /\ t \in Posting' <=> t \notin Foreign /\ spc'[t] \in {"count", "post"}
  BY <1>1 DEF Counting, Posting
<1>3. /\ IsFiniteSet(Counting') /\ Cardinality(Counting) \in Nat
      /\ Cardinality(Counting') = Cardinality(Counting) + (IF spc'[t] = "count" THEN 1 ELSE 0)
                                  - (IF spc[t] = "count" THEN 1 ELSE 0)
  BY <1>2, OneElement DEF FiniteCalls
<1>4. /\ IsFiniteSet(Posting') /\ Cardinality(Posting) \in Nat /\ Cardinality(Posting') \in Nat
      /\ Cardinality(Posting') = Cardinality(Posting) + (IF t \in Posting' THEN 1 ELSE 0)
                                 - (IF t \in Posting THEN 1 ELSE 0)
  BY <1>2, OneElement DEF FiniteCalls
<1> QED
  BY <1>2, <1>3, <1>4 DEF FiniteCalls

(* The step by which the count wraps. *)
LEMMA Wraps ==
    ASSUME NEW n \in 0 .. Modulus - 1
    PROVE  /\ \E d \in {0, -1} : (n + 1) % Modulus = n + 1 + Modulus * d
           /\ \E d \in {0, 1} : (n - 1) % Modulus = n - 1 + Modulus * d
<1>1. Modulus \in Nat /\ Modulus > 1
  BY Bounds
<1>2. CASE n + 1 < Modulus
  <2>1. (n + 1) % Modulus = n + 1
    BY <1>1, <1>2
  <2> QED
    BY <1>1, <2>1
<1> QED
  BY <1>1

(* What the ledgers add up is numbers. *)
Numbers ==
    /\ Queued \in Nat /\ m_totalSize \in Nat /\ m_workSemaphore \in Nat
    /\ Cardinality(Counting) \in Nat /\ Cardinality(Popped) \in Nat
    /\ Cardinality(Tokens) \in Nat /\ Cardinality(Posting) \in Nat

LEMMA AddsNumbers == TypeOK /\ FiniteCalls => Numbers
BY QueuedBound, Sizes, Bounds DEF TypeOK, PoolTypeOK, Numbers

(* The two ledgers after a step, from what it did to each of the terms. *)
LEMMA Ledgers ==
    ASSUME TypeOK, CountInv, TypeOK', FiniteCalls', OwnPushes',
           \E d \in {-1, 0, 1} :
               m_totalSize' + Cardinality(Counting') - Cardinality(Popped') - Queued'
               = m_totalSize + Cardinality(Counting) - Cardinality(Popped) - Queued + Modulus * d,
           \A w \in Workers : stopReq[w] => stopReq'[w],
           (\A w \in Workers : ~stopReq[w]) =>
               m_workSemaphore' + Cardinality(Tokens') + Cardinality(Posting') - Queued'
               >= m_workSemaphore + Cardinality(Tokens) + Cardinality(Posting) - Queued
    PROVE  CountInv'
<1>0. Numbers /\ Numbers'
  <2>1. TypeOK' /\ FiniteCalls' => Numbers'
    BY AddsNumbers, PTL
  <2> QED
    BY <2>1, AddsNumbers DEF CountInv
<1>1. Balance'
  <2>1. PICK k \in Int :
            m_totalSize + Cardinality(Counting) - Cardinality(Popped) = Queued + Modulus * k
    BY DEF CountInv, Balance
  <2>2. PICK d \in {-1, 0, 1} :
               m_totalSize' + Cardinality(Counting') - Cardinality(Popped') - Queued'
               = m_totalSize + Cardinality(Counting) - Cardinality(Popped) - Queued + Modulus * d
    OBVIOUS
  <2>3. Modulus * (k + d) = Modulus * k + Modulus * d /\ k + d \in Int
    BY Bounds
  <2>4. Modulus * k \in Int /\ Modulus * d \in Int
    BY Bounds
  <2>5. m_totalSize' + Cardinality(Counting') - Cardinality(Popped') = Queued' + Modulus * (k + d)
    <3> DEFINE mk == Modulus * k
               md == Modulus * d
               mkd == Modulus * (k + d)
    <3>1. /\ m_totalSize + Cardinality(Counting) - Cardinality(Popped) = Queued + mk
          /\ m_totalSize' + Cardinality(Counting') - Cardinality(Popped') - Queued'
             = m_totalSize + Cardinality(Counting) - Cardinality(Popped) - Queued + md
          /\ mkd = mk + md /\ mk \in Int /\ md \in Int
      BY <2>1, <2>2, <2>3, <2>4
    <3> HIDE DEF mk, md, mkd
    <3>2. m_totalSize' + Cardinality(Counting') - Cardinality(Popped') = Queued' + mkd
      BY <1>0, <3>1 DEF Numbers
    <3> QED
      BY <3>2 DEF mkd
  <2> QED
    BY <2>3, <2>5 DEF Balance
<1>2. TokenCoverage'
  <2> SUFFICES ASSUME \A w \in Workers : ~stopReq'[w]
               PROVE  Queued' <= m_workSemaphore' + Cardinality(Tokens') + Cardinality(Posting')
    BY DEF TokenCoverage, Tokens, Posting
  <2>1. Queued <= m_workSemaphore + Cardinality(Tokens) + Cardinality(Posting)
    BY DEF CountInv, TokenCoverage, Tokens, Posting
  <2> QED
    BY <1>0, <2>1 DEF Numbers
<1> QED
  BY <1>1, <1>2 DEF CountInv

(* submit(): the push fills a slot before it is counted, and is counted before it posts. *)
LEMMA SubmitCount ==
    ASSUME TypeOK, CountInv, NEW t \in Tasks, Submit(t)
    PROVE  CountInv'
<1> USE DEF GoSubmit, SubmitFrame, ctlVars, workerVars, schedVars
<1>1. TypeOK' /\ Numbers /\ FiniteCalls /\ OwnPushes /\ spc \in [Tasks -> SubmitPC]
  BY SubmitType, AddsNumbers DEF CountInv, TypeOK, PoolTypeOK
<1>2. UNCHANGED <<wpc, stopReq>>
  BY DEF Submit, SubmitPriority, CreateDescriptor, SubmitDescriptor, Admit, Register, Post,
     EnqueuePick, EnqueuePush, EnqueueCount
<1>3. Popped' = Popped /\ Tokens' = Tokens /\ \A w \in Workers : stopReq[w] => stopReq'[w]
  BY <1>2 DEF Popped, Tokens
<1>4. m_queue' = m_queue => Queued' = Queued
  BY DEF Queued, Slots
<1>5. Modulus * 0 = 0 /\ Modulus * (-1) = -Modulus /\ Modulus * 1 = Modulus /\ Modulus \in Int
  BY Bounds
<1>0. /\ FiniteCalls' /\ Cardinality(Posting') \in Nat
      /\ Cardinality(Counting') = Cardinality(Counting) + (IF spc'[t] = "count" THEN 1 ELSE 0)
                                  - (IF spc[t] = "count" THEN 1 ELSE 0)
      /\ t \notin Foreign =>
           Cardinality(Posting') = Cardinality(Posting)
                                   + (IF spc'[t] \in {"count", "post"} THEN 1 ELSE 0)
                                   - (IF spc[t] \in {"count", "post"} THEN 1 ELSE 0)
      /\ t \in Foreign => Cardinality(Posting') = Cardinality(Posting)
  <2>1. \A x \in Tasks : x # t => spc'[x] = spc[x]
    BY <1>1 DEF Submit, SubmitPriority, CreateDescriptor, SubmitDescriptor, Admit, Register, Post,
       EnqueuePick, EnqueuePush, EnqueueCount
  <2> QED
    BY <1>1, <2>1, SubmitMoves
<1>6. ASSUME UNCHANGED <<m_queue, m_totalSize, m_workSemaphore>>, spc[t] \notin {"count", "post"},
             NEW pc \in SubmitPC \ {"count"}, spc' = [spc EXCEPT ![t] = pc],
             pc = "push" => t \notin Foreign
      PROVE  CountInv'
  <2>1. /\ FiniteCalls' /\ Cardinality(Counting') = Cardinality(Counting)
        /\ Cardinality(Posting') \in Nat /\ Cardinality(Posting') >= Cardinality(Posting)
    BY <1>1, <1>6, <1>0 DEF Numbers
  <2>2. OwnPushes'
    BY <1>1, <1>6 DEF OwnPushes
  <2>3. m_totalSize' + Cardinality(Counting') - Cardinality(Popped') - Queued'
        = m_totalSize + Cardinality(Counting) - Cardinality(Popped) - Queued + Modulus * 0
    BY <1>1, <1>3, <1>4, <1>5, <1>6, <2>1 DEF Numbers
  <2>4. m_workSemaphore' + Cardinality(Tokens') + Cardinality(Posting') - Queued'
        >= m_workSemaphore + Cardinality(Tokens) + Cardinality(Posting) - Queued
    BY <1>1, <1>3, <1>4, <1>6, <2>1 DEF Numbers
  <2> QED
    BY <1>1, <1>3, <2>1, <2>2, <2>3, <2>4, Ledgers
<1>7. CASE SubmitPriority(t) \/ CreateDescriptor(t) \/ SubmitDescriptor(t) \/ Admit(t) \/ Register(t)
  <2>1. UNCHANGED schedVars
    BY <1>1, <1>7 DEF Submit, SubmitPriority, CreateDescriptor, SubmitDescriptor, Admit, Register, Post,
       EnqueuePick, EnqueuePush, EnqueueCount
  <2>2. /\ spc[t] \notin {"count", "post"} /\ UNCHANGED m_workSemaphore
        /\ \E pc \in SubmitPC \ {"count", "push"} : spc' = [spc EXCEPT ![t] = pc]
    BY <1>7 DEF SubmitPriority, CreateDescriptor, SubmitDescriptor, Admit, Register, SubmitPC
  <2> QED
    BY <1>6, <2>1, <2>2
<1>8. CASE EnqueuePick(t)
  <2>1. /\ spc[t] \notin {"count", "post"} /\ UNCHANGED <<m_queue, m_totalSize, m_workSemaphore>>
        /\ \E pc \in SubmitPC \ {"count"} :
               spc' = [spc EXCEPT ![t] = pc] /\ (pc = "push" => t \notin Foreign)
    BY <1>8 DEF EnqueuePick, SubmitPC
  <2> QED
    BY <1>6, <2>1
<1>9. CASE EnqueuePush(t)
  <2>1. CASE UNCHANGED m_queue /\ spc' = [spc EXCEPT ![t] = "post"]
    <3>1. /\ spc[t] \notin {"count", "post"} /\ UNCHANGED <<m_queue, m_totalSize, m_workSemaphore>>
          /\ "post" \in SubmitPC \ {"count"}
      BY <1>9, <2>1 DEF EnqueuePush, SubmitPC
    <3> QED
      BY <1>6, <2>1, <3>1
  <2>2. CASE Len(m_queue[target[t]]) < Cap
             /\ m_queue' = [m_queue EXCEPT ![target[t]] = Append(@, t)]
             /\ spc' = [spc EXCEPT ![t] = "count"]
    <3>1. PICK v \in Workers : v = target[t]
      BY DEF TypeOK
    <3>2. Queued' = Queued + 1
      BY <2>2, <3>1, PushSlots
    <3>3. /\ spc[t] = "push" /\ UNCHANGED <<m_totalSize, m_workSemaphore>> /\ t \notin Foreign
          /\ "count" \in SubmitPC
      BY <1>1, <1>9 DEF EnqueuePush, OwnPushes, SubmitPC
    <3>4. /\ FiniteCalls' /\ Cardinality(Counting') = Cardinality(Counting) + 1
          /\ Cardinality(Posting') = Cardinality(Posting) + 1
      BY <1>1, <2>2, <3>3, <1>0 DEF Numbers
    <3>5. OwnPushes'
      BY <1>1, <2>2, <3>3 DEF OwnPushes
    <3>6. m_totalSize' + Cardinality(Counting') - Cardinality(Popped') - Queued'
          = m_totalSize + Cardinality(Counting) - Cardinality(Popped) - Queued + Modulus * 0
      BY <1>1, <1>3, <1>5, <3>2, <3>3, <3>4 DEF Numbers
    <3>7. m_workSemaphore' + Cardinality(Tokens') + Cardinality(Posting') - Queued'
          >= m_workSemaphore + Cardinality(Tokens) + Cardinality(Posting) - Queued
      BY <1>1, <1>3, <3>2, <3>3, <3>4 DEF Numbers
    <3> QED
      BY <1>1, <1>3, <3>4, <3>5, <3>6, <3>7, Ledgers
  <2> QED
    BY <1>9, <2>1, <2>2 DEF EnqueuePush
<1>10. CASE EnqueueCount(t)
  <2>1. /\ spc[t] = "count" /\ UNCHANGED <<m_queue, m_workSemaphore>>
        /\ spc' = [spc EXCEPT ![t] = "post"] /\ m_totalSize' = (m_totalSize + 1) % Modulus
        /\ "post" \in SubmitPC
    BY <1>10 DEF EnqueueCount, SubmitPC
  <2>2. /\ FiniteCalls' /\ Cardinality(Counting') = Cardinality(Counting) - 1
        /\ Cardinality(Posting') = Cardinality(Posting)
    BY <1>1, <2>1, <1>0 DEF Numbers
  <2>3. OwnPushes'
    BY <1>1, <2>1 DEF OwnPushes
  <2>4. PICK d \in {0, -1} : m_totalSize' = m_totalSize + 1 + Modulus * d
    BY <2>1, Wraps DEF TypeOK
  <2>5. m_totalSize' + Cardinality(Counting') - Cardinality(Popped') - Queued'
        = m_totalSize + Cardinality(Counting) - Cardinality(Popped) - Queued + Modulus * d
    BY <1>1, <1>3, <1>4, <1>5, <2>1, <2>2, <2>4 DEF Numbers
  <2>6. m_workSemaphore' + Cardinality(Tokens') + Cardinality(Posting') - Queued'
        >= m_workSemaphore + Cardinality(Tokens) + Cardinality(Posting) - Queued
    BY <1>1, <1>3, <1>4, <2>1, <2>2 DEF Numbers
  <2> QED
    BY <1>1, <1>3, <2>2, <2>3, <2>5, <2>6, Ledgers
<1>11. CASE Post(t) /\ UNCHANGED schedVars
  <2>1. /\ spc[t] = "post" /\ UNCHANGED <<m_queue, m_totalSize>>
        /\ spc' = [spc EXCEPT ![t] = "accepted"] /\ m_workSemaphore' = m_workSemaphore + 1
        /\ "accepted" \in SubmitPC
    BY <1>11 DEF Post, SubmitPC
  <2>2. /\ FiniteCalls' /\ Cardinality(Counting') = Cardinality(Counting)
        /\ Cardinality(Posting') \in Nat /\ Cardinality(Posting') >= Cardinality(Posting) - 1
    BY <1>1, <2>1, <1>0 DEF Numbers
  <2>3. OwnPushes'
    BY <1>1, <2>1 DEF OwnPushes
  <2>4. m_totalSize' + Cardinality(Counting') - Cardinality(Popped') - Queued'
        = m_totalSize + Cardinality(Counting) - Cardinality(Popped) - Queued + Modulus * 0
    BY <1>1, <1>3, <1>4, <1>5, <2>1, <2>2 DEF Numbers
  <2>5. m_workSemaphore' + Cardinality(Tokens') + Cardinality(Posting') - Queued'
        >= m_workSemaphore + Cardinality(Tokens) + Cardinality(Posting) - Queued
    BY <1>1, <1>3, <1>4, <2>1, <2>2 DEF Numbers
  <2> QED
    BY <1>1, <1>3, <2>2, <2>3, <2>4, <2>5, Ledgers
<1> QED
  BY <1>7, <1>8, <1>9, <1>10, <1>11 DEF Submit

(* A count of zero is believed: then every queued task has a submit() that has still to post. *)
LEMMA ZeroIsCovered ==
    ASSUME TypeOK, CountInv, m_totalSize = 0
    PROVE  Queued <= Cardinality(Posting)
<1>1. PICK k \in Int : Cardinality(Counting) - Cardinality(Popped) = Queued + Modulus * k
  BY Sizes DEF CountInv, Balance
<1>2. Cardinality(Counting) <= Cardinality(Posting)
  <2>1. Counting \subseteq Posting
    BY DEF CountInv, OwnPushes, Counting, Posting
  <2> QED
    BY <2>1, FS_Subset DEF CountInv, FiniteCalls
<1>3. /\ Cardinality(Counting) \in Nat /\ Cardinality(Popped) \in 0 .. NumWorkers
      /\ Cardinality(Posting) \in Nat
  BY Sizes DEF CountInv
<1>4. Queued \in Nat /\ Queued <= NumWorkers * Cap
  BY QueuedBound
<1> DEFINE room == NumWorkers * Cap
           mk == Modulus * k
<1>5. room \in Nat /\ room + NumWorkers < Modulus /\ Modulus \in Nat /\ NumWorkers \in Nat
  BY Bounds
<1>6. mk \in Int /\ (k >= 0 => mk >= 0) /\ (k < 0 => mk <= -Modulus)
  BY <1>5
<1>7. Cardinality(Counting) - Cardinality(Popped) = Queued + mk /\ Queued <= room
  BY <1>1, <1>4
<1> HIDE DEF room, mk
<1> QED
  BY <1>2, <1>3, <1>4, <1>5, <1>6, <1>7

(* workerLoop(): a token is given up for a task, or posted again, or believed superfluous. *)
LEMMA WorkerCount ==
    ASSUME TypeOK, CountInv, NEW w \in Workers, WorkerLoop(w)
    PROVE  CountInv'
<1> USE DEF Go, WorkerFrame, ctlVars, idleVars, schedVars
<1>1. TypeOK' /\ Numbers /\ FiniteCalls /\ OwnPushes /\ wpc \in [Workers -> WorkerPC]
  BY WorkerType, AddsNumbers DEF CountInv, TypeOK, PoolTypeOK
<1>2. UNCHANGED <<spc, stopReq>>
  BY DEF WorkerLoop, LoopTop, SemWait, Woken, Claim, Repost, Begin, Run, Finish, Phantom, Next_Empty,
     Next_Start, Next_Pop, Next_Miss, Next_Sub, GotNone
<1>3. /\ Counting' = Counting /\ Posting' = Posting /\ FiniteCalls' /\ OwnPushes'
      /\ \A v \in Workers : stopReq[v] => stopReq'[v]
  BY <1>1, <1>2 DEF Counting, Posting, FiniteCalls, OwnPushes
<1>4. m_queue' = m_queue => Queued' = Queued
  BY DEF Queued, Slots
<1>5. Modulus * 0 = 0 /\ Modulus * (-1) = -Modulus /\ Modulus * 1 = Modulus /\ Modulus \in Int
  BY Bounds
<1>6. \A v \in Workers : v # w => wpc'[v] = wpc[v]
  BY <1>1 DEF WorkerLoop, LoopTop, SemWait, Woken, Claim, Repost, Begin, Run, Finish, Phantom, Next_Empty,
     Next_Start, Next_Pop, Next_Miss, Next_Sub, GotNone
<1>7. /\ Cardinality(Popped') = Cardinality(Popped) + (IF wpc'[w] = "sub" THEN 1 ELSE 0)
                                - (IF wpc[w] = "sub" THEN 1 ELSE 0)
      /\ Cardinality(Tokens') = Cardinality(Tokens) + (IF wpc'[w] \in HasToken THEN 1 ELSE 0)
                                - (IF wpc[w] \in HasToken THEN 1 ELSE 0)
  BY <1>6, WorkerMoves
<1>8. ASSUME UNCHANGED <<m_queue, m_totalSize>>, wpc[w] # "sub", wpc'[w] # "sub",
             m_workSemaphore' + (IF wpc'[w] \in HasToken THEN 1 ELSE 0)
             >= m_workSemaphore + (IF wpc[w] \in HasToken THEN 1 ELSE 0)
             \/ stopReq[w],
             m_workSemaphore' \in Nat
      PROVE  CountInv'
  <2>1. m_totalSize' + Cardinality(Counting') - Cardinality(Popped') - Queued'
        = m_totalSize + Cardinality(Counting) - Cardinality(Popped) - Queued + Modulus * 0
    BY <1>1, <1>3, <1>4, <1>5, <1>7, <1>8 DEF Numbers
  <2>2. (\A v \in Workers : ~stopReq[v]) =>
            m_workSemaphore' + Cardinality(Tokens') + Cardinality(Posting') - Queued'
            >= m_workSemaphore + Cardinality(Tokens) + Cardinality(Posting) - Queued
    <3> SUFFICES ASSUME \A v \in Workers : ~stopReq[v]
                 PROVE  m_workSemaphore' + Cardinality(Tokens') + Cardinality(Posting') - Queued'
                        >= m_workSemaphore + Cardinality(Tokens) + Cardinality(Posting) - Queued
      OBVIOUS
    <3>1. PICK sem \in Nat : sem = m_workSemaphore'
      BY <1>8
    <3>2. \E before, after \in {0, 1} :
             /\ sem + after >= m_workSemaphore + before
             /\ Cardinality(Tokens') = Cardinality(Tokens) + after - before
      BY <1>7, <1>8, <3>1
    <3>3. Queued' = Queued /\ Cardinality(Posting') = Cardinality(Posting)
      BY <1>3, <1>4, <1>8
    <3>4. sem + Cardinality(Tokens') + Cardinality(Posting') - Queued'
          >= m_workSemaphore + Cardinality(Tokens) + Cardinality(Posting) - Queued
      BY <1>1, <3>2, <3>3 DEF Numbers
    <3> QED
      BY <3>1, <3>4
  <2> QED
    BY <1>1, <1>3, <2>1, <2>2, Ledgers
<1>9. m_workSemaphore \in Nat /\ m_workSemaphore' \in Nat
  BY <1>1 DEF TypeOK, PoolTypeOK
<1>10. CASE LoopTop(w) \/ SemWait(w) \/ Woken(w) \/ Claim(w) \/ Repost(w) \/ Begin(w) \/ Run(w)
            \/ Finish(w)
  <2>1. UNCHANGED <<m_queue, m_totalSize>>
    BY <1>10 DEF WorkerLoop, LoopTop, SemWait, Woken, Claim, Repost, Begin, Run, Finish, Phantom,
       Next_Empty, Next_Start, Next_Pop, Next_Miss, Next_Sub
  <2>2. /\ wpc[w] # "sub" /\ wpc'[w] # "sub"
        /\ \/ m_workSemaphore' + (IF wpc'[w] \in HasToken THEN 1 ELSE 0)
              >= m_workSemaphore + (IF wpc[w] \in HasToken THEN 1 ELSE 0)
           \/ stopReq[w]
    <3>1. CASE LoopTop(w) \/ Claim(w) \/ Begin(w) \/ Run(w) \/ Finish(w)
      <4>1. /\ wpc[w] \in {"top", "claim", "begin", "run", "finish"} /\ UNCHANGED m_workSemaphore
            /\ wpc'[w] \in {"exited", "wait", "begin", "top", "run", "finish"}
        BY <1>1, <3>1 DEF LoopTop, Claim, Begin, Run, Finish
      <4> QED
        BY <1>9, <4>1 DEF HasToken
    <3>2. CASE SemWait(w)
      BY <1>1, <1>9, <3>2 DEF SemWait, HasToken
    <3>3. CASE Woken(w)
      BY <1>1, <1>9, <3>3 DEF Woken, HasToken
    <3>4. CASE Repost(w)
      BY <1>1, <1>9, <3>4 DEF Repost, HasToken
    <3> QED
      BY <1>10, <3>1, <3>2, <3>3, <3>4
  <2> QED
    BY <1>8, <1>9, <2>1, <2>2
<1>11. CASE Next_Empty(w) \/ Next_Start(w) \/ Next_Miss(w)
  <2>1. /\ UNCHANGED <<m_queue, m_totalSize, m_workSemaphore>>
        /\ wpc[w] \in {"next", "scan"} /\ wpc'[w] \in {"scan", "phantom"}
    BY <1>1, <1>11 DEF Next_Empty, Next_Start, Next_Miss, GotNone
  <2>2. wpc[w] \in HasToken /\ wpc'[w] \in HasToken /\ wpc[w] # "sub" /\ wpc'[w] # "sub"
    BY <2>1 DEF HasToken
  <2> QED
    BY <1>8, <1>9, <2>1, <2>2
<1>12. CASE Phantom(w, m_totalSize) /\ UNCHANGED schedVars
  <2>1. /\ UNCHANGED <<m_queue, m_totalSize, m_workSemaphore>> /\ wpc[w] = "phantom"
        /\ wpc'[w] = IF m_totalSize > 0 THEN "repost" ELSE "top"
    BY <1>1, <1>12 DEF Phantom
  <2>2. CASE m_totalSize > 0
    BY <1>8, <1>9, <2>1, <2>2 DEF HasToken
  <2>3. CASE m_totalSize = 0
    <3>1. Queued <= Cardinality(Posting)
      BY <2>3, ZeroIsCovered
    <3>2. Popped' = Popped
      BY <1>1, <1>6, <2>1, <2>3 DEF Popped
    <3>3. Balance'
      BY <1>3, <1>4, <2>1, <3>2 DEF CountInv, Balance
    <3>4. Numbers'
      <4>1. TypeOK' /\ FiniteCalls' => Numbers'
        BY AddsNumbers, PTL
      <4> QED
        BY <1>1, <1>3, <4>1
    <3>5. Queued' <= m_workSemaphore' + Cardinality(Tokens') + Cardinality(Posting')
      BY <1>1, <1>3, <1>4, <2>1, <3>1, <3>4 DEF Numbers
    <3>6. TokenCoverage'
      BY <3>5 DEF TokenCoverage, Tokens, Posting
    <3> QED
      BY <1>3, <3>3, <3>6 DEF CountInv
  <2> QED
    BY <1>1, <2>2, <2>3 DEF Numbers
<1>13. CASE Next_Pop(w)
  <2>1. /\ UNCHANGED <<m_totalSize, m_workSemaphore>> /\ wpc[w] = "scan" /\ wpc'[w] = "sub"
    BY <1>1, <1>13 DEF Next_Pop
  <2>2. PICK v \in Workers : v = Victim(w)
    BY VictimIsWorker
  <2>3. Queued' = Queued - 1
    BY <1>13, <2>2, PopSlots DEF Next_Pop
  <2>4. Cardinality(Popped') = Cardinality(Popped) + 1 /\ Cardinality(Tokens') = Cardinality(Tokens) - 1
    BY <1>1, <1>7, <2>1 DEF HasToken, Numbers
  <2>5. m_totalSize' + Cardinality(Counting') - Cardinality(Popped') - Queued'
        = m_totalSize + Cardinality(Counting) - Cardinality(Popped) - Queued + Modulus * 0
    BY <1>1, <1>3, <1>5, <2>1, <2>3, <2>4 DEF Numbers
  <2>6. m_workSemaphore' + Cardinality(Tokens') + Cardinality(Posting') - Queued'
        >= m_workSemaphore + Cardinality(Tokens) + Cardinality(Posting) - Queued
    BY <1>1, <1>3, <2>1, <2>3, <2>4 DEF Numbers
  <2> QED
    BY <1>1, <1>3, <2>5, <2>6, Ledgers
<1>14. CASE Next_Sub(w)
  <2>1. /\ UNCHANGED <<m_queue, m_workSemaphore>> /\ wpc[w] = "sub" /\ wpc'[w] = "claim"
        /\ m_totalSize' = (m_totalSize - 1) % Modulus
    BY <1>1, <1>14 DEF Next_Sub
  <2>2. Cardinality(Popped') = Cardinality(Popped) - 1 /\ Cardinality(Tokens') = Cardinality(Tokens)
    BY <1>1, <1>7, <2>1 DEF HasToken, Numbers
  <2>3. PICK d \in {0, 1} : m_totalSize' = m_totalSize - 1 + Modulus * d
    BY <2>1, Wraps DEF TypeOK
  <2>4. m_totalSize' + Cardinality(Counting') - Cardinality(Popped') - Queued'
        = m_totalSize + Cardinality(Counting) - Cardinality(Popped) - Queued + Modulus * d
    BY <1>1, <1>3, <1>4, <1>5, <2>1, <2>2, <2>3 DEF Numbers
  <2>5. m_workSemaphore' + Cardinality(Tokens') + Cardinality(Posting') - Queued'
        >= m_workSemaphore + Cardinality(Tokens) + Cardinality(Posting) - Queued
    BY <1>1, <1>3, <1>4, <2>1, <2>2 DEF Numbers
  <2> QED
    BY <1>1, <1>3, <2>4, <2>5, Ledgers
<1> QED
  BY <1>10, <1>11, <1>12, <1>13, <1>14 DEF WorkerLoop

(* A step that moves no task and no worker, and takes no token or stop request back. *)
LEMMA QuietCount ==
    ASSUME TypeOK, TypeOK', CountInv, UNCHANGED <<m_queue, m_totalSize, spc, wpc>>,
           m_workSemaphore' >= m_workSemaphore,
           \A w \in Workers : stopReq[w] => stopReq'[w]
    PROVE  CountInv'
<1>1. /\ Counting' = Counting /\ Posting' = Posting /\ Popped' = Popped /\ Tokens' = Tokens
      /\ Queued' = Queued /\ FiniteCalls' /\ OwnPushes'
  BY DEF CountInv, Counting, Posting, Popped, Tokens, Queued, Slots, FiniteCalls, OwnPushes
<1>2. Numbers /\ m_workSemaphore' \in Nat
  BY AddsNumbers DEF CountInv, TypeOK, PoolTypeOK
<1>3. Balance'
  BY <1>1 DEF CountInv, Balance
<1>4. TokenCoverage'
  <2> SUFFICES ASSUME \A w \in Workers : ~stopReq'[w]
               PROVE  Queued' <= m_workSemaphore' + Cardinality(Tokens') + Cardinality(Posting')
    BY DEF TokenCoverage, Tokens, Posting
  <2>1. Queued <= m_workSemaphore + Cardinality(Tokens) + Cardinality(Posting)
    BY DEF CountInv, TokenCoverage, Tokens, Posting
  <2> QED
    BY <1>1, <1>2, <2>1 DEF Numbers
<1> QED
  BY <1>1, <1>3, <1>4 DEF CountInv

(* The invariant holds along every behaviour. *)
LEMMA CountInvariant == Spec => []CountInv
<1>1. Init => CountInv
  <2> SUFFICES ASSUME Init PROVE CountInv
    OBVIOUS
  <2>1. /\ Counting = {} /\ Posting = {} /\ Popped = {} /\ Slots = {} /\ OwnPushes
    BY DEF Init, PoolInit, Counting, Posting, Popped, Slots, OwnPushes
  <2>2. IsFiniteSet({}) /\ Cardinality({}) = 0
    BY FS_EmptySet
  <2>3. Balance
    <3>1. 0 + 0 - 0 = 0 + Modulus * 0 /\ 0 \in Int
      BY Bounds
    <3>2. m_totalSize = 0 /\ Cardinality(Counting) = 0 /\ Cardinality(Popped) = 0 /\ Queued = 0
      BY <2>1, <2>2 DEF Init, Queued
    <3> QED
      BY <3>1, <3>2 DEF Balance
  <2>4. IsFiniteSet(Tokens) /\ Cardinality(Tokens) \in Nat
    <3>1. Tokens = {}
      BY DEF Init, PoolInit, Tokens, HasToken
    <3> QED
      BY <2>2, <3>1
  <2>5. TokenCoverage
    <3>1. Queued = 0 /\ m_workSemaphore = 0 /\ Cardinality(Posting) = 0
      BY <2>1, <2>2 DEF Init, PoolInit, Queued
    <3>2. Queued <= m_workSemaphore + Cardinality(Tokens) + Cardinality(Posting)
      BY <2>4, <3>1
    <3> QED
      BY <3>2 DEF TokenCoverage, Tokens, Posting
  <2> QED
    BY <2>1, <2>2, <2>3, <2>5 DEF CountInv, FiniteCalls
<1>2. TypeOK /\ TypeOK' /\ CountInv /\ [Next]_vars => CountInv'
  <2> SUFFICES ASSUME TypeOK, TypeOK', CountInv, [Next]_vars PROVE CountInv'
    OBVIOUS
  <2>0. m_workSemaphore \in Nat /\ stopReq \in [Workers -> BOOLEAN] /\ di \in Workers
    BY DEF TypeOK, PoolTypeOK
  <2>1. CASE \E t \in Tasks : Submit(t)
    BY <2>1, SubmitCount
  <2>2. CASE \E w \in Workers : WorkerLoop(w)
    BY <2>2, WorkerCount
  <2>3. CASE \E w \in Workers : WatcherStops(w) /\ UNCHANGED schedVars
    BY <2>0, <2>3, QuietCount DEF WatcherStops, workerVars, schedVars
  <2>4. CASE \E min \in TaskMins : SetTaskRange(min) /\ UNCHANGED schedVars
    BY <2>0, <2>4, QuietCount DEF SetTaskRange, workerVars, schedVars
  <2>5. CASE Shutdown
    BY <2>0, <2>5, QuietCount DEF Shutdown, ShutdownCall, WatcherStop, RequestStop, PostStop, Join,
       ClearShards, ResetScheduler, SchedStop, CloseQueue, ShutdownFrame, workerVars, schedVars
  <2>6. CASE WaitForIdle
    BY <2>0, <2>6, QuietCount DEF WaitForIdle, IdleCall, IdleProgress, IdleSize, IdleFrame, workerVars,
       schedVars
  <2>7. CASE UNCHANGED vars
    BY <2>0, <2>7, QuietCount DEF vars, poolVars, schedVars
  <2> QED
    BY <2>1, <2>2, <2>3, <2>4, <2>5, <2>6, <2>7 DEF Next
<1> QED
  BY <1>1, <1>2, TypeCorrect, PTL DEF Spec

(* A number below the modulus is what is left of every number congruent to it. *)
LEMMA ModUnique ==
    ASSUME NEW M \in Nat \ {0}, NEW b \in 0 .. M - 1, NEW k \in Int, NEW a \in Int, a = b + M * k
    PROVE  a % M = b
<1> DEFINE q == a \div M
<1>1. q \in Int /\ a = M * q + (a % M) /\ a % M \in 0 .. M - 1
  OBVIOUS
<1> HIDE DEF q
<1>2. (a % M) - b = M * (k - q)
  BY <1>1
<1>3. (k - q <= -1 => M * (k - q) <= -M) /\ (k - q >= 1 => M * (k - q) >= M)
  BY <1>1
<1>4. k - q = 0 => M * (k - q) = 0
  BY <1>1
<1> QED
  BY <1>1, <1>2, <1>3, <1>4

(* m_totalSize, which enqueue() raises after the push and next() lowers after the pop, is  *)
(* exact up to the calls in flight, for any number of workers, submitters and tasks and    *)
(* although it wraps below zero.                                                           *)
THEOREM CountIsExact == Spec => []SizeAccounting
<1>1. TypeOK /\ CountInv => SizeAccounting
  <2> SUFFICES ASSUME TypeOK, CountInv PROVE SizeAccounting
    OBVIOUS
  <2> DEFINE a == m_totalSize + Cardinality(Counting) - Cardinality(Popped)
  <2>1. PICK k \in Int : a = Queued + Modulus * k
    BY DEF CountInv, Balance
  <2>2. a \in Int
    BY AddsNumbers DEF CountInv, Numbers
  <2>3. Queued \in 0 .. Modulus - 1 /\ Modulus \in Nat \ {0}
    <3> DEFINE room == NumWorkers * Cap
    <3>1. Queued \in Nat /\ Queued <= room /\ room \in Nat /\ room + NumWorkers < Modulus
          /\ Modulus \in Nat /\ NumWorkers \in Nat /\ NumWorkers > 0
      BY QueuedBound, Bounds
    <3> HIDE DEF room
    <3> QED
      BY <3>1
  <2>4. a % Modulus = Queued
    <3> HIDE DEF a
    <3> QED
      BY <2>1, <2>2, <2>3, ModUnique
  <2> QED
    BY <2>4 DEF SizeAccounting, Counting, Popped
<1> QED
  BY <1>1, TypeCorrect, CountInvariant, PTL

(* Until a worker is told to stop every queued task has its wake-up: a token in the        *)
(* semaphore, a worker that has not used the one it drew, or a submit() about to post -    *)
(* although next() reads a count that is off, walks queues that change behind it, and      *)
(* workerLoop() drops its token when size() says zero.                                     *)
THEOREM NoWakeUpLost == Spec => []TokenCoverage
<1>1. CountInv => TokenCoverage
  BY DEF CountInv
<1> QED
  BY <1>1, CountInvariant, PTL

-----------------------------------------------------------------------------
(* At most once.  A task that its enqueue() has not pushed is neither queued nor held, so   *)
(* a push cannot duplicate it; one that is popped is in no other slot of any queue, so      *)
(* owner and thieves cannot both get it; and a closure in the map has a pending future, so  *)
(* one that is claimed is still to run.                                                     *)
NotYetPushed == {"start", "create", "check", "admit", "register", "enqueue", "push"}
NotYetRegistered == {"start", "create", "check", "admit", "register"}

Sits(t) == \E v \in Workers : \E i \in 1 .. Len(m_queue[v]) : m_queue[v][i] = t
QueueOnce ==
    \A u, v \in Workers : \A i \in 1 .. Len(m_queue[u]), j \in 1 .. Len(m_queue[v]) :
        m_queue[u][i] = m_queue[v][j] => u = v /\ i = j
HeldNotQueued == \A w \in Workers : wpc[w] \in Holding => wtask[w] \in Tasks /\ ~Sits(wtask[w])
HeldOnce ==
    \A w, v \in Workers :
        v # w /\ wpc[w] \in Holding /\ wpc[v] \in Holding => wtask[v] # wtask[w]
Unpushed ==
    \A t \in Tasks : spc[t] \in NotYetPushed =>
        ~Sits(t) /\ \A w \in Workers : wpc[w] \in Holding => wtask[w] # t
Unregistered == \A t \in Tasks : spc[t] \in NotYetRegistered => t \notin m_taskShards
MapPending == \A t \in m_taskShards : future[t] = "pending"
ClaimedPending ==
    \A w \in Workers : wpc[w] \in {"begin", "run"} =>
        wtask[w] \notin m_taskShards /\ future[wtask[w]] = "pending"

OnceInv == /\ QueueOnce /\ HeldNotQueued /\ HeldOnce /\ Unpushed
           /\ Unregistered /\ MapPending /\ ClaimedPending

(* A step that touches neither the queues, the map nor a future, and moves no worker into   *)
(* and no submit() back into the regions the invariant speaks of, keeps it.                 *)
LEMMA QuietOnce ==
    ASSUME OnceInv, UNCHANGED <<m_queue, m_taskShards, future>>,
           \A w \in Workers : wpc'[w] \in Holding => wpc[w] \in Holding /\ wtask'[w] = wtask[w],
           \A w \in Workers : wpc'[w] \in {"begin", "run"} => wpc[w] \in {"begin", "run"},
           \A t \in Tasks : spc'[t] \in NotYetPushed => spc[t] \in NotYetPushed,
           \A t \in Tasks : spc'[t] \in NotYetRegistered => spc[t] \in NotYetRegistered
    PROVE  OnceInv'
<1>1. QueueOnce' /\ MapPending'
  BY DEF OnceInv, QueueOnce, MapPending
<1>2. \A t : Sits(t)' <=> Sits(t)
  BY DEF Sits
<1>3. HeldNotQueued' /\ HeldOnce'
  BY <1>2 DEF OnceInv, HeldNotQueued, HeldOnce
<1>4. Unpushed' /\ Unregistered'
  BY <1>2 DEF OnceInv, Unpushed, Unregistered
<1>5. ClaimedPending'
  <2>1. \A w \in Workers : wpc'[w] \in {"begin", "run"} => wtask'[w] = wtask[w]
    BY DEF Holding
  <2> QED
    BY <2>1 DEF OnceInv, ClaimedPending
<1> QED
  BY <1>1, <1>3, <1>4, <1>5 DEF OnceInv

(* A push puts a task that sits nowhere behind the others of its queue. *)
LEMMA PushOnce ==
    ASSUME TypeOK, QueueOnce, NEW v \in Workers, NEW t \in Tasks, ~Sits(t),
           m_queue' = [m_queue EXCEPT ![v] = Append(@, t)]
    PROVE  QueueOnce' /\ \A s : Sits(s)' => Sits(s) \/ s = t
<1>1. m_queue[v] \in Seq(Tasks) /\ m_queue \in [Workers -> Seq(Tasks)]
  BY DEF TypeOK
<1> DEFINE n == Len(m_queue[v])
<1>2. /\ n \in Nat /\ Len(m_queue'[v]) = n + 1 /\ m_queue'[v][n + 1] = t
      /\ \A i \in 1 .. n : m_queue'[v][i] = m_queue[v][i]
  BY <1>1
<1>3. \A u \in Workers : u # v => m_queue'[u] = m_queue[u]
  BY <1>1
<1> HIDE DEF n
<1>4. \A u \in Workers : \A i \in 1 .. Len(m_queue'[u]) :
        \/ u = v /\ i = n + 1 /\ m_queue'[u][i] = t
        \/ i \in 1 .. Len(m_queue[u]) /\ m_queue'[u][i] = m_queue[u][i]
  BY <1>2, <1>3 DEF n
<1>5. \A u \in Workers : \A i \in 1 .. Len(m_queue[u]) : m_queue[u][i] # t
  BY DEF Sits
<1>6. QueueOnce'
  BY <1>4, <1>5 DEF QueueOnce
<1> QED
  BY <1>4, <1>6 DEF Sits

(* A pop takes a task out of the only slot that has it. *)
LEMMA PopOnce ==
    ASSUME TypeOK, QueueOnce, NEW v \in Workers, m_queue[v] # << >>,
           m_queue' = [m_queue EXCEPT ![v] = Tail(@)]
    PROVE  /\ Head(m_queue[v]) \in Tasks /\ Sits(Head(m_queue[v]))
           /\ QueueOnce' /\ \A s : Sits(s)' => Sits(s) /\ s # Head(m_queue[v])
<1>1. m_queue[v] \in Seq(Tasks) /\ m_queue \in [Workers -> Seq(Tasks)]
  BY DEF TypeOK
<1> DEFINE n == Len(m_queue[v])
           h == Head(m_queue[v])
<1>2. /\ n \in Nat \ {0} /\ Len(m_queue'[v]) = n - 1 /\ h \in Tasks /\ m_queue[v][1] = h
      /\ \A i \in 1 .. n - 1 : m_queue'[v][i] = m_queue[v][i + 1]
  BY <1>1
<1>3. \A u \in Workers : u # v => m_queue'[u] = m_queue[u]
  BY <1>1
<1>4. n = Len(m_queue[v])
  OBVIOUS
<1> HIDE DEF n, h
<1>5. \A i \in 1 .. n - 1 : i + 1 \in 1 .. n /\ i + 1 # 1
  BY <1>2
<1>6. QueueOnce'
  <2> SUFFICES ASSUME NEW u \in Workers, NEW w \in Workers,
                      NEW i \in 1 .. Len(m_queue'[u]), NEW j \in 1 .. Len(m_queue'[w]),
                      m_queue'[u][i] = m_queue'[w][j]
               PROVE  u = w /\ i = j
    BY DEF QueueOnce
  <2>1. CASE u = v /\ w = v
    <3>1. i + 1 \in 1 .. n /\ j + 1 \in 1 .. n /\ m_queue[v][i + 1] = m_queue[v][j + 1]
      BY <1>2, <1>5, <2>1
    <3>2. i + 1 = j + 1
      BY <1>4, <3>1 DEF QueueOnce
    <3> QED
      BY <1>2, <2>1, <3>2
  <2>2. CASE u = v /\ w # v
    <3>1. i + 1 \in 1 .. n /\ j \in 1 .. Len(m_queue[w]) /\ m_queue[v][i + 1] = m_queue[w][j]
      BY <1>2, <1>3, <1>5, <2>2
    <3> QED
      BY <1>4, <2>2, <3>1 DEF QueueOnce
  <2>3. CASE u # v /\ w = v
    <3>1. j + 1 \in 1 .. n /\ i \in 1 .. Len(m_queue[u]) /\ m_queue[u][i] = m_queue[v][j + 1]
      BY <1>2, <1>3, <1>5, <2>3
    <3> QED
      BY <1>4, <2>3, <3>1 DEF QueueOnce
  <2>4. CASE u # v /\ w # v
    BY <1>3, <2>4 DEF QueueOnce
  <2> QED
    BY <2>1, <2>2, <2>3, <2>4
<1>7. \A u \in Workers : \A i \in 1 .. Len(m_queue'[u]) :
        \E j \in 1 .. Len(m_queue[u]) : m_queue'[u][i] = m_queue[u][j] /\ (u = v => j # 1)
  <2> TAKE u \in Workers
  <2> TAKE i \in 1 .. Len(m_queue'[u])
  <2>1. CASE u = v
    <3>1. i + 1 \in 1 .. Len(m_queue[u]) /\ m_queue'[u][i] = m_queue[u][i + 1] /\ i + 1 # 1
      BY <1>2, <1>4, <1>5, <2>1
    <3> QED
      BY <3>1
  <2>2. CASE u # v
    BY <1>3, <2>2
  <2> QED
    BY <2>1, <2>2
<1>8. 1 \in 1 .. Len(m_queue[v]) /\ m_queue[v][1] = h
  BY <1>2, <1>4
<1>9. ASSUME NEW s, Sits(s)' PROVE Sits(s) /\ s # h
  <2>1. PICK u \in Workers : \E i \in 1 .. Len(m_queue'[u]) : m_queue'[u][i] = s
    BY <1>9 DEF Sits
  <2>0. PICK i \in 1 .. Len(m_queue'[u]) : m_queue'[u][i] = s
    BY <2>1
  <2>2. PICK j \in 1 .. Len(m_queue[u]) : s = m_queue[u][j] /\ (u = v => j # 1)
    BY <1>7, <2>0
  <2>3. s = h => u = v /\ j = 1
    BY <1>8, <2>2 DEF QueueOnce
  <2>4. Sits(s)
    BY <2>2 DEF Sits
  <2> QED
    BY <2>2, <2>3, <2>4
<1>10. Sits(h)
  BY <1>8 DEF Sits
<1> QED
  BY <1>2, <1>6, <1>9, <1>10 DEF h

(* submit(): Register and EnqueuePush are the steps that put a task somewhere. *)
LEMMA SubmitOnce ==
    ASSUME TypeOK, OnceInv, NEW t \in Tasks, Submit(t)
    PROVE  OnceInv'
<1> USE DEF GoSubmit, SubmitFrame, ctlVars, workerVars, idleVars, schedVars
<1>0. spc \in [Tasks -> SubmitPC] /\ target \in [Tasks -> Workers]
  BY DEF TypeOK, PoolTypeOK
<1>1. CASE UNCHANGED <<m_queue, m_taskShards, future, wpc, wtask>>
           /\ (spc[t] \notin NotYetPushed => spc'[t] \notin NotYetPushed)
           /\ (spc[t] \notin NotYetRegistered => spc'[t] \notin NotYetRegistered)
           /\ \E pc \in SubmitPC : GoSubmit(t, pc)
  BY <1>0, <1>1, QuietOnce
<1>2. CASE SubmitPriority(t) /\ UNCHANGED schedVars
  BY <1>0, <1>1, <1>2 DEF SubmitPriority, NotYetPushed, NotYetRegistered, SubmitPC
<1>3. CASE CreateDescriptor(t) /\ UNCHANGED schedVars
  BY <1>0, <1>1, <1>3 DEF CreateDescriptor, NotYetPushed, NotYetRegistered, SubmitPC
<1>4. CASE SubmitDescriptor(t) /\ UNCHANGED schedVars
  BY <1>0, <1>1, <1>4 DEF SubmitDescriptor, NotYetPushed, NotYetRegistered, SubmitPC
<1>5. CASE Admit(t) /\ UNCHANGED schedVars
  BY <1>0, <1>1, <1>5 DEF Admit, NotYetPushed, NotYetRegistered, SubmitPC
<1>6. CASE Register(t) /\ UNCHANGED schedVars
  <2>1. /\ UNCHANGED <<m_queue, wpc, wtask>>
        /\ m_taskShards' = m_taskShards \cup {t} /\ future' = [future EXCEPT ![t] = "pending"]
        /\ spc[t] = "register" /\ spc' = [spc EXCEPT ![t] = "enqueue"]
    BY <1>6 DEF Register
  <2>2. \A s : Sits(s)' <=> Sits(s)
    BY <2>1 DEF Sits
  <2>3. QueueOnce' /\ HeldNotQueued' /\ HeldOnce'
    BY <2>1, <2>2 DEF OnceInv, QueueOnce, HeldNotQueued, HeldOnce
  <2>4. Unpushed' /\ Unregistered'
    BY <1>0, <2>1, <2>2 DEF OnceInv, Unpushed, Unregistered, NotYetPushed, NotYetRegistered
  <2>5. MapPending'
    BY <2>1 DEF OnceInv, MapPending, TypeOK, PoolTypeOK
  <2>6. \A w \in Workers : wpc[w] \in {"begin", "run"} => wtask[w] # t /\ wtask[w] \in Tasks
    BY <2>1 DEF Holding, OnceInv, HeldNotQueued, Unpushed, NotYetPushed
  <2>7. ClaimedPending'
    BY <2>1, <2>6 DEF OnceInv, ClaimedPending, TypeOK, PoolTypeOK
  <2> QED
    BY <2>3, <2>4, <2>5, <2>7 DEF OnceInv
<1>7. CASE Post(t) /\ UNCHANGED schedVars
  BY <1>0, <1>1, <1>7 DEF Post, NotYetPushed, NotYetRegistered, SubmitPC
<1>8. CASE EnqueuePick(t)
  <2>1. spc[t] = "enqueue" /\ UNCHANGED <<m_queue, m_taskShards, future, wpc, wtask>>
    BY <1>8 DEF EnqueuePick
  <2>2. \E pc \in {"crashed", "post", "push"} : spc' = [spc EXCEPT ![t] = pc]
    BY <1>8 DEF EnqueuePick
  <2> QED
    BY <1>0, <1>1, <2>1, <2>2 DEF NotYetPushed, NotYetRegistered, SubmitPC
<1>9. CASE EnqueuePush(t)
  <2>0. spc[t] = "push" /\ UNCHANGED <<m_taskShards, future, wpc, wtask>>
    BY <1>9 DEF EnqueuePush
  <2>1. CASE UNCHANGED m_queue
    <3>1. \E pc \in {"post", "count"} : spc' = [spc EXCEPT ![t] = pc]
      BY <1>9 DEF EnqueuePush
    <3> QED
      BY <1>0, <1>1, <2>0, <2>1, <3>1 DEF NotYetPushed, NotYetRegistered, SubmitPC
  <2>2. CASE /\ m_queue' = [m_queue EXCEPT ![target[t]] = Append(@, t)]
             /\ spc' = [spc EXCEPT ![t] = "count"]
    <3>1. ~Sits(t) /\ \A w \in Workers : wpc[w] \in Holding => wtask[w] # t
      BY <2>0 DEF OnceInv, Unpushed, NotYetPushed
    <3>2. QueueOnce' /\ \A s : Sits(s)' => Sits(s) \/ s = t
      BY <1>0, <2>2, <3>1, PushOnce DEF OnceInv
    <3>3. HeldNotQueued' /\ HeldOnce'
      BY <2>0, <3>1, <3>2 DEF OnceInv, HeldNotQueued, HeldOnce
    <3>4. Unpushed' /\ Unregistered'
      BY <1>0, <2>0, <2>2, <3>2 DEF OnceInv, Unpushed, Unregistered, NotYetPushed, NotYetRegistered
    <3>5. MapPending' /\ ClaimedPending'
      BY <2>0 DEF OnceInv, MapPending, ClaimedPending
    <3> QED
      BY <3>2, <3>3, <3>4, <3>5 DEF OnceInv
  <2> QED
    BY <1>9, <2>1, <2>2 DEF EnqueuePush
<1>10. CASE EnqueueCount(t)
  BY <1>0, <1>1, <1>10 DEF EnqueueCount, NotYetPushed, NotYetRegistered, SubmitPC
<1> QED
  BY <1>2, <1>3, <1>4, <1>5, <1>6, <1>7, <1>8, <1>9, <1>10 DEF Submit

(* A worker that goes on with the task it holds, the future aside. *)
LEMMA HeldOn ==
    ASSUME TypeOK, OnceInv, NEW w \in Workers, NEW pc \in Holding, wpc[w] \in Holding,
           wpc' = [wpc EXCEPT ![w] = pc], UNCHANGED <<m_queue, wtask, spc>>,
           m_taskShards' \subseteq m_taskShards
    PROVE  QueueOnce' /\ HeldNotQueued' /\ HeldOnce' /\ Unpushed' /\ Unregistered'
<1>1. \A v \in Workers : wpc'[v] \in Holding <=> wpc[v] \in Holding
  BY DEF TypeOK, PoolTypeOK
<1>2. \A s : Sits(s)' <=> Sits(s)
  BY DEF Sits
<1>3. QueueOnce' /\ HeldNotQueued' /\ HeldOnce'
  BY <1>1, <1>2 DEF OnceInv, QueueOnce, HeldNotQueued, HeldOnce
<1> QED
  BY <1>1, <1>2, <1>3 DEF OnceInv, Unpushed, Unregistered

(* workerLoop(): Next_Pop moves an id from a queue to one worker, Claim takes the closure. *)
LEMMA WorkerOnce ==
    ASSUME TypeOK, OnceInv, NEW w \in Workers, WorkerLoop(w)
    PROVE  OnceInv'
<1> USE DEF Go, WorkerFrame, ctlVars, idleVars, schedVars
<1>0. /\ wpc \in [Workers -> WorkerPC] /\ wtask \in [Workers -> Tasks \cup {NoTask}]
      /\ future \in [Tasks -> FutureState] /\ m_taskShards \subseteq Tasks
  BY DEF TypeOK, PoolTypeOK
<1>1. ASSUME UNCHANGED <<m_queue, m_taskShards, future, wtask, spc>>,
             NEW pc, pc \notin Holding, wpc' = [wpc EXCEPT ![w] = pc]
      PROVE  OnceInv'
  BY <1>0, <1>1, QuietOnce DEF Holding
<1>2. ASSUME UNCHANGED <<m_queue, m_taskShards, future, spc>>,
             wpc' = [wpc EXCEPT ![w] = "top"], wtask' = [wtask EXCEPT ![w] = NoTask]
      PROVE  OnceInv'
  BY <1>0, <1>2, QuietOnce DEF Holding
<1>3. CASE LoopTop(w) /\ UNCHANGED schedVars
  BY <1>1, <1>3 DEF LoopTop, Holding
<1>4. CASE SemWait(w) /\ UNCHANGED schedVars
  BY <1>1, <1>4 DEF SemWait, Holding
<1>5. CASE Woken(w) /\ UNCHANGED schedVars
  BY <1>1, <1>5 DEF Woken, Holding
<1>6. CASE Claim(w) /\ UNCHANGED schedVars
  <2>1. CASE wtask[w] \notin m_taskShards
    BY <1>2, <1>6, <2>1 DEF Claim
  <2>2. CASE wtask[w] \in m_taskShards
    <3>1. /\ UNCHANGED <<m_queue, future, spc, wtask>> /\ wpc[w] = "claim"
          /\ wpc' = [wpc EXCEPT ![w] = "begin"] /\ m_taskShards' = m_taskShards \ {wtask[w]}
      BY <1>6, <2>2 DEF Claim
    <3>2. QueueOnce' /\ HeldNotQueued' /\ HeldOnce' /\ Unpushed' /\ Unregistered'
      BY <3>1, HeldOn DEF Holding
    <3>3. MapPending'
      BY <3>1 DEF OnceInv, MapPending
    <3>4. ClaimedPending'
      BY <1>0, <2>2, <3>1 DEF OnceInv, ClaimedPending, MapPending
    <3> QED
      BY <3>2, <3>3, <3>4 DEF OnceInv
  <2> QED
    BY <2>1, <2>2
<1>7. CASE Repost(w) /\ UNCHANGED schedVars
  BY <1>1, <1>7 DEF Repost, Holding
<1>8. CASE Begin(w) /\ UNCHANGED schedVars
  <2>1. /\ UNCHANGED <<m_queue, m_taskShards, future, spc, wtask>> /\ wpc[w] = "begin"
        /\ wpc' = [wpc EXCEPT ![w] = "run"]
    BY <1>8 DEF Begin
  <2> QED
    BY <1>0, <2>1, QuietOnce DEF Holding
<1>9. CASE Run(w) /\ UNCHANGED schedVars
  <2>1. /\ UNCHANGED <<m_queue, m_taskShards, spc, wtask>> /\ wpc[w] = "run"
        /\ wpc' = [wpc EXCEPT ![w] = "finish"] /\ future' = [future EXCEPT ![wtask[w]] = "ready"]
    BY <1>9 DEF Run
  <2>2. QueueOnce' /\ HeldNotQueued' /\ HeldOnce' /\ Unpushed' /\ Unregistered'
    BY <2>1, HeldOn DEF Holding
  <2>3. MapPending'
    BY <1>0, <2>1 DEF OnceInv, MapPending, ClaimedPending
  <2>4. \A v \in Workers : wpc'[v] \in {"begin", "run"} =>
          v # w /\ wpc[v] \in {"begin", "run"} /\ wtask[v] # wtask[w] /\ wtask[v] \in Tasks
    BY <1>0, <2>1 DEF OnceInv, HeldOnce, HeldNotQueued, Holding
  <2>5. ClaimedPending'
    BY <1>0, <2>1, <2>4 DEF OnceInv, ClaimedPending
  <2> QED
    BY <2>2, <2>3, <2>5 DEF OnceInv
<1>10. CASE Finish(w) /\ UNCHANGED schedVars
  BY <1>2, <1>10 DEF Finish
<1>11. CASE Phantom(w, m_totalSize) /\ UNCHANGED schedVars
  BY <1>1, <1>11 DEF Phantom, Holding
<1>12. CASE Next_Empty(w)
  BY <1>1, <1>12 DEF Next_Empty, GotNone, Holding
<1>13. CASE Next_Start(w)
  BY <1>1, <1>13 DEF Next_Start, Holding
<1>14. CASE Next_Pop(w)
  <2>1. PICK v \in Workers : v = Victim(w)
    BY VictimIsWorker
  <2>2. /\ UNCHANGED <<m_taskShards, future, spc>> /\ wpc[w] = "scan" /\ m_queue[v] # << >>
        /\ wpc' = [wpc EXCEPT ![w] = "sub"]
        /\ wtask' = [wtask EXCEPT ![w] = Head(m_queue[v])]
        /\ m_queue' = [m_queue EXCEPT ![v] = Tail(@)]
    BY <1>14, <2>1 DEF Next_Pop
  <2> DEFINE h == Head(m_queue[v])
  <2>3. /\ h \in Tasks /\ Sits(h) /\ QueueOnce' /\ \A s : Sits(s)' => Sits(s) /\ s # h
    BY <2>2, PopOnce DEF OnceInv
  <2>4. wtask' = [wtask EXCEPT ![w] = h]
    BY <2>2
  <2> HIDE DEF h
  <2>5. \A u \in Workers : u # w => wpc'[u] = wpc[u] /\ wtask'[u] = wtask[u]
    BY <1>0, <2>2, <2>4
  <2>6. wpc'[w] = "sub" /\ wtask'[w] = h
    BY <1>0, <2>2, <2>4
  <2>7. HeldNotQueued'
    BY <2>3, <2>5, <2>6 DEF OnceInv, HeldNotQueued
  <2>8. HeldOnce'
    BY <2>3, <2>5, <2>6 DEF OnceInv, HeldOnce, HeldNotQueued
  <2>9. Unpushed'
    BY <2>2, <2>3, <2>5, <2>6 DEF OnceInv, Unpushed
  <2>10. Unregistered' /\ MapPending'
    BY <2>2 DEF OnceInv, Unregistered, MapPending
  <2>11. ClaimedPending'
    BY <2>2, <2>5, <2>6 DEF OnceInv, ClaimedPending
  <2> QED
    BY <2>3, <2>7, <2>8, <2>9, <2>10, <2>11 DEF OnceInv
<1>15. CASE Next_Miss(w)
  <2>1. /\ UNCHANGED <<m_queue, m_taskShards, future, wtask, spc>> /\ wpc[w] = "scan"
        /\ wpc' = [wpc EXCEPT ![w] = "phantom"] \/ wpc' = wpc
    BY <1>15 DEF Next_Miss
  <2> QED
    BY <1>1, <2>1, QuietOnce DEF Holding
<1>16. CASE Next_Sub(w)
  <2>1. /\ UNCHANGED <<m_queue, m_taskShards, future, spc, wtask>> /\ wpc[w] = "sub"
        /\ wpc' = [wpc EXCEPT ![w] = "claim"]
    BY <1>16 DEF Next_Sub
  <2> QED
    BY <1>0, <2>1, QuietOnce DEF Holding
<1> QED
  BY <1>3, <1>4, <1>5, <1>6, <1>7, <1>8, <1>9, <1>10, <1>11, <1>12, <1>13, <1>14, <1>15, <1>16
     DEF WorkerLoop

(* shutdown(): ClearShards breaks the futures of the closures it destroys. *)
LEMMA ShutdownOnce ==
    ASSUME TypeOK, OnceInv, Shutdown
    PROVE  OnceInv'
<1> USE DEF ShutdownFrame, workerVars, idleVars, schedVars
<1>1. CASE UNCHANGED <<m_queue, m_taskShards, future, wpc, wtask, spc>>
  BY <1>1, QuietOnce
<1>2. CASE ClearShards /\ UNCHANGED schedVars
  <2>1. /\ UNCHANGED <<m_queue, wpc, wtask, spc>> /\ m_taskShards' = {}
        /\ future' = [t \in Tasks |-> IF t \in m_taskShards THEN "broken" ELSE future[t]]
    BY <1>2 DEF ClearShards
  <2>2. \A s : Sits(s)' <=> Sits(s)
    BY <2>1 DEF Sits
  <2>3. QueueOnce' /\ HeldNotQueued' /\ HeldOnce' /\ Unpushed' /\ Unregistered' /\ MapPending'
    BY <2>1, <2>2 DEF OnceInv, QueueOnce, HeldNotQueued, HeldOnce, Unpushed, Unregistered, MapPending
  <2>4. ClaimedPending'
    BY <2>1 DEF OnceInv, ClaimedPending, HeldNotQueued, Holding
  <2> QED
    BY <2>3, <2>4 DEF OnceInv
<1> QED
  BY <1>1, <1>2 DEF Shutdown, ShutdownCall, WatcherStop, RequestStop, PostStop, Join,
     ResetScheduler, SchedStop, CloseQueue

(* No task is executed twice, for any number of workers that pop from each other's queues, *)
(* any number of submitters that wait for room, and a shutdown() at any moment.            *)
THEOREM ExecutedAtMostOnce == Spec => []AtMostOnce
<1>1. Init => OnceInv
  <2> SUFFICES ASSUME Init PROVE OnceInv
    OBVIOUS
  <2>1. \A v \in Workers : Len(m_queue[v]) = 0
    BY DEF Init
  <2> QED
    BY <2>1 DEF Init, PoolInit, OnceInv, QueueOnce, Sits, HeldNotQueued, HeldOnce, Unpushed,
       Unregistered, MapPending, ClaimedPending, Holding
<1>2. TypeOK /\ OnceInv /\ [Next]_vars => OnceInv'
  <2> SUFFICES ASSUME TypeOK, OnceInv, [Next]_vars PROVE OnceInv'
    OBVIOUS
  <2>1. CASE UNCHANGED <<m_queue, m_taskShards, future, wpc, wtask, spc>>
    BY <2>1, QuietOnce
  <2>2. CASE \E t \in Tasks : Submit(t)
    BY <2>2, SubmitOnce
  <2>3. CASE \E w \in Workers : WorkerLoop(w)
    BY <2>3, WorkerOnce
  <2>4. CASE Shutdown
    BY <2>4, ShutdownOnce
  <2>5. CASE WaitForIdle
    BY <2>1, <2>5 DEF WaitForIdle, IdleCall, IdleProgress, IdleSize, IdleFrame, workerVars, schedVars
  <2>6. CASE \E w \in Workers : WatcherStops(w) /\ UNCHANGED schedVars
    BY <2>1, <2>6 DEF WatcherStops, workerVars, schedVars
  <2>7. CASE \E min \in TaskMins : SetTaskRange(min) /\ UNCHANGED schedVars
    BY <2>1, <2>7 DEF SetTaskRange, workerVars, schedVars
  <2>8. CASE UNCHANGED vars
    BY <2>1, <2>8 DEF vars, poolVars, schedVars
  <2> QED
    BY <2>2, <2>3, <2>4, <2>5, <2>6, <2>7, <2>8 DEF Next
<1>3. TypeOK /\ OnceInv => AtMostOnce
  <2> SUFFICES ASSUME TypeOK, OnceInv PROVE AtMostOnce
    OBVIOUS
  <2>1. \A p \in Slots : /\ p[1] \in Workers /\ p[2] \in 1 .. Len(m_queue[p[1]])
                         /\ p = <<p[1], p[2]>>
    BY DEF Slots, TypeOK
  <2>2. \A p, q \in Slots : m_queue[p[1]][p[2]] = m_queue[q[1]][q[2]] => p = q
    BY <2>1 DEF OnceInv, QueueOnce
  <2>3. \A p \in Slots : Sits(m_queue[p[1]][p[2]])
    BY <2>1 DEF Sits
  <2> QED
    BY <2>2, <2>3 DEF OnceInv, HeldNotQueued, HeldOnce, ClaimedPending, AtMostOnce
<1> QED
  BY <1>1, <1>2, <1>3, TypeCorrect, PTL DEF Spec

=============================================================================
