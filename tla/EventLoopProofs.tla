--------------------------- MODULE EventLoopProofs ---------------------------
(***************************************************************************)
(* The loop's thread for any tasks, timers, intervals, descriptors and     *)
(* batch size: it does not sleep in epoll_wait() on a queued task without  *)
(* a write to the eventfd, nor past a timer, and a timer runs as often as  *)
(* it should and is lost only to cancelTimer() and stop().                 *)
(*                                                                         *)
(* Then JobHttpClient, whose handlers run on such a loop, against any      *)
(* peer, any replies, any sizes of the request, the kernel's buffer and    *)
(* the client's buffer: a request is reported once.  The handlers may find *)
(* the transport closed under them; the argument is that a handler which   *)
(* can still report runs only while nothing has been reported, because the *)
(* transport is open exactly while the client is busy and every way to     *)
(* report closes it.                                                       *)
(*                                                                         *)
(* Last, JobHttpParser and what the client reports: however a reply is cut *)
(* into pieces, the parser is where a reference that reads one symbol at a *)
(* time would be, so a response is reported whole and a good one is never  *)
(* an error.                                                               *)
(***************************************************************************)
EXTENDS EventLoop, HttpClient, FiniteSetTheorems, WellFoundedInduction, TLAPS

(* What both arguments need of the types. *)
Types ==
    /\ clock \in Nat /\ clock <= MaxTime
    /\ m_queue \in [Items -> Nat] /\ toSignal \in Nat
    /\ next \in [Timers -> Nat] /\ fired \in [Timers -> Nat]
    /\ added \in [Timers -> {"no", "pushed", "yes"}] /\ cancelled \subseteq Timers
    /\ m_fdCallbacks \subseteq FDs /\ cur \in Items
    /\ pc \in {"top", "take", "got", "timers", "tasks", "wait", "events", "exited"}

(* The constants, as the proofs use them. *)
LEMMA Constants ==
    /\ Interval \in [Timers -> Nat \ {0}] /\ Repeating \subseteq Timers
    /\ MaxTime \in Nat /\ Never \in Nat /\ Never > MaxTime
    /\ Timers \subseteq Items /\ Tasks \subseteq Items /\ FDs \subseteq Items /\ NoTask \in Items
    /\ NoTask \notin Timers /\ Tasks \cap Timers = {} /\ Timers \cap FDs = {}
<1>1. /\ Interval \in [Timers -> Nat \ {0}] /\ Repeating \subseteq Timers
      /\ MaxTime \in Nat /\ Never \in Nat /\ Heartbeat \in Nat
      /\ NoTask \notin Timers /\ Tasks \cap Timers = {} /\ Timers \cap FDs = {}
  BY LoopAssumption DEF LoopAssumption
<1>2. Never > MaxTime
  BY <1>1, LoopAssumption DEF LoopAssumption
<1> QED
  BY <1>1, <1>2 DEF Items

(* TaskQueue::post() adds one of each, or drops them all once stopped. *)
LEMMA PutIs ==
    ASSUME m_queue \in [Items -> Nat], NEW s
    PROVE  /\ Put(s) \in [Items -> Nat]
           /\ \A i \in Items : i \notin s => Put(s)[i] = m_queue[i]
           /\ \A i \in Items : Put(s)[i] = m_queue[i] \/ Put(s)[i] = m_queue[i] + 1
BY DEF Put

(* TaskQueue::take() takes one of an item that is there. *)
LEMMA WithoutIs ==
    ASSUME m_queue \in [Items -> Nat], NEW i \in Tops
    PROVE  /\ i \in Items /\ Without(i) \in [Items -> Nat] /\ Without(i)[i] = m_queue[i] - 1
           /\ \A j \in Items : j # i => Without(i)[j] = m_queue[j]
<1>1. i \in Items /\ m_queue[i] > 0
  BY DEF Tops
<1> QED
  BY <1>1 DEF Without

(* The thread's steps keep the types. *)
LEMMA ThreadTypes ==
    ASSUME Types, Thread
    PROVE  Types'
<1> USE DEF Types, setup, queueVars, timerVars, loopVars, stopVars, fdVars
<1>1. CASE Top
  BY <1>1 DEF Top, Exit
<1>2. CASE Take
  BY <1>2, WithoutIs, Constants DEF Take
<1>3. CASE Got
  BY <1>3, Constants DEF Got, Exit, RunItem
<1>4. CASE ProcessTimers
  <2>1. m_queue' \in [Items -> Nat]
    BY <1>4, PutIs DEF ProcessTimers
  <2>2. next' \in [Timers -> Nat]
    BY <1>4, Constants DEF ProcessTimers
  <2> QED
    BY <1>4, <2>1, <2>2 DEF ProcessTimers
<1>5. CASE ProcessTask
  BY <1>5, WithoutIs DEF ProcessTask, RunItem
<1>6. CASE TasksDone
  BY <1>6 DEF TasksDone
<1>7. CASE EpollWait
  BY <1>7 DEF EpollWait
<1>8. CASE ProcessIOEvents
  BY <1>8, PutIs DEF ProcessIOEvents, Exit
<1> QED
  BY <1>1, <1>2, <1>3, <1>4, <1>5, <1>6, <1>7, <1>8 DEF Thread

(* The callers' steps keep the types. *)
LEMMA CallTypes ==
    ASSUME Types, Tick \/ Continue \/ Call
    PROVE  Types'
<1> USE DEF Types, setup, queueVars, timerVars, loopVars, stopVars, fdVars
<1>0. \A n \in Nat : Signals(n) \in Nat
  BY DEF Signals
<1>1. CASE Tick
  BY <1>1, Constants DEF Tick
<1>2. CASE Signal
  BY <1>2 DEF Signal
<1>3. CASE StopClear \/ StopJoin
  BY <1>3, Constants DEF StopClear, StopJoin
<1>4. CASE StopQueue
  BY <1>0, <1>4 DEF StopQueue
<1>5. ASSUME NEW t \in Timers, AddTimerWake(t) PROVE Types'
  BY <1>5, PutIs DEF AddTimerWake
<1>6. ASSUME NEW f \in FDs, RegisterStore(f) \/ RegisterAdd(f) \/ UnregisterDel(f) \/ Arrive(f) PROVE Types'
  BY <1>6 DEF RegisterStore, RegisterAdd, UnregisterDel, Arrive
<1>7. ASSUME NEW f \in FDs, RegisterDone(f) \/ ModifyFD(f) PROVE Types'
  <2>1. m_queue' = Put({NoTask}) /\ toSignal' = toSignal + 1 /\ m_fdCallbacks' \subseteq FDs
    BY <1>7 DEF RegisterDone, ModifyFD
  <2> QED
    BY <1>7, <2>1, PutIs DEF RegisterDone, ModifyFD
<1>8. ASSUME NEW x \in Tasks, Post(x) PROVE Types'
  BY <1>0, <1>8, PutIs DEF Post
<1>9. ASSUME NEW t \in Timers, AddTimer(t) PROVE Types'
  <2>1. clock + Interval[t] \in Nat
    BY Constants
  <2>2. next' \in [Timers -> Nat] /\ added' \in [Timers -> {"no", "pushed", "yes"}]
    BY <1>9, <2>1 DEF AddTimer
  <2> QED
    BY <1>9, <2>2 DEF AddTimer
<1>10. ASSUME NEW t \in Timers, CancelTimer(t) PROVE Types'
  <2>1. m_queue' = Put({NoTask}) /\ toSignal' = toSignal + Signals(1) /\ Signals(1) \in Nat
    BY <1>0, <1>10 DEF CancelTimer
  <2>2. m_queue' \in [Items -> Nat] /\ toSignal' \in Nat
    BY <2>1, PutIs
  <2> QED
    BY <1>10, <2>2, Constants DEF CancelTimer
<1>11. CASE StopRequest \/ Restart
  BY <1>11 DEF StopRequest, Restart
<1> QED
  BY <1>1, <1>2, <1>3, <1>4, <1>5, <1>6, <1>7, <1>8, <1>9, <1>10, <1>11 DEF Continue, Call

(* The types along every behaviour. *)
LEMMA TypeInvariant == Spec => []Types
<1>1. Init => Types
  <2> SUFFICES ASSUME Init PROVE Types
    OBVIOUS
  <2>1. m_queue \in [Items -> Nat] /\ fired \in [Timers -> Nat] /\ clock \in Nat /\ clock <= MaxTime
    BY Constants DEF Init
  <2>2. next \in [Timers -> Nat] /\ added \in [Timers -> {"no", "pushed", "yes"}] /\ cur \in Items
    BY Constants DEF Init
  <2> QED
    BY <2>1, <2>2 DEF Init, Types
<1>2. Types /\ [Next]_vars => Types'
  <2> SUFFICES ASSUME Types, [Next]_vars PROVE Types'
    OBVIOUS
  <2>1. CASE UNCHANGED vars
    BY <2>1 DEF vars, setup, queueVars, timerVars, loopVars, stopVars, fdVars, Types
  <2> QED
    BY <2>1, ThreadTypes, CallTypes DEF Next
<1> QED
  BY <1>1, <1>2, PTL DEF Spec

-----------------------------------------------------------------------------
(* QueuedMeansAwake, with the deadline in its type where it has passed. *)
Awake ==
    kind = "io" /\ pc = "wait" =>
        \/ \A i \in Items \ {NoTask} : m_queue[i] = 0
        \/ evt
        \/ toSignal > 0
        \/ deadline \in Nat /\ clock >= deadline

(* The thread goes to sleep with an empty queue, or with a deadline that has passed. *)
LEMMA ThreadAwake ==
    ASSUME Types, Awake, Thread
    PROVE  Awake'
<1> USE DEF Awake, setup, queueVars, timerVars, loopVars, stopVars, fdVars
<1>1. CASE TasksDone
  <2>1. CASE QueueEmpty
    BY <1>1, <2>1 DEF TasksDone, QueueEmpty
  <2>2. CASE ~QueueEmpty /\ kind = "io"
    <3>1. deadline' = clock /\ clock' = clock
      BY <1>1, <2>2 DEF TasksDone
    <3> QED
      BY <3>1 DEF Types
  <2> QED
    BY <1>1, <2>1, <2>2 DEF TasksDone
<1>2. CASE ProcessTask
  BY <1>2 DEF ProcessTask
<1>3. CASE Top \/ Take \/ Got \/ ProcessTimers \/ EpollWait \/ ProcessIOEvents
  <2>1. pc' # "wait"
    BY <1>3 DEF Top, Take, Got, ProcessTimers, EpollWait, ProcessIOEvents, Exit
  <2> QED
    BY <2>1
<1> QED
  BY <1>1, <1>2, <1>3 DEF Thread

(* A caller that queues a task for a JobIoAsyncThread owes a write of the eventfd. *)
LEMMA CallAwake ==
    ASSUME Types, Awake, Tick \/ Continue \/ Call
    PROVE  Awake'
<1> USE DEF Awake, setup, queueVars, timerVars, loopVars, stopVars, fdVars
<1>0. /\ \A n \in Nat : Signals(n) \in Nat /\ (kind = "io" => Signals(n) = n)
      /\ toSignal \in Nat /\ clock \in Nat /\ m_queue \in [Items -> Nat]
  BY DEF Signals, Types
<1>1. CASE Tick
  BY <1>0, <1>1 DEF Tick
<1>2. CASE Signal
  BY <1>2 DEF Signal
<1>3. CASE StopClear \/ StopJoin \/ StopRequest \/ Restart
  BY <1>3 DEF StopClear, StopJoin, StopRequest, Restart
<1>4. CASE StopQueue
  <2>1. UNCHANGED <<kind, pc, deadline, clock, m_queue, evt>> /\ toSignal' = toSignal + Signals(1)
    BY <1>4 DEF StopQueue
  <2> QED
    BY <1>0, <2>1
<1>5. ASSUME m_queue' = Put({NoTask}), UNCHANGED <<kind, pc, deadline, clock, evt>>,
             toSignal' >= toSignal, toSignal' \in Nat
      PROVE  Awake'
  BY <1>0, <1>5, PutIs
<1>6. ASSUME NEW t \in Timers, AddTimerWake(t) PROVE Awake'
  BY <1>0, <1>5, <1>6 DEF AddTimerWake
<1>7. ASSUME NEW t \in Timers, AddTimer(t) PROVE Awake'
  BY <1>7 DEF AddTimer
<1>8. ASSUME NEW t \in Timers, CancelTimer(t) PROVE Awake'
  BY <1>0, <1>5, <1>8 DEF CancelTimer
<1>9. ASSUME NEW f \in FDs, RegisterStore(f) \/ RegisterAdd(f) \/ UnregisterDel(f) \/ Arrive(f) PROVE Awake'
  BY <1>9 DEF RegisterStore, RegisterAdd, UnregisterDel, Arrive
<1>10. ASSUME NEW f \in FDs, RegisterDone(f) \/ ModifyFD(f) PROVE Awake'
  BY <1>0, <1>5, <1>10 DEF RegisterDone, ModifyFD
<1>11. ASSUME NEW x \in Tasks, Post(x) PROVE Awake'
  <2>1. UNCHANGED <<kind, pc>> /\ toSignal' = toSignal + Signals(1)
    BY <1>11 DEF Post
  <2> QED
    BY <1>0, <2>1
<1> QED
  BY <1>1, <1>2, <1>3, <1>4, <1>6, <1>7, <1>8, <1>9, <1>10, <1>11 DEF Continue, Call

(* A JobIoAsyncThread never sleeps in epoll_wait() on a queued task without a write to    *)
(* its eventfd that has happened or is about to, whatever posts, cancels, registers or    *)
(* stops meanwhile; addTimer()'s empty task, which is queued without one, is left out.    *)
THEOREM NeverSleepsOnWork == Spec => []QueuedMeansAwake
<1>1. Init => Awake
  BY DEF Init, Awake
<1>2. Types /\ Awake /\ [Next]_vars => Awake'
  <2> SUFFICES ASSUME Types, Awake, [Next]_vars PROVE Awake'
    OBVIOUS
  <2>1. CASE UNCHANGED vars
    BY <2>1 DEF vars, setup, queueVars, timerVars, loopVars, stopVars, fdVars, Awake
  <2> QED
    BY <2>1, ThreadAwake, CallAwake DEF Next
<1>3. Types /\ Awake => QueuedMeansAwake
  BY DEF Awake, QueuedMeansAwake, Types
<1> QED
  BY <1>1, <1>2, <1>3, TypeInvariant, PTL DEF Spec

-----------------------------------------------------------------------------
(* The runs of a timer that are done, queued or in the thread's hands. *)
Held(t) == IF pc = "got" /\ cur = t THEN 1 ELSE 0
Issued(t) == fired[t] + m_queue[t] + Held(t)

(* A timer that was not added has no run; a one-shot timer that is armed, or was          *)
(* cancelled, has none either and otherwise has at most one; a repeating timer is armed   *)
(* no earlier than one interval after the runs it has had.                                *)
NotAdded == \A t \in Timers : added[t] = "no" => Issued(t) = 0 /\ next[t] = Never /\ t \notin cancelled
OneShot ==
    \A t \in Timers \ Repeating :
        /\ Issued(t) <= 1
        /\ next[t] # Never => Issued(t) = 0
        /\ t \in cancelled => Issued(t) = 0 /\ next[t] = Never
Paced ==
    \A t \in Repeating :
        /\ Issued(t) * Interval[t] <= clock
        /\ next[t] # Never => Issued(t) * Interval[t] + Interval[t] <= next[t]

TimerInv == NotAdded /\ OneShot /\ Paced

(* Fewer runs take less time. *)
LEMMA Fewer ==
    ASSUME NEW a \in Nat, NEW b \in Nat, NEW k \in Nat, a <= b
    PROVE  a * k <= b * k
OBVIOUS

(* A step that adds no run, arms no timer and turns no clock back keeps the invariant. *)
LEMMA QuietTimers ==
    ASSUME Types, Types', TimerInv, clock' >= clock, cancelled' = cancelled,
           \A t \in Timers : Issued(t)' <= Issued(t) /\ next'[t] \in {next[t], Never},
           \A t \in Timers : added'[t] = "no" => added[t] = "no"
    PROVE  TimerInv'
<1>0. \A t \in Timers : Issued(t) \in Nat /\ Issued(t)' \in Nat /\ Interval[t] \in Nat
  BY Constants DEF Types, Issued, Held
<1>1. NotAdded' /\ OneShot'
  BY <1>0, Constants DEF TimerInv, NotAdded, OneShot
<1>2. Paced'
  <2> SUFFICES ASSUME NEW t \in Repeating
               PROVE  /\ Issued(t)' * Interval[t] <= clock'
                      /\ next'[t] # Never => Issued(t)' * Interval[t] + Interval[t] <= next'[t]
    BY DEF Paced
  <2>0. t \in Timers
    BY Constants
  <2>1. Issued(t)' * Interval[t] <= Issued(t) * Interval[t]
    BY <1>0, <2>0, Fewer
  <2>2. Issued(t)' * Interval[t] \in Int /\ Issued(t) * Interval[t] \in Int /\ Interval[t] \in Int
    BY <1>0, <2>0
  <2>3. clock \in Nat /\ clock' \in Nat /\ next[t] \in Nat /\ next'[t] \in Nat
    BY <2>0 DEF Types
  <2>4. Issued(t) * Interval[t] <= clock /\ (next[t] # Never => Issued(t) * Interval[t] + Interval[t] <= next[t])
    BY DEF TimerInv, Paced
  <2> QED
    BY <2>0, <2>1, <2>2, <2>3, <2>4
<1> QED
  BY <1>1, <1>2 DEF TimerInv

(* take() moves a run from the queue to the thread, the thread runs it, and only          *)
(* processTimers() makes a new one.                                                       *)
LEMMA ThreadTimers ==
    ASSUME Types, Types', TimerInv, Thread
    PROVE  TimerInv'
<1> USE DEF setup, queueVars, timerVars, loopVars, stopVars, fdVars
<1>0. /\ m_queue \in [Items -> Nat] /\ fired \in [Timers -> Nat] /\ next \in [Timers -> Nat]
      /\ clock \in Nat /\ cur \in Items
  BY DEF Types
<1>1. CASE Top \/ TasksDone \/ EpollWait
  <2>1. UNCHANGED <<clock, m_queue, fired, next, added, cancelled, cur>> /\ pc # "got" /\ pc' # "got"
    BY <1>1 DEF Top, TasksDone, EpollWait, Exit
  <2>2. ASSUME NEW t \in Timers PROVE Issued(t)' <= Issued(t)
    BY <1>0, <2>1, Constants DEF Issued, Held
  <2> QED
    BY <1>0, <2>1, <2>2, QuietTimers
<1>2. CASE Take
  <2>1. /\ UNCHANGED <<clock, fired, next, added, cancelled>> /\ pc = "take" /\ pc' = "got"
        /\ (m_queue' = m_queue /\ cur' = NoTask) \/ \E i \in Tops : cur' = i /\ m_queue' = Without(i)
    BY <1>2 DEF Take
  <2>2. ASSUME NEW t \in Timers PROVE Issued(t)' <= Issued(t)
    <3>1. Issued(t) = fired[t] + m_queue[t] /\ t \in Items /\ t # NoTask
      BY <1>0, <2>1, Constants DEF Issued, Held
    <3>2. (m_queue'[t] = m_queue[t] /\ cur' # t) \/ m_queue'[t] = m_queue[t] - 1
      BY <1>0, <2>1, <3>1, WithoutIs
    <3> QED
      BY <1>0, <2>1, <3>1, <3>2 DEF Issued, Held
  <2> QED
    BY <1>0, <2>1, <2>2, QuietTimers
<1>3. CASE Got
  <2>1. /\ UNCHANGED <<clock, m_queue, next, added, cancelled>> /\ pc = "got" /\ pc' # "got"
        /\ fired' = fired \/ fired' = (IF cur \in Timers THEN [fired EXCEPT ![cur] = @ + 1] ELSE fired)
    BY <1>3 DEF Got, Exit, RunItem
  <2>2. ASSUME NEW t \in Timers PROVE Issued(t)' <= Issued(t)
    <3>1. fired'[t] = fired[t] \/ (cur = t /\ fired'[t] = fired[t] + 1)
      BY <1>0, <2>1
    <3>2. m_queue[t] \in Nat
      BY <1>0, Constants
    <3> QED
      BY <1>0, <2>1, <3>1, <3>2 DEF Issued, Held
  <2> QED
    BY <1>0, <2>1, <2>2, QuietTimers
<1>4. CASE ProcessTask
  <2>1. UNCHANGED <<clock, next, added, cancelled, pc, cur>> /\ pc = "tasks"
    BY <1>4 DEF ProcessTask
  <2>2. PICK i \in Tops : RunItem(i) /\ m_queue' = Without(i)
    BY <1>4 DEF ProcessTask
  <2>3. ASSUME NEW t \in Timers PROVE Issued(t)' <= Issued(t)
    <3>1. t \in Items /\ (t = i => m_queue'[t] = m_queue[t] - 1) /\ (t # i => m_queue'[t] = m_queue[t])
      BY <1>0, <2>2, WithoutIs, Constants
    <3>2. (t = i => fired'[t] = fired[t] + 1) /\ (t # i => fired'[t] = fired[t])
      BY <1>0, <2>2 DEF RunItem
    <3> QED
      BY <1>0, <2>1, <3>1, <3>2 DEF Issued, Held
  <2> QED
    BY <1>0, <2>1, <2>3, QuietTimers
<1>5. CASE ProcessIOEvents
  <2>1. /\ UNCHANGED <<clock, fired, next, added, cancelled, cur>> /\ pc = "events" /\ pc' # "got"
        /\ m_queue' = m_queue \/ m_queue' = Put(got \cap m_fdCallbacks)
    BY <1>5 DEF ProcessIOEvents, Exit
  <2>2. ASSUME NEW t \in Timers PROVE Issued(t)' <= Issued(t)
    <3>1. t \in Items /\ t \notin got \cap m_fdCallbacks
      BY Constants DEF Types
    <3>2. m_queue'[t] = m_queue[t]
      BY <1>0, <2>1, <3>1, PutIs
    <3> QED
      BY <1>0, <2>1, <3>1, <3>2 DEF Issued, Held
  <2> QED
    BY <1>0, <2>1, <2>2, QuietTimers
<1>6. CASE ProcessTimers
  <2> DEFINE due == {t \in Timers : next[t] <= clock}
  <2>1. /\ UNCHANGED <<clock, fired, added, cancelled>> /\ pc = "timers" /\ pc' = "tasks"
        /\ m_queue' = Put(due)
        /\ next' = [t \in Timers |-> IF t \notin due THEN next[t]
                                     ELSE IF t \in Repeating THEN clock + Interval[t] ELSE Never]
    BY <1>6 DEF ProcessTimers
  <2>2. ASSUME NEW t \in Timers
        PROVE  /\ Issued(t) \in Nat /\ Issued(t)' \in Nat /\ next[t] \in Nat /\ Interval[t] \in Nat
               /\ t \notin due => Issued(t)' = Issued(t) /\ next'[t] = next[t]
               /\ Issued(t)' <= Issued(t) + 1
               /\ t \in due => /\ next[t] # Never /\ next[t] <= clock
                               /\ next'[t] = IF t \in Repeating THEN clock + Interval[t] ELSE Never
    <3>1. t \in Items /\ clock < Never /\ Interval[t] \in Nat
      BY Constants DEF Types
    <3>2. /\ m_queue'[t] \in Nat /\ (t \notin due => m_queue'[t] = m_queue[t])
          /\ m_queue'[t] <= m_queue[t] + 1
      BY <1>0, <2>1, <3>1, PutIs
    <3>3. Issued(t) = fired[t] + m_queue[t] /\ Issued(t)' = fired[t] + m_queue'[t]
      BY <1>0, <2>1, <3>1, <3>2 DEF Issued, Held
    <3> QED
      BY <1>0, <2>1, <3>1, <3>2, <3>3, Constants
  <2> HIDE DEF due
  <2>3. NotAdded'
    BY <2>1, <2>2 DEF TimerInv, NotAdded
  <2>4. OneShot'
    BY <2>1, <2>2 DEF TimerInv, OneShot
  <2>5. Paced'
    <3> SUFFICES ASSUME NEW t \in Repeating
                 PROVE  /\ Issued(t)' * Interval[t] <= clock
                        /\ next'[t] # Never => Issued(t)' * Interval[t] + Interval[t] <= next'[t]
      BY <2>1 DEF Paced
    <3>1. t \in Timers
      BY Constants
    <3>2. CASE t \notin due
      <4>1. Issued(t)' = Issued(t) /\ next'[t] = next[t]
        BY <2>2, <3>1, <3>2
      <4> QED
        BY <4>1 DEF TimerInv, Paced
    <3>3. CASE t \in due
      <4>1. Issued(t) * Interval[t] + Interval[t] <= clock
        BY <1>0, <2>2, <3>1, <3>3 DEF TimerInv, Paced
      <4>2. Issued(t)' * Interval[t] <= (Issued(t) + 1) * Interval[t]
        BY <2>2, <3>1, Fewer
      <4>3. (Issued(t) + 1) * Interval[t] = Issued(t) * Interval[t] + Interval[t]
        BY <2>2, <3>1
      <4>4. Issued(t)' * Interval[t] <= clock
        BY <1>0, <2>2, <3>1, <4>1, <4>2, <4>3
      <4> QED
        BY <1>0, <2>2, <3>1, <3>3, <4>4
    <3> QED
      BY <3>2, <3>3
  <2> QED
    BY <2>3, <2>4, <2>5 DEF TimerInv
<1> QED
  BY <1>1, <1>2, <1>3, <1>4, <1>5, <1>6 DEF Thread

(* addTimer() arms a timer that has had no run; cancelTimer() that finds the timer armed  *)
(* finds a one-shot timer without a run.                                                  *)
LEMMA CallTimers ==
    ASSUME Types, Types', TimerInv, Tick \/ Continue \/ Call
    PROVE  TimerInv'
<1> USE DEF setup, queueVars, timerVars, loopVars, stopVars, fdVars
<1>0. /\ m_queue \in [Items -> Nat] /\ fired \in [Timers -> Nat] /\ next \in [Timers -> Nat]
      /\ clock \in Nat /\ added \in [Timers -> {"no", "pushed", "yes"}]
      /\ \A t \in Timers : Issued(t) \in Nat /\ Interval[t] \in Nat
  BY Constants DEF Types, Issued, Held
<1>1. ASSUME UNCHANGED <<fired, cancelled, pc, cur>>, clock' >= clock,
             \A t \in Timers : m_queue'[t] = m_queue[t] /\ next'[t] \in {next[t], Never},
             \A t \in Timers : added'[t] = "no" => added[t] = "no"
      PROVE  TimerInv'
  <2>1. \A t \in Timers : Issued(t)' <= Issued(t)
    BY <1>0, <1>1 DEF Issued, Held
  <2> QED
    BY <1>1, <2>1, QuietTimers
<1>2. \A s : s \cap Timers = {} => \A t \in Timers : Put(s)[t] = m_queue[t]
  BY <1>0, PutIs, Constants
<1>3. CASE Tick
  BY <1>0, <1>1, <1>3 DEF Tick
<1>4. CASE Signal \/ StopJoin \/ StopQueue \/ StopRequest
  BY <1>0, <1>1, <1>4 DEF Signal, StopJoin, StopQueue, StopRequest
<1>5. CASE StopClear
  BY <1>0, <1>1, <1>5 DEF StopClear
<1>6. CASE Restart
  <2>1. UNCHANGED <<clock, fired, cancelled, m_queue, next, added, cur>> /\ pc' = "top"
    BY <1>6 DEF Restart
  <2>2. ASSUME NEW t \in Timers PROVE Issued(t)' <= Issued(t)
    BY <1>0, <2>1, Constants DEF Issued, Held
  <2> QED
    BY <1>0, <2>1, <2>2, QuietTimers
<1>7. ASSUME NEW f \in FDs, RegisterStore(f) \/ RegisterAdd(f) \/ UnregisterDel(f) \/ Arrive(f)
      PROVE  TimerInv'
  BY <1>0, <1>1, <1>7 DEF RegisterStore, RegisterAdd, UnregisterDel, Arrive
<1>8. ASSUME NEW f \in FDs, RegisterDone(f) \/ ModifyFD(f) PROVE TimerInv'
  <2>1. UNCHANGED <<clock, fired, cancelled, next, added, cur, pc>> /\ m_queue' = Put({NoTask})
    BY <1>8 DEF RegisterDone, ModifyFD
  <2>2. {NoTask} \cap Timers = {}
    BY Constants
  <2> QED
    BY <1>0, <1>1, <1>2, <2>1, <2>2
<1>9. ASSUME NEW x \in Tasks, Post(x) PROVE TimerInv'
  <2>1. UNCHANGED <<clock, fired, cancelled, next, added, cur, pc>> /\ m_queue' = Put({x})
    BY <1>9 DEF Post
  <2>2. {x} \cap Timers = {}
    BY Constants
  <2> QED
    BY <1>0, <1>1, <1>2, <2>1, <2>2
<1>10. ASSUME NEW t \in Timers, AddTimerWake(t) PROVE TimerInv'
  <2>1. /\ UNCHANGED <<clock, fired, cancelled, next, cur, pc>> /\ m_queue' = Put({NoTask})
        /\ added' = [added EXCEPT ![t] = "yes"]
    BY <1>10 DEF AddTimerWake
  <2>2. {NoTask} \cap Timers = {}
    BY Constants
  <2> QED
    BY <1>0, <1>1, <1>2, <2>1, <2>2
<1>11. ASSUME NEW t \in Timers, AddTimer(t) PROVE TimerInv'
  <2>1. /\ UNCHANGED <<clock, fired, cancelled, m_queue, cur, pc>> /\ added[t] = "no"
        /\ next' = [next EXCEPT ![t] = clock + Interval[t]] /\ added' = [added EXCEPT ![t] = "pushed"]
    BY <1>11 DEF AddTimer
  <2>2. \A u \in Timers : Issued(u)' = Issued(u)
    BY <2>1 DEF Issued, Held
  <2>3. Issued(t) = 0 /\ t \notin cancelled /\ next'[t] = clock + Interval[t]
    BY <1>0, <2>1 DEF TimerInv, NotAdded
  <2>4. \A u \in Timers : u # t => next'[u] = next[u] /\ added'[u] = added[u]
    BY <1>0, <2>1
  <2>5. NotAdded' /\ OneShot'
    BY <1>0, <2>1, <2>2, <2>3, <2>4 DEF TimerInv, NotAdded, OneShot
  <2>6. Paced'
    <3> SUFFICES ASSUME NEW u \in Repeating
                 PROVE  /\ Issued(u) * Interval[u] <= clock
                        /\ next'[u] # Never => Issued(u) * Interval[u] + Interval[u] <= next'[u]
      BY <2>1, <2>2, Constants DEF Paced
    <3>1. CASE u # t
      BY <2>4, <3>1, Constants DEF TimerInv, Paced
    <3>2. CASE u = t
      BY <1>0, <2>3, <3>2
    <3> QED
      BY <3>1, <3>2
  <2> QED
    BY <2>5, <2>6 DEF TimerInv
<1>12. ASSUME NEW t \in Timers, CancelTimer(t) PROVE TimerInv'
  <2>1. /\ UNCHANGED <<clock, fired, added, cur, pc>> /\ m_queue' = Put({NoTask}) /\ added[t] = "yes"
        /\ next[t] # Never /\ next' = [next EXCEPT ![t] = Never] /\ cancelled' = cancelled \cup {t}
    BY <1>12 DEF CancelTimer
  <2>2. {NoTask} \cap Timers = {}
    BY Constants
  <2>3. \A u \in Timers : m_queue'[u] = m_queue[u]
    BY <1>2, <2>1, <2>2
  <2>4. \A u \in Timers : Issued(u)' = Issued(u)
    BY <2>1, <2>3 DEF Issued, Held
  <2>5. next'[t] = Never /\ \A u \in Timers : u # t => next'[u] = next[u]
    BY <1>0, <2>1
  <2>6. NotAdded' /\ OneShot'
    BY <1>0, <2>1, <2>4, <2>5 DEF TimerInv, NotAdded, OneShot
  <2>7. Paced'
    BY <2>1, <2>4, <2>5, Constants DEF TimerInv, Paced
  <2> QED
    BY <2>6, <2>7 DEF TimerInv
<1> QED
  BY <1>3, <1>4, <1>5, <1>6, <1>7, <1>8, <1>9, <1>10, <1>11, <1>12 DEF Continue, Call

(* stop() has been asked for from its first step on, and has stopped the queue by the     *)
(* time it joins the thread; start() does not undo that.                                  *)
Stopping ==
    /\ stopPc \in {"clear", "queue", "join", "done"} => stopReq
    /\ stopPc \in {"join", "done"} => m_stopped

(* A timer that was added is set, or has a run. *)
Kept ==
    \A t \in Timers :
        added[t] = "no" \/ t \in cancelled \/ stopReq \/ m_stopped \/ next[t] # Never \/ Issued(t) > 0

LEMMA StoppingKept ==
    ASSUME Stopping, Next
    PROVE  Stopping' /\ (m_stopped => m_stopped') /\ (stopReq => stopReq' \/ m_stopped')
<1> USE DEF Stopping, setup, queueVars, timerVars, loopVars, stopVars, fdVars
<1>1. CASE StopRequest \/ StopClear \/ StopQueue \/ StopJoin \/ Restart
  BY <1>1 DEF StopRequest, StopClear, StopQueue, StopJoin, Restart, StopStep
<1>2. CASE Tick \/ Thread \/ Signal
  <2>1. UNCHANGED <<stopPc, stopReq, m_stopped>>
    BY <1>2 DEF Tick, Thread, Top, Take, Got, ProcessTimers, ProcessTask, TasksDone, EpollWait, ProcessIOEvents, Signal
  <2> QED
    BY <2>1
<1>3. ASSUME NEW f \in FDs,
             RegisterStore(f) \/ RegisterDone(f) \/ RegisterAdd(f) \/ ModifyFD(f) \/ UnregisterDel(f) \/ Arrive(f)
      PROVE  UNCHANGED <<stopPc, stopReq, m_stopped>>
  BY <1>3 DEF RegisterStore, RegisterDone, RegisterAdd, ModifyFD, UnregisterDel, Arrive
<1>4. ASSUME NEW t \in Timers, AddTimerWake(t) \/ AddTimer(t) \/ CancelTimer(t)
      PROVE  UNCHANGED <<stopPc, stopReq, m_stopped>>
  BY <1>4 DEF AddTimerWake, AddTimer, CancelTimer
<1>5. ASSUME NEW x \in Tasks, Post(x) PROVE UNCHANGED <<stopPc, stopReq, m_stopped>>
  BY <1>5 DEF Post
<1> QED
  BY <1>1, <1>2, <1>3, <1>4, <1>5 DEF Next, Continue, Call

(* Until the loop is stopped the thread drops no run, and processTimers() makes one of    *)
(* each timer that it takes off.                                                          *)
LEMMA ThreadKeeps ==
    ASSUME Types, Types', Thread, ~stopReq, ~m_stopped, NEW t \in Timers
    PROVE  Issued(t)' > Issued(t) \/ (Issued(t)' = Issued(t) /\ next'[t] = next[t])
<1> USE DEF setup, queueVars, timerVars, loopVars, stopVars, fdVars
<1>0. /\ m_queue \in [Items -> Nat] /\ fired \in [Timers -> Nat] /\ next \in [Timers -> Nat]
      /\ m_queue[t] \in Nat /\ fired[t] \in Nat /\ cur \in Items
      /\ t \in Items /\ t # NoTask /\ t \notin FDs
  BY Constants DEF Types
<1>1. CASE Top \/ TasksDone \/ EpollWait
  <2>1. UNCHANGED <<m_queue, fired, next, cur>> /\ pc # "got" /\ pc' # "got"
    BY <1>1 DEF Top, TasksDone, EpollWait, Exit
  <2> QED
    BY <1>0, <2>1 DEF Issued, Held
<1>2. CASE Take
  <2>1. /\ UNCHANGED <<fired, next>> /\ pc = "take" /\ pc' = "got"
        /\ (m_queue' = m_queue /\ cur' = NoTask) \/ \E i \in Tops : cur' = i /\ m_queue' = Without(i)
    BY <1>2 DEF Take
  <2>2. (m_queue'[t] = m_queue[t] /\ cur' # t) \/ (m_queue'[t] = m_queue[t] - 1 /\ cur' = t)
    BY <1>0, <2>1, WithoutIs
  <2> QED
    BY <1>0, <2>1, <2>2 DEF Issued, Held
<1>3. CASE Got
  <2>1. /\ UNCHANGED <<m_queue, next>> /\ pc = "got" /\ pc' # "got"
        /\ fired' = IF cur \in Timers THEN [fired EXCEPT ![cur] = @ + 1] ELSE fired
    BY <1>3 DEF Got, RunItem
  <2>2. fired'[t] = fired[t] + IF cur = t THEN 1 ELSE 0
    BY <1>0, <2>1
  <2> QED
    BY <1>0, <2>1, <2>2 DEF Issued, Held
<1>4. CASE ProcessTask
  <2>1. UNCHANGED <<next, pc, cur>> /\ pc = "tasks"
    BY <1>4 DEF ProcessTask
  <2>2. PICK i \in Tops : RunItem(i) /\ m_queue' = Without(i)
    BY <1>4 DEF ProcessTask
  <2>3. (t = i => m_queue'[t] = m_queue[t] - 1) /\ (t # i => m_queue'[t] = m_queue[t])
    BY <1>0, <2>2, WithoutIs
  <2>4. (t = i => fired'[t] = fired[t] + 1) /\ (t # i => fired'[t] = fired[t])
    BY <1>0, <2>2 DEF RunItem
  <2> QED
    BY <1>0, <2>1, <2>3, <2>4 DEF Issued, Held
<1>5. CASE ProcessIOEvents
  <2>1. /\ UNCHANGED <<fired, next>> /\ pc = "events" /\ pc' # "got"
        /\ m_queue' = m_queue \/ m_queue' = Put(got \cap m_fdCallbacks)
    BY <1>5 DEF ProcessIOEvents, Exit
  <2>2. t \notin got \cap m_fdCallbacks
    BY <1>0 DEF Types
  <2>3. m_queue'[t] = m_queue[t]
    BY <1>0, <2>1, <2>2, PutIs
  <2> QED
    BY <1>0, <2>1, <2>3 DEF Issued, Held
<1>6. CASE ProcessTimers
  <2> DEFINE due == {u \in Timers : next[u] <= clock}
  <2>1. /\ UNCHANGED fired /\ pc = "timers" /\ pc' = "tasks" /\ m_queue' = Put(due)
        /\ t \notin due => next'[t] = next[t]
    BY <1>6 DEF ProcessTimers
  <2> HIDE DEF due
  <2>2. m_queue'[t] = m_queue[t] + IF t \in due THEN 1 ELSE 0
    BY <1>0, <2>1 DEF Put
  <2> QED
    BY <1>0, <2>1, <2>2 DEF Issued, Held
<1> QED
  BY <1>1, <1>2, <1>3, <1>4, <1>5, <1>6 DEF Thread

(* A caller takes no run away, and only cancelTimer() and stop() unset a timer.           *)
LEMMA CallKeeps ==
    ASSUME Types, Types', Stopping, Tick \/ Continue \/ Call, ~stopReq, ~m_stopped, NEW t \in Timers
    PROVE  /\ Issued(t)' = Issued(t)
           /\ added'[t] = "no" => added[t] = "no"
           /\ \/ next'[t] = next[t] /\ (added[t] = "no" => added'[t] = "no") /\ (t \in cancelled => t \in cancelled')
              \/ next'[t] # Never \/ t \in cancelled'
<1> USE DEF setup, queueVars, timerVars, loopVars, stopVars, fdVars
<1>0. /\ m_queue \in [Items -> Nat] /\ fired \in [Timers -> Nat] /\ next \in [Timers -> Nat]
      /\ m_queue[t] \in Nat /\ fired[t] \in Nat /\ added \in [Timers -> {"no", "pushed", "yes"}]
      /\ t \in Items /\ t # NoTask /\ clock \in Nat
  BY Constants DEF Types
<1>1. \A s : t \notin s => Put(s)[t] = m_queue[t]
  BY <1>0, PutIs
<1>2. ASSUME UNCHANGED <<fired, pc, cur>>, m_queue'[t] = m_queue[t] PROVE Issued(t)' = Issued(t)
  BY <1>2 DEF Issued, Held
<1>3. CASE Tick \/ Signal \/ StopQueue \/ StopRequest
  BY <1>2, <1>3 DEF Tick, Signal, StopQueue, StopRequest
<1>4. ~(StopClear \/ StopJoin \/ Restart)
  BY DEF StopClear, StopJoin, Restart, StopStep, Stopping
<1>5. ASSUME NEW f \in FDs, RegisterStore(f) \/ RegisterAdd(f) \/ UnregisterDel(f) \/ Arrive(f)
      PROVE  UNCHANGED <<fired, pc, cur, m_queue, next, added, cancelled>>
  BY <1>5 DEF RegisterStore, RegisterAdd, UnregisterDel, Arrive
<1>6. ASSUME NEW f \in FDs, RegisterDone(f) \/ ModifyFD(f)
      PROVE  UNCHANGED <<fired, pc, cur, next, added, cancelled>> /\ m_queue'[t] = m_queue[t]
  BY <1>0, <1>1, <1>6 DEF RegisterDone, ModifyFD
<1>7. ASSUME NEW x \in Tasks, Post(x)
      PROVE  UNCHANGED <<fired, pc, cur, next, added, cancelled>> /\ m_queue'[t] = m_queue[t]
  <2>1. t \notin {x}
    BY Constants
  <2> QED
    BY <1>1, <1>7, <2>1 DEF Post
<1>8. ASSUME NEW u \in Timers, AddTimerWake(u)
      PROVE  UNCHANGED <<fired, pc, cur, next, cancelled>> /\ m_queue'[t] = m_queue[t] /\ (added'[t] = "no" <=> added[t] = "no")
  BY <1>0, <1>1, <1>8 DEF AddTimerWake
<1>9. ASSUME NEW u \in Timers, AddTimer(u)
      PROVE  /\ UNCHANGED <<fired, pc, cur, m_queue, cancelled>>
             /\ t = u => next'[t] # Never /\ added'[t] # "no"
             /\ t # u => next'[t] = next[t] /\ added'[t] = added[t]
  <2>1. clock + Interval[u] < Never /\ clock + Interval[u] \in Nat
    BY LoopAssumption, Constants DEF LoopAssumption, Types
  <2> QED
    BY <1>0, <1>9, <2>1, Constants DEF AddTimer
<1>10. ASSUME NEW u \in Timers, CancelTimer(u)
      PROVE  /\ UNCHANGED <<fired, pc, cur, added>> /\ m_queue'[t] = m_queue[t]
             /\ cancelled' = cancelled \cup {u} /\ (t # u => next'[t] = next[t])
  BY <1>0, <1>1, <1>10 DEF CancelTimer
<1> QED
  BY <1>2, <1>3, <1>4, <1>5, <1>6, <1>7, <1>8, <1>9, <1>10 DEF Continue, Call

LEMMA TimersStayKept ==
    ASSUME Types, Types', Stopping, Kept, Next
    PROVE  Kept'
<1> SUFFICES ASSUME NEW t \in Timers, ~stopReq', ~m_stopped', added'[t] # "no", t \notin cancelled'
             PROVE  next'[t] # Never \/ Issued(t)' > 0
  BY DEF Kept
<1>1. ~stopReq /\ ~m_stopped
  BY StoppingKept
<1>2. Issued(t) \in Nat /\ Issued(t)' \in Nat
  BY Constants DEF Types, Issued, Held
<1>3. CASE Thread
  <2>1. added' = added /\ cancelled' = cancelled
    BY <1>3 DEF Thread, Top, Take, Got, ProcessTimers, ProcessTask, TasksDone, EpollWait, ProcessIOEvents, timerVars
  <2> QED
    BY <1>1, <1>2, <1>3, <2>1, ThreadKeeps DEF Kept
<1>4. CASE Tick \/ Continue \/ Call
  BY <1>1, <1>2, <1>4, CallKeeps DEF Kept
<1> QED
  BY <1>3, <1>4 DEF Next

(* A one-shot timer runs at most once, and not at all once cancelTimer() has returned     *)
(* true; a repeating one runs no more often than time allows.  For any timers and         *)
(* intervals, whoever posts, registers, stops and restarts the loop meanwhile; and no     *)
(* timer is lost but to cancelTimer() and stop().                                         *)
THEOREM TimersKeepTheirWord == Spec => []TimerDiscipline
<1>0. Init => Stopping /\ Kept
  BY DEF Init, Stopping, Kept
<1>1. Init => TimerInv
  <2> SUFFICES ASSUME Init PROVE TimerInv
    OBVIOUS
  <2>1. \A t \in Timers : Issued(t) = 0 /\ next[t] = Never /\ t \notin cancelled /\ clock = 0
    BY Constants DEF Init, Issued, Held
  <2>2. \A t \in Timers : Interval[t] \in Nat /\ 0 * Interval[t] = 0
    BY Constants
  <2> QED
    BY <2>1, <2>2, Constants DEF TimerInv, NotAdded, OneShot, Paced
<1>2. Types /\ Types' /\ TimerInv /\ [Next]_vars => TimerInv'
  <2> SUFFICES ASSUME Types, Types', TimerInv, [Next]_vars PROVE TimerInv'
    OBVIOUS
  <2>1. CASE UNCHANGED vars
    BY <2>1 DEF vars, setup, queueVars, timerVars, loopVars, stopVars, fdVars, TimerInv, NotAdded,
       OneShot, Paced, Issued, Held
  <2> QED
    BY <2>1, ThreadTimers, CallTimers DEF Next
<1>4. Types /\ Types' /\ Stopping /\ Kept /\ [Next]_vars => Stopping' /\ Kept'
  <2> SUFFICES ASSUME Types, Types', Stopping, Kept, [Next]_vars PROVE Stopping' /\ Kept'
    OBVIOUS
  <2>1. CASE UNCHANGED vars
    BY <2>1 DEF vars, setup, queueVars, timerVars, loopVars, stopVars, fdVars, Stopping, Kept, Issued, Held
  <2> QED
    BY <2>1, StoppingKept, TimersStayKept
<1>3. Types /\ TimerInv /\ Kept => TimerDiscipline
  <2> SUFFICES ASSUME Types, TimerInv, Kept, NEW t \in Timers
               PROVE  /\ IF t \in Repeating THEN fired[t] * Interval[t] <= clock
                         ELSE fired[t] + m_queue[t] <= 1 /\ (t \in cancelled => fired[t] + m_queue[t] = 0)
                      /\ \/ added[t] = "no" \/ t \in cancelled \/ stopReq \/ m_stopped
                         \/ next[t] # Never \/ fired[t] + m_queue[t] > 0 \/ cur = t
    BY DEF TimerDiscipline
  <2>1. /\ fired[t] \in Nat /\ m_queue[t] \in Nat /\ Issued(t) \in Nat /\ Interval[t] \in Nat
        /\ fired[t] + m_queue[t] <= Issued(t) /\ fired[t] <= Issued(t) /\ clock \in Nat
    BY Constants DEF Types, Issued, Held
  <2>4. added[t] = "no" \/ t \in cancelled \/ stopReq \/ m_stopped \/ next[t] # Never
           \/ fired[t] + m_queue[t] > 0 \/ cur = t
    BY <2>1 DEF Kept, Issued, Held
  <2>2. CASE t \in Repeating
    <3>1. fired[t] * Interval[t] <= Issued(t) * Interval[t] /\ Issued(t) * Interval[t] <= clock
      BY <2>1, <2>2, Fewer DEF TimerInv, Paced
    <3> QED
      BY <2>1, <2>2, <2>4, <3>1
  <2>3. CASE t \notin Repeating
    BY <2>1, <2>3, <2>4 DEF TimerInv, OneShot
  <2> QED
    BY <2>2, <2>3
<1> QED
  BY <1>0, <1>1, <1>2, <1>3, <1>4, TypeInvariant, PTL DEF Spec

-----------------------------------------------------------------------------
(* The least of some naturals. *)
LEMMA MinIs ==
    ASSUME NEW S \in SUBSET Nat, S # {}
    PROVE  Min(S) \in S /\ \A y \in S : Min(S) <= y
<1> DEFINE R == OpToRel(<, Nat)
<1>1. IsWellFoundedOn(R, Nat)
  BY NatLessThanWellFounded
<1>2. \A x, y \in Nat : <<x, y>> \in R <=> x < y
  BY DEF OpToRel
<1> HIDE DEF R
<1>3. PICK x \in S : \A y \in S : ~(<<y, x>> \in R)
  BY <1>1, WFMin
<1>4. ASSUME NEW y \in S PROVE x <= y
  <2>1. x \in Nat /\ y \in Nat /\ ~(y < x)
    BY <1>2, <1>3
  <2> QED BY <2>1
<1> QED
  BY <1>3, <1>4 DEF Min

(* TimersShortenSleep, with the deadline in its type. *)
Short ==
    kind = "async" /\ pc = "take" =>
        /\ deadline \in Nat /\ deadline <= Never
        /\ \A t \in Timers : deadline <= next[t] \/ ~QueueEmpty \/ added[t] = "pushed" \/ m_stopped

(* The thread goes to sleep until the first timer, or for a heartbeat when there is none. *)
LEMMA ThreadShort ==
    ASSUME Types, Short, Thread
    PROVE  Short'
<1> USE DEF setup, queueVars, timerVars, loopVars, stopVars, fdVars
<1>1. CASE Top
  <2>1. UNCHANGED <<clock, next, kind>>
    BY <1>1 DEF Top
  <2>2. /\ clock \in Nat /\ next \in [Timers -> Nat] /\ Never \in Nat /\ Heartbeat \in Nat
        /\ clock <= Never /\ clock + Heartbeat <= Never
    BY Constants, LoopAssumption DEF LoopAssumption, Types
  <2>3. NextWakeup \in Nat /\ NextWakeup <= Never /\ \A t \in Timers : NextWakeup <= next[t]
    BY <2>2, MinIs DEF NextWakeup
  <2> HIDE DEF NextWakeup
  <2>4. kind = "async" /\ pc' = "take" =>
           deadline' = IF NextWakeup # Never THEN NextWakeup ELSE IF QueueEmpty THEN clock + Heartbeat ELSE clock
    BY <1>1 DEF Top, Exit
  <2>5. NextWakeup = Never => \A t \in Timers : next[t] >= Never
    BY <2>2, <2>3
  <2> QED
    BY <2>1, <2>2, <2>3, <2>4, <2>5 DEF Short
<1>2. CASE Take \/ Got \/ ProcessTimers \/ ProcessTask \/ TasksDone \/ EpollWait \/ ProcessIOEvents
  <2>1. pc' # "take"
    BY <1>2 DEF Take, Got, ProcessTimers, ProcessTask, TasksDone, EpollWait, ProcessIOEvents, Exit
  <2> QED
    BY <2>1 DEF Short
<1> QED
  BY <1>1, <1>2 DEF Thread

(* A caller that sets a timer owes the empty task, and once it is queued it stays until   *)
(* the thread takes it.                                                                   *)
LEMMA CallShort ==
    ASSUME Types, Short, Tick \/ Continue \/ Call
    PROVE  Short'
<1> USE DEF setup, queueVars, timerVars, loopVars, stopVars, fdVars
<1>0. /\ m_queue \in [Items -> Nat] /\ next \in [Timers -> Nat] /\ Never \in Nat
      /\ added \in [Timers -> {"no", "pushed", "yes"}] /\ NoTask \in Items
  BY Constants DEF Types
<1>1. \A s : ~m_stopped /\ m_queue' = Put(s) /\ s \cap Items # {} => ~QueueEmpty'
  BY <1>0 DEF Put, QueueEmpty
<1>2. \A s : m_queue' = Put(s) /\ ~QueueEmpty => ~QueueEmpty'
  BY <1>0, PutIs DEF QueueEmpty
<1>3. ASSUME UNCHANGED <<kind, pc, deadline, m_queue>>, m_stopped => m_stopped',
             \A t \in Timers : next'[t] \in {next[t], Never} \/ added'[t] = "pushed",
             \A t \in Timers : added[t] = "pushed" => added'[t] = "pushed"
      PROVE  Short'
  BY <1>0, <1>3 DEF Short, QueueEmpty
<1>4. ASSUME NEW s, s \cap Items # {}, m_queue' = Put(s), UNCHANGED <<kind, pc, deadline, m_stopped>>
      PROVE  Short'
  BY <1>1, <1>2, <1>4 DEF Short
<1>5. CASE Tick \/ Signal \/ StopJoin \/ StopRequest \/ StopQueue
  BY <1>0, <1>3, <1>5 DEF Tick, Signal, StopJoin, StopRequest, StopQueue
<1>6. CASE StopClear
  BY <1>0, <1>3, <1>6 DEF StopClear
<1>7. CASE Restart
  <2>1. pc' # "take"
    BY <1>7 DEF Restart
  <2> QED
    BY <2>1 DEF Short
<1>8. ASSUME NEW f \in FDs, RegisterStore(f) \/ RegisterAdd(f) \/ UnregisterDel(f) \/ Arrive(f) PROVE Short'
  BY <1>0, <1>3, <1>8 DEF RegisterStore, RegisterAdd, UnregisterDel, Arrive
<1>9. ASSUME NEW f \in FDs, RegisterDone(f) \/ ModifyFD(f) PROVE Short'
  <2>1. m_queue' = Put({NoTask}) /\ UNCHANGED <<kind, pc, deadline, m_stopped>>
    BY <1>9 DEF RegisterDone, ModifyFD
  <2> QED
    BY <1>0, <1>4, <2>1
<1>10. ASSUME NEW x \in Tasks, Post(x) PROVE Short'
  <2>1. m_queue' = Put({x}) /\ UNCHANGED <<kind, pc, deadline, m_stopped>>
    BY <1>10 DEF Post
  <2>2. {x} \cap Items # {}
    BY Constants
  <2> QED
    BY <1>4, <2>1, <2>2
<1>11. ASSUME NEW t \in Timers, AddTimerWake(t) \/ CancelTimer(t) PROVE Short'
  <2>1. m_queue' = Put({NoTask}) /\ UNCHANGED <<kind, pc, deadline, m_stopped>>
    BY <1>11 DEF AddTimerWake, CancelTimer
  <2> QED
    BY <1>0, <1>4, <2>1
<1>12. ASSUME NEW t \in Timers, AddTimer(t) PROVE Short'
  <2>1. /\ UNCHANGED <<kind, pc, deadline, m_queue, m_stopped>>
        /\ next' = [next EXCEPT ![t] = clock + Interval[t]] /\ added' = [added EXCEPT ![t] = "pushed"]
    BY <1>12 DEF AddTimer
  <2>2. \A u \in Timers : (u = t /\ added'[u] = "pushed") \/ (next'[u] = next[u] /\ added'[u] = added[u])
    BY <1>0, <2>1
  <2> QED
    BY <1>3, <2>1, <2>2
<1> QED
  BY <1>5, <1>6, <1>7, <1>8, <1>9, <1>10, <1>11, <1>12 DEF Continue, Call

(* An AsyncEventLoop never sleeps past a timer, for any timers, intervals and heartbeat:  *)
(* a timer set after the thread had decided how long to sleep ends the sleep, by the      *)
(* empty task that addTimer() queues, or the queue is stopped and nothing sleeps on it.   *)
THEOREM NeverOversleeps == Spec => []TimersShortenSleep
<1>1. Init => Short
  BY DEF Init, Short
<1>2. Types /\ Short /\ [Next]_vars => Short'
  <2> SUFFICES ASSUME Types, Short, [Next]_vars PROVE Short'
    OBVIOUS
  <2>1. CASE UNCHANGED vars
    BY <2>1 DEF vars, setup, queueVars, timerVars, loopVars, stopVars, fdVars, Short, QueueEmpty
  <2> QED
    BY <2>1, ThreadShort, CallShort DEF Next
<1>3. Short => TimersShortenSleep
  BY DEF Short, TimersShortenSleep
<1> QED
  BY <1>1, <1>2, <1>3, TypeInvariant, PTL DEF Spec

-----------------------------------------------------------------------------
(* JobHttpClient. *)

(* The transport is open exactly while the client is busy. *)
OpenWhileBusy == sock # "none" <=> IsBusy

(* Inside a handler nothing has been reported yet.  While parsing, and so    *)
(* back in onRead(), the request may have been cancelled by the body         *)
(* callback: the client is then idle, not complete.                          *)
NothingReported ==
    /\ hpc = "send" => m_state = "Sending"
    /\ hpc \in {"read", "parse"} => m_state \notin {"Complete", "Error"} /\ outcome = "none"

OutcomeInv == OneOutcome /\ OpenWhileBusy /\ NothingReported /\ requests \in Nat

(* fail() from a state where nothing was reported reports one error.         *)
LEMMA FailReports ==
    ASSUME OutcomeInv, Fail, m_state \notin {"Complete", "Error"}, outcome = "none"
    PROVE  OutcomeInv'
BY DEF OutcomeInv, OneOutcome, OpenWhileBusy, NothingReported, Fail, CloseTransport,
   Go, Report, IsBusy

(* completeResponse() likewise reports one response.                         *)
LEMMA CompleteReports ==
    ASSUME OutcomeInv, CompleteResponse, m_state \notin {"Complete", "Error"}, outcome = "none"
    PROVE  OutcomeInv'
BY DEF OutcomeInv, OneOutcome, OpenWhileBusy, NothingReported, CompleteResponse,
   CloseTransport, Go, Report, IsBusy

(* The peer disconnected: one or the other.                                  *)
LEMMA DisconnectReports ==
    ASSUME OutcomeInv, HandleDisconnected, m_state \notin {"Complete", "Error"}, outcome = "none"
    PROVE  OutcomeInv'
BY FailReports, CompleteReports DEF HandleDisconnected

(* A step that leaves the request as it was, or goes on with it. *)
LEMMA GoesOn ==
    ASSUME OutcomeInv, IsBusy, IsBusy', sock' # "none", UNCHANGED ghosts,
           hpc' = "send" => m_state' = "Sending"
    PROVE  OutcomeInv'
BY DEF OutcomeInv, OneOutcome, OpenWhileBusy, NothingReported, IsBusy, ghosts

LEMMA SameRequest ==
    ASSUME OutcomeInv, UNCHANGED <<m_state, sock, ghosts>>, hpc' \in {hpc, "idle"}
    PROVE  OutcomeInv'
BY DEF OutcomeInv, OneOutcome, OpenWhileBusy, NothingReported, IsBusy, ghosts

(* The caller: send() starts over, cancel() and reset() close without a report. *)
LEMMA CallerOutcome ==
    ASSUME OutcomeInv, Send \/ Cancel \/ Reset
    PROVE  OutcomeInv'
<1> USE DEF OutcomeInv, OneOutcome, OpenWhileBusy, NothingReported, IsBusy
<1>1. CASE Send
  BY <1>1 DEF Send, handlerVars
<1>2. CASE Cancel \/ Reset
  BY <1>2 DEF Cancel, Reset, Withdraw, CloseTransport, handlerVars
<1> QED
  BY <1>1, <1>2

(* The resolver's answer, which may come for a socket that is gone. *)
LEMMA ResolverOutcome ==
    ASSUME OutcomeInv, NEW n, Resolved(n)
    PROVE  OutcomeInv'
<1>1. CASE UNCHANGED <<clientVars, sockVars, handlerVars, ghosts>>
  BY <1>1, SameRequest DEF clientVars, sockVars, handlerVars
<1>2. CASE sock = "resolving"
  <2>1. IsBusy /\ m_state \notin {"Complete", "Error"} /\ outcome = "none"
    BY <1>2 DEF OutcomeInv, OneOutcome, OpenWhileBusy, IsBusy
  <2>2. CASE Fail
    BY <2>1, <2>2, FailReports
  <2>3. CASE sock' = "Connecting" /\ UNCHANGED <<clientVars, handlerVars, ghosts>>
    BY <2>1, <2>3, GoesOn DEF IsBusy, clientVars, handlerVars, OutcomeInv, NothingReported
  <2>4. CASE sock' = "Connected" /\ m_state' = "Sending" /\ UNCHANGED ghosts
    BY <2>1, <2>4, GoesOn DEF IsBusy
  <2> QED
    BY <1>1, <1>2, <2>2, <2>3, <2>4 DEF Resolved
<1> QED
  BY <1>1, <1>2 DEF Resolved

(* The event loop's tasks, which may be for a socket that is gone. *)
LEMMA EventOutcome ==
    ASSUME OutcomeInv, Epoll \/ OnEvents
    PROVE  OutcomeInv'
<1>1. CASE Epoll
  BY <1>1, SameRequest DEF Epoll, clientVars, handlerVars
<1>2. CASE OnEvents /\ ~WeakSelf(Head(tasks))
  <2>1. UNCHANGED <<clientVars, sockVars, handlerVars, ghosts>>
    BY <1>2 DEF OnEvents
  <2> QED
    BY <2>1, SameRequest DEF clientVars, sockVars, handlerVars
<1>3. CASE OnEvents /\ WeakSelf(Head(tasks))
  <2>1. sock # "none" /\ IsBusy /\ m_state \notin {"Complete", "Error"} /\ outcome = "none" /\ hpc = "idle"
    BY <1>3 DEF OnEvents, WeakSelf, OutcomeInv, OneOutcome, OpenWhileBusy, IsBusy
  <2>2. CASE Fail \/ HandleDisconnected
    BY <2>1, <2>2, FailReports, DisconnectReports
  <2>3. CASE sock' # "none" /\ UNCHANGED <<clientVars, handlerVars, ghosts>>
    BY <2>1, <2>3, GoesOn DEF IsBusy, clientVars, handlerVars
  <2>4. CASE sock' = "Connected" /\ m_state' = "Sending" /\ UNCHANGED ghosts
    BY <2>1, <2>4, GoesOn DEF IsBusy
  <2>5. CASE sock' = sock /\ UNCHANGED <<clientVars, ghosts>> /\ (hpc' = "send" => m_state = "Sending")
    BY <2>1, <2>5, GoesOn DEF IsBusy, clientVars
  <2> QED
    BY <1>3, <2>1, <2>2, <2>3, <2>4, <2>5 DEF OnEvents, Disconnect, sockVars
<1> QED
  BY <1>1, <1>2, <1>3

(* The handlers: sendPendingData() and onRead().                             *)
LEMMA HandlerOutcome ==
    ASSUME OutcomeInv, SendPendingData \/ Read
    PROVE  OutcomeInv'
<1>1. CASE SendPendingData
  <2>1. m_state = "Sending" /\ IsBusy /\ outcome = "none" /\ sock # "none"
    BY <1>1 DEF SendPendingData, SendSome, WouldBlock, SendEnds, OutcomeInv, OneOutcome, OpenWhileBusy, NothingReported, IsBusy
  <2>2. CASE SendSome
    BY <2>1, <2>2, GoesOn DEF SendSome, IsBusy, sockVars
  <2>3. CASE WouldBlock
    BY <2>1, <2>3, GoesOn DEF WouldBlock, IsBusy, clientVars
  <2>4. CASE SendEnds /\ ~Fail
    BY <2>1, <2>4, GoesOn DEF SendEnds, AfterSend, Go, IsBusy
  <2>5. CASE Fail
    BY <2>1, <2>5, FailReports
  <2> QED
    BY <1>1, <2>2, <2>3, <2>4, <2>5 DEF SendPendingData
<1>2. CASE Read
  <2>1. m_state \notin {"Complete", "Error"} /\ outcome = "none" /\ hpc = "read"
    BY <1>2 DEF Read, OutcomeInv, NothingReported
  <2>2. CASE HandleDisconnected
    BY <2>1, <2>2, DisconnectReports
  <2>3. CASE UNCHANGED <<clientVars, sockVars, ghosts>> /\ hpc' \in {"idle", "read", "parse"}
    BY <2>1, <2>3 DEF OutcomeInv, OneOutcome, OpenWhileBusy, NothingReported, IsBusy, clientVars, sockVars, ghosts
  <2> QED
    BY <1>2, <2>1, <2>2, <2>3 DEF Read, Go
<1> QED
  BY <1>1, <1>2

(* The parser's loop: it ends in a report, or goes on, perhaps cancelled.    *)
LEMMA ParseOutcome ==
    ASSUME OutcomeInv, Parse
    PROVE  OutcomeInv'
<1>1. hpc = "parse" /\ m_state \notin {"Complete", "Error"} /\ outcome = "none"
  BY DEF Parse, OutcomeInv, NothingReported
<1>2. CASE ParseEnds
  BY <1>1, <1>2, FailReports, CompleteReports DEF ParseEnds
<1>3. CASE ParseLine
  BY <1>1, <1>3 DEF ParseLine, NeedMoreData, Go, OutcomeInv, OneOutcome,
     OpenWhileBusy, NothingReported, IsBusy, sockVars, handlerVars, ghosts
<1>4. CASE ParseBody
  BY <1>1, <1>4 DEF ParseBody, NeedMoreData, Go, CloseTransport, OutcomeInv,
     OneOutcome, OpenWhileBusy, NothingReported, IsBusy, clientVars, sockVars, handlerVars, ghosts
<1> QED
  BY <1>2, <1>3, <1>4 DEF Parse

(* The peer touches none of it.                                              *)
LEMMA PeerOutcome ==
    ASSUME OutcomeInv, Peer \/ UNCHANGED httpVars
    PROVE  OutcomeInv'
<1>1. UNCHANGED <<m_state, sock, ghosts, hpc>>
  BY DEF Peer, PeerAccept, PeerRead, PeerReply, PeerEnds, httpVars,
     clientVars, sockVars, handlerVars
<1> QED
  BY <1>1, SameRequest

LEMMA OutcomeInvariant == HttpSpec => []OutcomeInv
<1>1. HttpInit => OutcomeInv
  BY DEF HttpInit, OutcomeInv, OneOutcome, OpenWhileBusy, NothingReported, IsBusy
<1>2. OutcomeInv /\ [HttpNext]_httpVars => OutcomeInv'
  BY CallerOutcome, ResolverOutcome, EventOutcome, HandlerOutcome, ParseOutcome, PeerOutcome DEF HttpNext, Loop
<1> QED
  BY <1>1, <1>2, PTL DEF HttpSpec

(* A request that send() accepted is reported once, when it has ended and as *)
(* what its state says; one that was cancelled or reset between two handlers *)
(* is not reported any more; one that send() refused is an error, or nothing *)
(* when the client had failed before.  For any replies, cut into any pieces, *)
(* any peer that closes or resets at any point, and whatever events and      *)
(* answers of the resolver come for sockets that are gone.                   *)
THEOREM ReportedOnce == HttpSpec => []OneOutcome
<1>1. OutcomeInv => OneOutcome
  BY DEF OutcomeInv
<1> QED
  BY <1>1, OutcomeInvariant, PTL

(* What an idle client can do, outside a body callback and the turns of the  *)
(* parser that follow it.                                                    *)
LEMMA IdleStays ==
    ASSUME OutcomeInv, [HttpNext]_httpVars, m_state = "Idle", hpc # "parse"
    PROVE  requests' > requests \/ UNCHANGED <<m_state, outcome>>
<1>1. ~IsBusy /\ sock = "none" /\ hpc # "send" /\ requests \in Nat
  BY DEF IsBusy, OutcomeInv, OpenWhileBusy, NothingReported
<1>2. CASE Send
  BY <1>1, <1>2 DEF Send
<1>3. ASSUME NEW n, Resolved(n) PROVE UNCHANGED <<m_state, outcome>>
  BY <1>1, <1>3 DEF Resolved, clientVars, ghosts
<1>4. CASE OnEvents
  BY <1>1, <1>4 DEF OnEvents, WeakSelf, clientVars, ghosts
<1>5. CASE Read
  BY <1>1, <1>5 DEF Read, clientVars, ghosts
<1>6. ~(Cancel \/ Reset \/ Epoll \/ SendPendingData \/ Parse)
  BY <1>1 DEF Cancel, Reset, Epoll, Open, SendPendingData, SendSome, WouldBlock, SendEnds, Parse
<1>7. CASE Peer \/ UNCHANGED httpVars
  BY <1>7 DEF Peer, PeerAccept, PeerRead, PeerReply, PeerEnds, httpVars, clientVars, ghosts
<1> QED
  BY <1>2, <1>3, <1>4, <1>5, <1>6, <1>7 DEF HttpNext, Loop

(* Nothing follows a cancel() or a reset() made between two handlers: the    *)
(* events of the old connection that are still queued, and a resolver that   *)
(* answers late, change nothing and report nothing until the next send().    *)
(* A cancel() made by the body callback is final once its handler is back in *)
(* onRead(); inside the parser it is not (MCHttpCancel.cfg).                 *)
THEOREM CancelledStaysCancelled == HttpSpec => IdleUntilSend
<1>1. OutcomeInv /\ [HttpNext]_httpVars
        => [m_state = "Idle" /\ hpc # "parse" => requests' > requests \/ UNCHANGED <<m_state, outcome>>]_httpVars
  BY IdleStays
<1> QED
  BY <1>1, OutcomeInvariant, PTL DEF HttpSpec, IdleUntilSend

-----------------------------------------------------------------------------
(* JobHttpParser: however a reply is cut into pieces, the parser is where    *)
(* the reference is, which reads one symbol at a time.                       *)

(* Induction over the naturals, for a set. *)
LEMMA Induction ==
    ASSUME NEW S \in SUBSET Nat, 0 \in S, \A k \in S : k + 1 \in S
    PROVE  S = Nat
<1> SUFFICES ASSUME Nat \ S # {} PROVE FALSE
  OBVIOUS
<1> DEFINE R == OpToRel(<, Nat)
<1>1. IsWellFoundedOn(R, Nat)
  BY NatLessThanWellFounded
<1>2. \A x, y \in Nat : <<x, y>> \in R <=> x < y
  BY DEF OpToRel
<1> HIDE DEF R
<1>3. PICK x \in Nat \ S : \A y \in Nat \ S : ~(<<y, x>> \in R)
  BY <1>1, WFMin
<1>4. x # 0 /\ x - 1 \in Nat /\ x - 1 < x
  BY <1>3
<1>5. x - 1 \in S
  BY <1>2, <1>3, <1>4
<1> QED
  BY <1>3, <1>4, <1>5

(* f is the reading of the wire, prefix by prefix.                           *)
Reading(f, method, wire) ==
    /\ f[0] = NewParser
    /\ \A i \in 1..Len(wire) : f[i] = ReadSymbol(f[i - 1], method, wire[i])

(* The recursive function of the reference does what its equation says.      *)
LEMMA PrefixesRead ==
    ASSUME NEW method, NEW wire, Len(wire) \in Nat
    PROVE  Reading(Prefixes(method, wire), method, wire)
<1> DEFINE n == Len(wire)
           Step(q, i) == ReadSymbol(q, method, wire[i])
           Runs1(m, f) == /\ f = [i \in 0..m |-> f[i]] /\ f[0] = NewParser
                          /\ \A i \in 1..m : f[i] = Step(f[i - 1], i)
           S == {m \in Nat : \E f : Runs1(m, f)}
<1> HIDE DEF Step
<1>1. 0 \in S
  <2> DEFINE f == [i \in 0..0 |-> NewParser]
  <2>1. Runs1(0, f)
    <3>1. 0 \in 0..0 /\ 1..0 = {}
      OBVIOUS
    <3>2. f[0] = NewParser /\ f = [i \in 0..0 |-> f[i]]
      BY <3>1
    <3> QED BY <3>1, <3>2
  <2> HIDE DEF f, Runs1
  <2> QED BY <2>1
<1>2. ASSUME NEW m \in S PROVE m + 1 \in S
  <2>0. m \in Nat
    OBVIOUS
  <2>1. PICK f : Runs1(m, f)
    <3> HIDE DEF Runs1
    <3> QED BY <2>0
  <2> DEFINE g == [i \in 0..(m + 1) |-> IF i <= m THEN f[i] ELSE Step(f[m], m + 1)]
  <2>2. g = [i \in 0..(m + 1) |-> g[i]] /\ g[0] = NewParser
    BY <2>0, <2>1
  <2>3. ASSUME NEW i \in 1..(m + 1) PROVE g[i] = Step(g[i - 1], i)
    <3>1. i - 1 \in 0..(m + 1) /\ i - 1 <= m /\ i \in 0..(m + 1)
      BY <2>0
    <3>2. g[i - 1] = f[i - 1]
      BY <3>1
    <3>3. CASE i = m + 1
      <4>1. i - 1 = m /\ ~(i <= m)
        BY <2>0, <3>3
      <4> QED BY <3>1, <3>2, <3>3, <4>1
    <3>4. CASE i # m + 1
      <4>1. i \in 1..m
        BY <2>0, <3>4
      <4>2. g[i] = f[i]
        BY <2>0, <3>1, <4>1
      <4>3. f[i] = Step(f[i - 1], i)
        BY <2>1, <4>1
      <4> QED BY <3>2, <4>2, <4>3
    <3> QED BY <3>3, <3>4
  <2>4. Runs1(m + 1, g)
    <3> HIDE DEF g
    <3> QED BY <2>2, <2>3
  <2> HIDE DEF g, Runs1
  <2> QED BY <2>0, <2>4
<1>3. S = Nat
  <2> HIDE DEF S
  <2>1. S \in SUBSET Nat
    BY DEF S
  <2> QED BY <1>1, <1>2, <2>1, Induction
<1>4. PICK f : Runs1(n, f)
  <2> HIDE DEF Runs1
  <2> QED BY <1>3
<1>5. f = [i \in 0..Len(wire) |-> IF i = 0 THEN NewParser ELSE ReadSymbol(f[i - 1], method, wire[i])]
  <2>1. \A i \in 0..n : i # 0 => i \in 1..n
    OBVIOUS
  <2> QED BY <1>4, <2>1 DEF Step
<1> DEFINE h == CHOOSE h : h = [i \in 0..Len(wire) |-> IF i = 0 THEN NewParser ELSE ReadSymbol(h[i - 1], method, wire[i])]
<1>6. h = [i \in 0..Len(wire) |-> IF i = 0 THEN NewParser ELSE ReadSymbol(h[i - 1], method, wire[i])]
  BY <1>5
<1>7. Prefixes(method, wire) = h
  BY DEF Prefixes
<1> HIDE DEF h
<1>8. 0 \in 0..n /\ \A i \in 1..n : i \in 0..n /\ i # 0
  OBVIOUS
<1> QED
  BY <1>6, <1>7, <1>8 DEF Reading

(* A response that has failed stays failed.                                  *)
LEMMA ErrorStays ==
    ASSUME NEW f, NEW method, NEW wire, Len(wire) \in Nat, Reading(f, method, wire),
           NEW c \in 0..Len(wire), f[c].state = "Error"
    PROVE  f[Len(wire)].state = "Error"
<1> DEFINE S == {k \in Nat : c + k <= Len(wire) => f[c + k].state = "Error"}
<1>0. c \in Nat
  OBVIOUS
<1>1. 0 \in S
  BY <1>0
<1>2. ASSUME NEW k \in S PROVE k + 1 \in S
  <2> SUFFICES ASSUME c + (k + 1) <= Len(wire) PROVE f[c + (k + 1)].state = "Error"
    OBVIOUS
  <2>1. k \in Nat /\ c + (k + 1) \in 1..Len(wire) /\ (c + (k + 1)) - 1 = c + k /\ c + k <= Len(wire)
    BY <1>0
  <2>2. f[c + k].state = "Error"
    BY <2>1
  <2>3. f[c + (k + 1)] = ReadSymbol(f[c + k], method, wire[c + (k + 1)])
    BY <2>1 DEF Reading
  <2> QED BY <2>2, <2>3 DEF ReadSymbol, LineStates
<1>3. S = Nat
  <2> HIDE DEF S
  <2>1. S \in SUBSET Nat
    BY DEF S
  <2> QED BY <1>1, <1>2, <2>1, Induction
<1>4. Len(wire) - c \in S
  <2> HIDE DEF S
  <2> QED BY <1>0, <1>3
<1> QED
  BY <1>0, <1>4

(* The types of the parser.                                                 *)
Symbol == STRING \X Nat
Framings == {"None", "ContentLength", "Chunked", "CloseDelimited", "Tunnel"}
ParserType ==
    [state : LineStates \cup {"Body", "ChunkData", "Complete", "Error"}, framing : Framings, code : Nat,
     fields : Seq(Symbol), trailers : Nat, line : Seq(Symbol), contentLength : Nat, chunk : Nat, body : Nat]

(* What parse() can count on between two turns of its loop.                  *)
ParserOK(p) ==
    /\ p \in ParserType /\ Len(p.line) < LineBufferSize
    /\ p.state \in {"StatusLine", "Headers"} => p.body = 0
    /\ p.state = "ChunkData" => p.chunk > 0
    /\ p.state = "Body" /\ p.framing = "ContentLength" => p.body < p.contentLength

(* A parser with another line, and with other counts.                        *)
WithLine(p, l) == [p EXCEPT !.line = l]
WithCounts(p, b, n) == [p EXCEPT !.body = b, !.chunk = n]

(* Changing only the line, or only the counts.                               *)
LEMMA SameLine ==
    ASSUME NEW p \in ParserType
    PROVE  WithLine(p, p.line) = p
BY DEF WithLine, ParserType

LEMMA LineTwice ==
    ASSUME NEW p \in ParserType, NEW l, NEW m
    PROVE  WithLine(WithLine(p, l), m) = WithLine(p, m)
BY DEF WithLine, ParserType

LEMMA WithLineIs ==
    ASSUME NEW p \in ParserType, NEW l
    PROVE  /\ WithLine(p, l).line = l /\ WithLine(p, l).state = p.state /\ WithLine(p, l).framing = p.framing
           /\ WithLine(p, l).body = p.body /\ WithLine(p, l).chunk = p.chunk
           /\ WithLine(p, l).contentLength = p.contentLength /\ WithLine(p, l).fields = p.fields
           /\ l \in Seq(Symbol) => WithLine(p, l) \in ParserType
BY DEF WithLine, ParserType

LEMMA WithLineOK ==
    ASSUME NEW p, ParserOK(p), NEW l, l \in Seq(Symbol), Len(l) < LineBufferSize
    PROVE  ParserOK(WithLine(p, l))
<1> DEFINE q == WithLine(p, l)
<1>1. p \in ParserType
  BY DEF ParserOK
<1>2. /\ q.line = l /\ q.state = p.state /\ q.framing = p.framing /\ q.body = p.body
      /\ q.chunk = p.chunk /\ q.contentLength = p.contentLength /\ q \in ParserType
  BY <1>1, WithLineIs
<1> HIDE DEF q
<1>3. ParserOK(q)
  BY <1>2 DEF ParserOK
<1> QED BY <1>3 DEF q

LEMMA SameCounts ==
    ASSUME NEW p \in ParserType
    PROVE  WithCounts(p, p.body, p.chunk) = p
BY DEF WithCounts, ParserType

LEMMA CountsTwice ==
    ASSUME NEW p \in ParserType, NEW b, NEW n, NEW d, NEW m
    PROVE  WithCounts(WithCounts(p, b, n), d, m) = WithCounts(p, d, m)
BY DEF WithCounts, ParserType

LEMMA WithCountsIs ==
    ASSUME NEW p \in ParserType, NEW b, NEW n
    PROVE  /\ WithCounts(p, b, n).body = b /\ WithCounts(p, b, n).chunk = n
           /\ WithCounts(p, b, n).state = p.state /\ WithCounts(p, b, n).framing = p.framing
           /\ WithCounts(p, b, n).contentLength = p.contentLength
           /\ WithCounts(p, b, n).line = p.line /\ WithCounts(p, b, n).code = p.code
BY DEF WithCounts, ParserType

LEMMA WithCountsType ==
    ASSUME NEW p \in ParserType, NEW b, NEW n, b \in Nat /\ n \in Nat
    PROVE  WithCounts(p, b, n) \in ParserType
BY DEF WithCounts, ParserType

(* consumeBody() of n bytes and what follows it.                             *)
TakeBody(p, n) == AfterBody(ConsumeBody(p, n), p.state, n)
InState(p, s) == [p EXCEPT !.state = s]

LEMMA TakeOfBody ==
    ASSUME NEW p \in ParserType, NEW n \in Nat, p.state = "Body"
    PROVE  TakeBody(p, n) =
             IF p.framing = "ContentLength" /\ p.body + n = p.contentLength
             THEN InState(WithCounts(p, p.body + n, p.chunk), "Complete")
             ELSE WithCounts(p, p.body + n, p.chunk)
BY DEF TakeBody, ConsumeBody, InState, WithCounts, AfterBody, ParserType

LEMMA TakeOfChunk ==
    ASSUME NEW p \in ParserType, NEW n \in Nat, p.state = "ChunkData"
    PROVE  TakeBody(p, n) =
             IF p.chunk = n
             THEN InState(WithCounts(p, p.body + n, p.chunk - n), "ChunkDataEnd")
             ELSE WithCounts(p, p.body + n, p.chunk - n)
BY DEF TakeBody, ConsumeBody, InState, WithCounts, AfterBody, ParserType

(* A symbol of a body, and one of a line.                                    *)
LEMMA ReadsByte ==
    ASSUME NEW p \in ParserType, p.state \in {"Body", "ChunkData"}, NEW method, NEW x
    PROVE  ReadSymbol(p, method, x) = TakeBody(p, 1)
BY DEF ReadSymbol, LineStates, TakeBody

ByLineSymbol(p, method, x, line, n) ==
    IF n >= 2 /\ line[n - 1] = CR /\ x = LF
    THEN ByLine(WithLine(p, <<>>), method, SubSeq(line, 1, n - 2))
    ELSE IF n = LineBufferSize THEN SetError(p) ELSE WithLine(p, line)

LEMMA ReadsLineSymbol ==
    ASSUME NEW p, p.state \in LineStates, NEW method, NEW x, NEW line, line = Append(p.line, x),
           NEW n, n = Len(line)
    PROVE  ReadSymbol(p, method, x) = ByLineSymbol(p, method, x, line, n)
BY DEF ReadSymbol, WithLine, ByLineSymbol

(* One more taken, one less to take.                                         *)
LEMMA OneMore == \A b, k \in Nat : (b + k) + 1 = b + (k + 1)
OBVIOUS

LEMMA OneLess == \A a, k \in Nat : (a - k) - 1 = a - (k + 1) /\ (a - k = 1 <=> a = k + 1)
OBVIOUS

(* A body that runs to the close takes in whatever follows.                  *)
LEMMA RunsToTheClose ==
    ASSUME NEW f, NEW method, NEW wire, Len(wire) \in Nat, Reading(f, method, wire),
           NEW c \in 0..Len(wire), NEW p \in ParserType, p = f[c],
           p.state = "Body", p.framing = "CloseDelimited"
    PROVE  f[Len(wire)] = WithCounts(p, p.body + (Len(wire) - c), p.chunk)
<1> DEFINE P(k) == f[c + k] = WithCounts(p, p.body + k, p.chunk)
           S == {k \in Nat : c + k <= Len(wire) => P(k)}
<1>0. c \in Nat /\ p.body \in Nat /\ p.chunk \in Nat
  BY DEF ParserType
<1>1. 0 \in S
  <2>1. p = WithCounts(p, p.body, p.chunk) /\ p.body + 0 = p.body /\ c + 0 = c
    BY <1>0, SameCounts
  <2> QED BY <1>0, <2>1
<1>2. ASSUME NEW k \in S PROVE k + 1 \in S
  <2> SUFFICES ASSUME c + (k + 1) <= Len(wire) PROVE P(k + 1)
    OBVIOUS
  <2>1. k \in Nat /\ c + (k + 1) \in 1..Len(wire) /\ (c + (k + 1)) - 1 = c + k /\ c + k <= Len(wire)
    BY <1>0
  <2> DEFINE q == WithCounts(p, p.body + k, p.chunk)
  <2>2. f[c + k] = q
    BY <2>1
  <2>3. f[c + (k + 1)] = ReadSymbol(q, method, wire[c + (k + 1)])
    BY <2>1, <2>2 DEF Reading
  <2>4. /\ q \in ParserType /\ q.state = "Body" /\ q.framing = "CloseDelimited"
        /\ q.body = p.body + k /\ q.chunk = p.chunk
        /\ WithCounts(q, p.body + (k + 1), p.chunk) = WithCounts(p, p.body + (k + 1), p.chunk)
    <3>1. p.body + k \in Nat
      BY <1>0, <2>1
    <3>2. /\ q \in ParserType /\ q.state = "Body" /\ q.framing = "CloseDelimited"
          /\ q.body = p.body + k /\ q.chunk = p.chunk
      BY <1>0, <3>1, WithCountsIs, WithCountsType
    <3>3. WithCounts(q, p.body + (k + 1), p.chunk) = WithCounts(p, p.body + (k + 1), p.chunk)
      BY CountsTwice
    <3> QED BY <3>2, <3>3
  <2>5. f[c + (k + 1)] = WithCounts(q, q.body + 1, q.chunk)
    <3> HIDE DEF q
    <3> QED BY <2>3, <2>4, ReadsByte, TakeOfBody
  <2>6. q.body + 1 = p.body + (k + 1)
    <3>1. q.body = p.body + k
      BY <2>4
    <3>2. k \in Nat
      BY <2>1
    <3> HIDE DEF q, S
    <3>3. (p.body + k) + 1 = p.body + (k + 1)
      BY <1>0, <3>2, OneMore, Zenon
    <3> QED BY <3>1, <3>3, Zenon
  <2> QED BY <2>4, <2>5, <2>6
<1>3. S = Nat
  <2> HIDE DEF S
  <2>1. S \in SUBSET Nat
    BY DEF S
  <2> QED BY <1>1, <1>2, <2>1, Induction
<1>4. Len(wire) - c \in S
  <2> HIDE DEF S
  <2> QED BY <1>0, <1>3
<1>5. P(Len(wire) - c)
  <2> HIDE DEF P
  <2> QED BY <1>0, <1>4
<1> QED
  BY <1>0, <1>5

(* What consumeBody() takes at once the reference takes byte by byte.        *)
LEMMA TakesBody ==
    ASSUME NEW f, NEW method, NEW wire, Len(wire) \in Nat, Reading(f, method, wire),
           NEW c \in 0..Len(wire), NEW p, ParserOK(p), p = f[c], p.state \in {"Body", "ChunkData"},
           NEW n \in Nat \ {0}, c + n <= Len(wire),
           p.state = "ChunkData" => n <= p.chunk,
           p.state = "Body" /\ p.framing = "ContentLength" => p.body + n <= p.contentLength
    PROVE  f[c + n] = TakeBody(p, n)
<1> DEFINE C(k) == IF p.state = "ChunkData" THEN p.chunk - k ELSE p.chunk
           P(k) == f[c + k] = WithCounts(p, p.body + k, C(k))
           S == {k \in Nat : k < n => P(k)}
<1>0. c \in Nat /\ p \in ParserType /\ p.body \in Nat /\ p.chunk \in Nat /\ p.contentLength \in Nat
  BY DEF ParserOK, ParserType
<1>1. 0 \in S
  <2>1. p = WithCounts(p, p.body, p.chunk) /\ p.body + 0 = p.body /\ c + 0 = c /\ C(0) = p.chunk
    BY <1>0, SameCounts
  <2> QED BY <1>0, <2>1
<1> DEFINE Q(k) == WithCounts(p, p.body + k, C(k))
<1>2. ASSUME NEW k \in Nat, k < n, P(k)
      PROVE  LET q == Q(k) IN
             /\ q \in ParserType /\ q.state = p.state /\ q.framing = p.framing
             /\ q.body = p.body + k /\ q.chunk = C(k) /\ q.contentLength = p.contentLength
             /\ \A b, d : WithCounts(q, b, d) = WithCounts(p, b, d)
             /\ f[c + (k + 1)] = TakeBody(q, 1)
  <2>1. k \in Nat /\ c + (k + 1) \in 1..Len(wire) /\ (c + (k + 1)) - 1 = c + k
    BY <1>0, <1>2
  <2> DEFINE q == Q(k)
  <2>2. f[c + (k + 1)] = ReadSymbol(q, method, wire[c + (k + 1)])
    BY <1>2, <2>1 DEF Reading
  <2>3. p.body + k \in Nat /\ C(k) \in Nat
    <3> HIDE DEF P
    <3>1. p.body + k \in Nat
      BY <1>0
    <3>2. CASE p.state = "ChunkData"
      <4>1. p.chunk - k \in Nat
        BY <1>0, <1>2, <3>2
      <4> QED BY <3>1, <3>2, <4>1
    <3>3. CASE p.state # "ChunkData"
      BY <1>0, <3>1, <3>3
    <3> QED BY <3>2, <3>3
  <2>4. /\ q \in ParserType /\ q.state = p.state /\ q.framing = p.framing
        /\ q.body = p.body + k /\ q.chunk = C(k) /\ q.contentLength = p.contentLength
        /\ \A b, d : WithCounts(q, b, d) = WithCounts(p, b, d)
    <3> HIDE DEF C
    <3>1. /\ q \in ParserType /\ q.state = p.state /\ q.framing = p.framing
          /\ q.body = p.body + k /\ q.chunk = C(k) /\ q.contentLength = p.contentLength
      <4> DEFINE b == p.body + k
                 d == C(k)
      <4>1. q = WithCounts(p, b, d) /\ b \in Nat /\ d \in Nat
        BY <2>3
      <4> HIDE DEF q, b, d
      <4>2. /\ q \in ParserType /\ q.state = p.state /\ q.framing = p.framing
            /\ q.body = b /\ q.chunk = d /\ q.contentLength = p.contentLength
        BY <1>0, <4>1, WithCountsIs, WithCountsType
      <4> QED BY <4>2 DEF b, d
    <3>2. \A b, d : WithCounts(q, b, d) = WithCounts(p, b, d)
      BY <1>0, CountsTwice
    <3> QED BY <3>1, <3>2
  <2>5. f[c + (k + 1)] = TakeBody(q, 1)
    <3> HIDE DEF q
    <3> QED BY <2>2, <2>4, ReadsByte
  <2> HIDE DEF Q, C
  <2> QED BY <2>4, <2>5
<1>3. ASSUME NEW k \in S PROVE k + 1 \in S
  <2> SUFFICES ASSUME k + 1 < n PROVE P(k + 1)
    OBVIOUS
  <2>0. k \in Nat /\ k < n /\ P(k)
    <3>1. k \in Nat /\ k < n
      OBVIOUS
    <3> QED BY <3>1
  <2> DEFINE q == Q(k)
  <2>1. /\ q \in ParserType /\ q.state = p.state /\ q.framing = p.framing
        /\ q.body = p.body + k /\ q.chunk = C(k) /\ q.contentLength = p.contentLength
        /\ \A b, d : WithCounts(q, b, d) = WithCounts(p, b, d)
        /\ f[c + (k + 1)] = TakeBody(q, 1)
    <3> HIDE DEF P, C, Q
    <3> QED BY <1>2, <2>0
  <2>2. /\ q.body + 1 = p.body + (k + 1)
        /\ p.state = "ChunkData" => q.chunk - 1 = C(k + 1) /\ q.chunk # 1
        /\ p.state = "Body" => q.chunk = C(k + 1)
        /\ p.state = "Body" /\ q.framing = "ContentLength" => q.body + 1 # q.contentLength
    <3>1. q.body = p.body + k /\ q.chunk = C(k) /\ q.contentLength = p.contentLength /\ q.framing = p.framing
      BY <2>1
    <3>2. k \in Nat /\ k + 1 < n
      BY <2>0
    <3> HIDE DEF q, P, S
    <3>3. q.body + 1 = p.body + (k + 1)
      <4>1. (p.body + k) + 1 = p.body + (k + 1)
        BY <1>0, <3>2, OneMore, Zenon
      <4> QED BY <3>1, <4>1, Zenon
    <3>4. p.state = "ChunkData" => q.chunk - 1 = C(k + 1) /\ q.chunk # 1
      <4> SUFFICES ASSUME p.state = "ChunkData" PROVE q.chunk - 1 = C(k + 1) /\ q.chunk # 1
        OBVIOUS
      <4>1. q.chunk = p.chunk - k /\ C(k + 1) = p.chunk - (k + 1) /\ n <= p.chunk
        BY <3>1
      <4> HIDE DEF C
      <4>2. q.chunk - 1 = p.chunk - (k + 1) /\ (q.chunk = 1 <=> p.chunk = k + 1)
        <5>1. (p.chunk - k) - 1 = p.chunk - (k + 1) /\ (p.chunk - k = 1 <=> p.chunk = k + 1)
          BY <1>0, <3>2, OneLess, Zenon
        <5> QED BY <4>1, <5>1, Zenon
      <4>3. p.chunk # k + 1
        BY <1>0, <3>2, <4>1
      <4> QED BY <4>1, <4>2, <4>3
    <3>5. p.state = "Body" => q.chunk = C(k + 1)
      BY <3>1
    <3>6. p.state = "Body" /\ q.framing = "ContentLength" => q.body + 1 # q.contentLength
      <4> HIDE DEF C
      <4>1. p.state = "Body" /\ p.framing = "ContentLength" => p.body + (k + 1) # p.contentLength
        BY <1>0, <3>2
      <4> QED BY <3>1, <3>3, <4>1
    <3> QED BY <3>3, <3>4, <3>5, <3>6
  <2>3. f[c + (k + 1)] = WithCounts(q, p.body + (k + 1), C(k + 1))
    <3> HIDE DEF q, C
    <3>1. CASE p.state = "Body"
      BY <2>1, <2>2, <3>1, TakeOfBody
    <3>2. CASE p.state = "ChunkData"
      BY <2>1, <2>2, <3>2, TakeOfChunk
    <3> QED BY <3>1, <3>2
  <2> HIDE DEF q, C
  <2> QED BY <2>1, <2>3
<1>4. S = Nat
  <2> HIDE DEF S
  <2>1. S \in SUBSET Nat
    BY DEF S
  <2> QED BY <1>1, <1>3, <2>1, Induction
<1> DEFINE k == n - 1
           q == Q(k)
<1>5. k \in Nat /\ k < n /\ P(k) /\ k + 1 = n
  <2>1. k \in Nat /\ k < n /\ k + 1 = n
    OBVIOUS
  <2>2. k \in S
    <3> HIDE DEF S
    <3> QED BY <1>4, <2>1
  <2> HIDE DEF P, k
  <2> QED BY <2>1, <2>2
<1>6. /\ q \in ParserType /\ q.state = p.state /\ q.framing = p.framing
      /\ q.body = p.body + k /\ q.chunk = C(k) /\ q.contentLength = p.contentLength
      /\ \A b, d : WithCounts(q, b, d) = WithCounts(p, b, d)
      /\ f[c + (k + 1)] = TakeBody(q, 1)
  <2> HIDE DEF P, C, Q, k
  <2> QED BY <1>2, <1>5
<1>7. /\ q.body + 1 = p.body + n
      /\ p.state = "ChunkData" => q.chunk - 1 = p.chunk - n /\ (q.chunk = 1 <=> p.chunk = n)
      /\ p.state = "Body" => q.chunk = p.chunk
      /\ p.state = "Body" => (q.body + 1 = q.contentLength <=> p.body + n = p.contentLength)
  <2>1. /\ q.body = p.body + k /\ q.contentLength = p.contentLength /\ k \in Nat /\ k + 1 = n
        /\ p.state = "ChunkData" => q.chunk = p.chunk - k
        /\ p.state = "Body" => q.chunk = p.chunk
    BY <1>5, <1>6
  <2> HIDE DEF q, P, k, S, C
  <2>2. q.body + 1 = p.body + n
    <3>1. q.body + 1 = p.body + (k + 1)
      <4>1. (p.body + k) + 1 = p.body + (k + 1)
        BY <1>0, <2>1, OneMore, Zenon
      <4> QED BY <2>1, <4>1, Zenon
    <3> QED BY <2>1, <3>1, Zenon
  <2>3. p.state = "ChunkData" => q.chunk - 1 = p.chunk - n /\ (q.chunk = 1 <=> p.chunk = n)
    <3> SUFFICES ASSUME p.state = "ChunkData" PROVE q.chunk - 1 = p.chunk - n /\ (q.chunk = 1 <=> p.chunk = n)
      OBVIOUS
    <3>1. q.chunk = p.chunk - k
      BY <2>1
    <3>2. q.chunk - 1 = p.chunk - (k + 1) /\ (q.chunk = 1 <=> p.chunk = k + 1)
      <4>1. (p.chunk - k) - 1 = p.chunk - (k + 1) /\ (p.chunk - k = 1 <=> p.chunk = k + 1)
        BY <1>0, <2>1, OneLess, Zenon
      <4> QED BY <3>1, <4>1, Zenon
    <3> QED BY <2>1, <3>2, Zenon
  <2> QED BY <2>1, <2>2, <2>3
<1>8. f[c + n] = TakeBody(q, 1)
  <2> HIDE DEF q, P, k
  <2> QED BY <1>5, <1>6
<1> HIDE DEF q, C, Q, P, k
<1>9. CASE p.state = "Body"
  <2>1. TakeBody(q, 1) = IF q.framing = "ContentLength" /\ q.body + 1 = q.contentLength
                         THEN InState(WithCounts(q, q.body + 1, q.chunk), "Complete")
                         ELSE WithCounts(q, q.body + 1, q.chunk)
    BY <1>6, <1>9, TakeOfBody
  <2>2. WithCounts(q, q.body + 1, q.chunk) = WithCounts(p, p.body + n, p.chunk)
    BY <1>6, <1>7, <1>9
  <2>3. TakeBody(p, n) = IF p.framing = "ContentLength" /\ p.body + n = p.contentLength
                         THEN InState(WithCounts(p, p.body + n, p.chunk), "Complete")
                         ELSE WithCounts(p, p.body + n, p.chunk)
    BY <1>0, <1>9, TakeOfBody
  <2>4. q.framing = p.framing /\ (q.body + 1 = q.contentLength <=> p.body + n = p.contentLength)
    BY <1>6, <1>7, <1>9
  <2> QED BY <1>8, <2>1, <2>2, <2>3, <2>4
<1>10. CASE p.state = "ChunkData"
  <2>1. TakeBody(q, 1) = IF q.chunk = 1
                         THEN InState(WithCounts(q, q.body + 1, q.chunk - 1), "ChunkDataEnd")
                         ELSE WithCounts(q, q.body + 1, q.chunk - 1)
    BY <1>6, <1>10, TakeOfChunk
  <2>2. WithCounts(q, q.body + 1, q.chunk - 1) = WithCounts(p, p.body + n, p.chunk - n)
    BY <1>6, <1>7, <1>10
  <2>3. TakeBody(p, n) = IF p.chunk = n
                         THEN InState(WithCounts(p, p.body + n, p.chunk - n), "ChunkDataEnd")
                         ELSE WithCounts(p, p.body + n, p.chunk - n)
    BY <1>0, <1>10, TakeOfChunk
  <2> QED BY <1>7, <1>8, <1>10, <2>1, <2>2, <2>3
<1> QED
  BY <1>9, <1>10

(* A line ends at its cr lf.                                                 *)
CrLf(s, j) == j >= 2 /\ s[j - 1] = CR /\ s[j] = LF

(* One more symbol of a line.                                                *)
LEMMA SeqSteps ==
    ASSUME NEW all \in Seq(Symbol), NEW k, NEW m, k \in Nat, m = k + 1, m <= Len(all),
           NEW a, a = SubSeq(all, 1, k), NEW b, b = SubSeq(all, 1, m), NEW x, x = all[m]
    PROVE  /\ a \in Seq(Symbol) /\ Append(a, x) = b /\ Len(b) = m
           /\ k >= 1 => b[k] = all[k] /\ SubSeq(b, 1, k - 1) = SubSeq(all, 1, k - 1)
<1>1. a \in Seq(Symbol) /\ Len(a) = k /\ (\A i \in 1..k : a[i] = all[i])
  OBVIOUS
<1>2. b \in Seq(Symbol) /\ Len(b) = m /\ (\A i \in 1..m : b[i] = all[i])
  OBVIOUS
<1>3. x \in Symbol /\ m \in Nat /\ k \in 1..m \cup {0}
  OBVIOUS
<1>4. Append(a, x) = b
  <2> DEFINE u == Append(a, x)
  <2>1. u \in Seq(Symbol) /\ Len(u) = k + 1 /\ u[k + 1] = x /\ \A i \in 1..k : u[i] = a[i]
    BY <1>1, <1>3
  <2> HIDE DEF u
  <2>2. \A i \in 1..m : u[i] = b[i]
    BY <1>1, <1>2, <2>1
  <2>3. u = b
    BY <1>2, <2>1, <2>2
  <2> QED BY <2>3 DEF u
<1>5. ASSUME k >= 1 PROVE b[k] = all[k] /\ SubSeq(b, 1, k - 1) = SubSeq(all, 1, k - 1)
  <2>1. b[k] = all[k]
    BY <1>2, <1>5
  <2> DEFINE u == SubSeq(b, 1, k - 1)
             v == SubSeq(all, 1, k - 1)
  <2>2. k - 1 \in Nat /\ k - 1 <= m /\ k - 1 <= Len(all) /\ k - 1 <= Len(b)
    BY <1>2, <1>3, <1>5
  <2>3. u \in Seq(Symbol) /\ Len(u) = k - 1 /\ \A i \in 1..(k - 1) : u[i] = b[i]
    BY <1>2, <2>2
  <2>4. v \in Seq(Symbol) /\ Len(v) = k - 1 /\ \A i \in 1..(k - 1) : v[i] = all[i]
    BY <2>2
  <2> HIDE DEF u, v
  <2>5. \A i \in 1..(k - 1) : u[i] = v[i]
    BY <1>2, <2>2, <2>3, <2>4
  <2>6. u = v
    BY <2>3, <2>4, <2>5
  <2> QED BY <2>1, <2>6 DEF u, v
<1> QED BY <1>1, <1>2, <1>4, <1>5

(* The line gathered so far and the piece that follows it in the wire.       *)
Follows(p, all, wire, c) ==
    /\ all \in Seq(Symbol) /\ SubSeq(all, 1, Len(p.line)) = p.line
    /\ \A i \in 1..(Len(all) - Len(p.line)) : all[Len(p.line) + i] = wire[c + i]

Lining(f, method, wire, w, c, p, all, e, L) ==
    /\ Reading(f, method, wire) /\ w = Len(wire) /\ p \in ParserType /\ p = f[c] /\ p.state \in LineStates
    /\ Follows(p, all, wire, c) /\ e = Len(all) /\ L = Len(p.line)

NoStop(all, a, b) == \A j \in a..b : ~CrLf(all, j) /\ j # LineBufferSize

(* Until a line ends the reference gathers the symbols that consumeLine()    *)
(* does ...                                                                  *)
LEMMA Gathers ==
    ASSUME NEW f, NEW method, NEW wire, NEW w \in Nat, NEW c \in Nat, NEW p, NEW all, NEW e \in Nat,
           NEW L \in Nat, Lining(f, method, wire, w, c, p, all, e, L),
           NEW n \in Nat, L + n <= e, c + n <= w, NoStop(all, L + 1, L + n)
    PROVE  f[c + n] = WithLine(p, SubSeq(all, 1, L + n))
<1> DEFINE G(k) == WithLine(p, SubSeq(all, 1, L + k))
           S == {k \in Nat : k <= n => f[c + k] = G(k)}
<1>1. 0 \in S
  <2>1. WithLine(p, p.line) = p /\ L + 0 = L /\ c + 0 = c
    BY SameLine DEF Lining
  <2>2. SubSeq(all, 1, L) = p.line /\ p = f[c]
    BY DEF Follows, Lining
  <2> QED BY <2>1, <2>2
<1>2. ASSUME NEW k \in Nat, k \in S PROVE k + 1 \in S
  <2>0. k \in Nat
    OBVIOUS
  <2> SUFFICES ASSUME k + 1 <= n PROVE f[c + (k + 1)] = G(k + 1)
    <3>1. k + 1 \in Nat
      BY <2>0
    <3> HIDE DEF G
    <3> QED BY <3>1
  <2>1. k <= n
    BY <2>0
  <2>2. f[c + k] = G(k)
    <3> HIDE DEF G
    <3> QED BY <1>2, <2>1
  <2> HIDE DEF S, G
  <2> DEFINE x == wire[c + (k + 1)]
             q == G(k)
             h == L + k
             m == L + (k + 1)
             a == SubSeq(all, 1, h)
             b == SubSeq(all, 1, m)
  <2>3. c + (k + 1) \in 1..w /\ (c + (k + 1)) - 1 = c + k /\ k + 1 \in 1..(e - L)
    OBVIOUS
  <2>4. m \in (L + 1)..(L + n) /\ h \in Nat /\ m = h + 1 /\ m <= e /\ m \in Nat
    OBVIOUS
  <2>5. f[c + (k + 1)] = ReadSymbol(q, method, x)
    BY <2>2, <2>3 DEF Reading, Lining
  <2>6. x = all[m]
    BY <2>3 DEF Follows, Lining
  <2>7. ~CrLf(all, m) /\ m # LineBufferSize
    BY <2>4 DEF NoStop
  <2>8. G(k) = WithLine(p, a) /\ G(k + 1) = WithLine(p, b)
    BY DEF G
  <2> HIDE DEF h, m, x
  <2>9. a \in Seq(Symbol) /\ Append(a, x) = b /\ Len(b) = m /\ (h >= 1 => b[h] = all[h])
    <3>1. all \in Seq(Symbol)
      BY DEF Follows, Lining
    <3>2. h \in Nat /\ m = h + 1 /\ m <= Len(all)
      BY <2>4 DEF Lining
    <3> HIDE DEF a, b
    <3>3. a = SubSeq(all, 1, h) /\ b = SubSeq(all, 1, m)
      BY DEF a, b
    <3> QED BY <2>6, <3>1, <3>2, <3>3, SeqSteps
  <2> HIDE DEF a, b
  <2>10. q.line = a /\ q.state \in LineStates /\ WithLine(q, b) = G(k + 1)
    BY <2>8, WithLineIs, LineTwice DEF Lining
  <2> HIDE DEF q
  <2>11. ~(m >= 2 /\ b[m - 1] = CR /\ x = LF)
    <3>1. m >= 2 => h >= 1 /\ h = m - 1
      BY <2>4
    <3> QED BY <2>6, <2>7, <2>9, <3>1 DEF CrLf
  <2>12. ReadSymbol(q, method, x) = WithLine(q, b)
    <3>1. b = Append(q.line, x)
      BY <2>9, <2>10
    <3>2. ReadSymbol(q, method, x) = ByLineSymbol(q, method, x, b, m)
      <4>1. m = Len(b) /\ q.state \in LineStates
        BY <2>9, <2>10
      <4> QED BY <3>1, <4>1, ReadsLineSymbol, Zenon
    <3> QED BY <2>7, <2>11, <3>2 DEF ByLineSymbol
  <2> QED BY <2>5, <2>10, <2>12
<1>3. S = Nat
  <2> HIDE DEF S
  <2>1. S \in SUBSET Nat
    BY DEF S
  <2> QED BY <1>1, <1>2, <2>1, Induction
<1>4. n \in S /\ n <= n
  <2> HIDE DEF S
  <2> QED BY <1>3
<1> QED
  BY <1>4

(* ... and where it ends, or is too long, the two do the same.               *)
AtStop(w, c, all, e, L, m) ==
    /\ L < m /\ m <= e /\ c + (m - L) <= w /\ NoStop(all, L + 1, m - 1)
    /\ CrLf(all, m) \/ m = LineBufferSize
StopsRight(f, method, c, p, all, L, m) ==
    /\ CrLf(all, m) => f[c + (m - L)] = ByLine(WithLine(p, <<>>), method, SubSeq(all, 1, m - 2))
    /\ ~CrLf(all, m) => f[c + (m - L)].state = "Error"

LEMMA Stops ==
    ASSUME NEW f, NEW method, NEW wire, NEW w \in Nat, NEW c \in Nat, NEW p, NEW all, NEW e \in Nat,
           NEW L \in Nat, Lining(f, method, wire, w, c, p, all, e, L),
           NEW m \in Nat, AtStop(w, c, all, e, L, m)
    PROVE  StopsRight(f, method, c, p, all, L, m)
<1>0. /\ L < m /\ m <= e /\ c + (m - L) <= w /\ NoStop(all, L + 1, m - 1)
      /\ CrLf(all, m) \/ m = LineBufferSize
  BY DEF AtStop
<1> DEFINE k == (m - 1) - L
           n == m - L
           x == wire[c + n]
           h == m - 1
           a == SubSeq(all, 1, h)
           b == SubSeq(all, 1, m)
           q == WithLine(p, a)
<1>1. k \in Nat /\ L + k = h /\ c + n \in 1..w /\ (c + n) - 1 = c + k /\ h <= e /\ c + k <= w
  BY <1>0
<1>2. h \in Nat /\ m = h + 1 /\ h - 1 = m - 2 /\ (m >= 2 => h >= 1)
  BY <1>0
<1>3. f[c + k] = q
  <2>1. NoStop(all, L + 1, L + k) /\ L + k <= e
    BY <1>0, <1>1
  <2> HIDE DEF k
  <2>2. f[c + k] = WithLine(p, SubSeq(all, 1, L + k))
    BY <1>1, <2>1, Gathers
  <2> QED BY <1>1, <2>2
<1>4. f[c + n] = ReadSymbol(q, method, x)
  <2> HIDE DEF q, k, n
  <2> QED BY <1>1, <1>3 DEF Reading, Lining
<1>5. x = all[m]
  <2>1. n \in 1..(e - L) /\ L + n = m
    BY <1>0
  <2> HIDE DEF n
  <2> QED BY <2>1 DEF Follows, Lining
<1> HIDE DEF k, h, x, n
<1>6. /\ a \in Seq(Symbol) /\ Append(a, x) = b /\ Len(b) = m
      /\ h >= 1 => b[h] = all[h] /\ SubSeq(b, 1, h - 1) = SubSeq(all, 1, h - 1)
  <2>1. all \in Seq(Symbol) /\ m <= Len(all)
    BY <1>0 DEF Follows, Lining
  <2>2. a = SubSeq(all, 1, h) /\ b = SubSeq(all, 1, m)
    OBVIOUS
  <2> HIDE DEF a, b
  <2> QED BY <1>2, <1>5, <2>1, <2>2, SeqSteps
<1> HIDE DEF a, b
<1>7. q.line = a /\ q.state \in LineStates /\ WithLine(q, <<>>) = WithLine(p, <<>>) /\ q \in ParserType
  BY <1>6, WithLineIs, LineTwice DEF Lining
<1> HIDE DEF q
<1>8. CrLf(all, m) <=> (m >= 2 /\ b[m - 1] = CR /\ x = LF)
  <2>1. m >= 2 => h >= 1 /\ h = m - 1
    BY <1>2
  <2> QED BY <1>5, <1>6, <2>1 DEF CrLf
<1>9. ReadSymbol(q, method, x) = ByLineSymbol(q, method, x, b, m)
  <2>1. b = Append(q.line, x)
    BY <1>6, <1>7
  <2>2. m = Len(b) /\ q.state \in LineStates
    BY <1>6, <1>7
  <2> QED BY <2>1, <2>2, ReadsLineSymbol, Zenon
<1>10. CrLf(all, m) => f[c + (m - L)] = ByLine(WithLine(p, <<>>), method, SubSeq(all, 1, m - 2))
  <2> SUFFICES ASSUME CrLf(all, m) PROVE f[c + (m - L)] = ByLine(WithLine(p, <<>>), method, SubSeq(all, 1, m - 2))
    OBVIOUS
  <2>1. SubSeq(b, 1, m - 2) = SubSeq(all, 1, m - 2)
    BY <1>2, <1>6 DEF CrLf
  <2> QED BY <1>4, <1>7, <1>8, <1>9, <2>1 DEF n, ByLineSymbol
<1>11. ~CrLf(all, m) => f[c + (m - L)].state = "Error"
  <2> SUFFICES ASSUME ~CrLf(all, m) PROVE f[c + (m - L)].state = "Error"
    OBVIOUS
  <2>1. SetError(q).state = "Error"
    BY <1>7 DEF SetError, ParserType
  <2> QED BY <1>0, <1>4, <1>8, <1>9, <2>1 DEF n, ByLineSymbol
<1> QED
  BY <1>10, <1>11 DEF StopsRight

(* A set of numbers has a lowest one.                                        *)
LEMMA LowestIs ==
    ASSUME NEW A \in SUBSET Nat, A # {}
    PROVE  Lowest(A) \in A /\ \A j \in A : Lowest(A) <= j
BY MinIs DEF Min, Lowest

(* What was gathered and the piece that follows.                             *)
LEMMA Joined ==
    ASSUME NEW line \in Seq(Symbol), NEW piece \in Seq(Symbol)
    PROVE  /\ line \o piece \in Seq(Symbol) /\ Len(line \o piece) = Len(line) + Len(piece)
           /\ SubSeq(line \o piece, 1, Len(line)) = line
           /\ SubSeq(line \o piece, 1, Len(line \o piece)) = line \o piece
           /\ \A i \in 1..Len(piece) : (line \o piece)[Len(line) + i] = piece[i]
           /\ line = <<>> => line \o piece = piece
OBVIOUS

LEMMA RestOf ==
    ASSUME NEW line \in Seq(Symbol), NEW piece \in Seq(Symbol), NEW n \in 1..Len(piece)
    PROVE  SubSeq(line \o piece, Len(line) + n + 1, Len(line \o piece)) = SubSeq(piece, n + 1, Len(piece))
<1> DEFINE all == line \o piece
           L == Len(line)
           d == Len(piece)
           u == SubSeq(all, L + n + 1, Len(all))
           v == SubSeq(piece, n + 1, d)
<1>1. all \in Seq(Symbol) /\ Len(all) = L + d /\ L \in Nat /\ d \in Nat /\ \A i \in 1..d : all[L + i] = piece[i]
  BY Joined
<1> HIDE DEF all, L
<1>2. u \in Seq(Symbol) /\ v \in Seq(Symbol) /\ Len(u) = d - n /\ Len(v) = d - n
  BY <1>1
<1>3. ASSUME NEW i \in 1..(d - n) PROVE u[i] = v[i]
  <2>1. u[i] = all[L + n + 1 + i - 1] /\ v[i] = piece[n + 1 + i - 1]
    BY <1>1
  <2>2. n + i \in 1..d /\ L + n + 1 + i - 1 = L + (n + i) /\ n + 1 + i - 1 = n + i
    BY <1>1
  <2> QED BY <1>1, <2>1, <2>2
<1> HIDE DEF u, v, d
<1>4. u = v
  BY <1>2, <1>3
<1> QED
  BY <1>4 DEF u, v, all, L, d

(* consumeLine() with its alternatives named.                                *)
Ends(piece) == {i \in 1..(Len(piece) - 1) : piece[i] = CR /\ piece[i + 1] = LF}
StopsAt(L, all) == {j \in (L + 1)..Len(all) : CrLf(all, j) \/ j = LineBufferSize}
Consumed(p, line, rest) == [got |-> TRUE, p |-> p, line |-> line, rest |-> rest]
NotConsumed(p, rest) == [got |-> FALSE, p |-> p, line |-> <<>>, rest |-> rest]

LEMMA ConsumeLineIs ==
    ASSUME NEW p, NEW piece, NEW all, all = p.line \o piece, NEW L, L = Len(p.line)
    PROVE  ConsumeLine(p, piece) =
             IF p.line = <<>> /\ Ends(piece) # {}
             THEN IF Lowest(Ends(piece)) + 1 > LineBufferSize THEN NotConsumed(SetError(p), piece)
                  ELSE Consumed(p, SubSeq(piece, 1, Lowest(Ends(piece)) - 1),
                                SubSeq(piece, Lowest(Ends(piece)) + 2, Len(piece)))
             ELSE IF StopsAt(L, all) = {} THEN NotConsumed(WithLine(p, all), <<>>)
             ELSE IF CrLf(all, Lowest(StopsAt(L, all)))
                  THEN Consumed(WithLine(p, <<>>), SubSeq(all, 1, Lowest(StopsAt(L, all)) - 2),
                                SubSeq(all, Lowest(StopsAt(L, all)) + 1, Len(all)))
                  ELSE NotConsumed(SetError(p), piece)
BY DEF ConsumeLine, Ends, StopsAt, Consumed, NotConsumed, WithLine, CrLf

(* The records that consumeLine() returns.                                   *)
LEMMA IsConsumed ==
    ASSUME NEW p, NEW line, NEW rest, NEW r, r = Consumed(p, line, rest)
    PROVE  r.got /\ r.p = p /\ r.line = line /\ r.rest = rest
BY DEF Consumed

LEMMA IsNotConsumed ==
    ASSUME NEW p, NEW rest
    PROVE  ~NotConsumed(p, rest).got /\ NotConsumed(p, rest).p = p
BY DEF NotConsumed

LEMMA ErrorIs ==
    ASSUME NEW p \in ParserType
    PROVE  SetError(p).state = "Error" /\ SetError(p) \in ParserType /\ SetError(p).line = p.line
BY DEF SetError, ParserType

(* The piece that lies at position c of the wire.                            *)
Piece(piece, wire, c) ==
    /\ piece \in Seq(Symbol) /\ wire \in Seq(Symbol) /\ c + Len(piece) <= Len(wire)
    /\ \A i \in 1..Len(piece) : piece[i] = wire[c + i]

(* consumeLine() agrees with the reference, wherever the pieces are cut.     *)
LEMMA LineConsumed ==
    ASSUME NEW f, NEW method, NEW wire, Reading(f, method, wire), NEW c \in Nat, NEW piece,
           Piece(piece, wire, c), NEW p, ParserOK(p), p = f[c], p.state \in LineStates,
           NEW r, r = ConsumeLine(p, piece)
    PROVE  /\ r.got => /\ r.p = WithLine(p, <<>>) /\ r.line \in Seq(Symbol)
                       /\ \E n \in 1..Len(piece) : /\ r.rest = SubSeq(piece, n + 1, Len(piece))
                                                  /\ f[c + n] = ByLine(r.p, method, r.line)
           /\ ~r.got /\ r.p.state = "Error" => r.p = SetError(p) /\ f[Len(wire)].state = "Error"
           /\ ~r.got /\ r.p.state # "Error" =>
                r.p = f[c + Len(piece)] /\ ParserOK(r.p) /\ r.p.state = p.state
<1> DEFINE L == Len(p.line)
           all == p.line \o piece
           w == Len(wire)
           d == Len(piece)
           e == Len(all)
<1>1. /\ p \in ParserType /\ p.line \in Seq(Symbol) /\ piece \in Seq(Symbol) /\ wire \in Seq(Symbol)
      /\ L \in Nat /\ w \in Nat /\ d \in Nat /\ L < LineBufferSize
  BY DEF ParserOK, ParserType, Piece
<1>2. /\ all \in Seq(Symbol) /\ e = L + d /\ e \in Nat /\ SubSeq(all, 1, L) = p.line /\ SubSeq(all, 1, e) = all
      /\ (p.line = <<>> => all = piece) /\ \A i \in 1..d : all[L + i] = piece[i]
  <2>1. e = L + d
    BY <1>1, Joined
  <2>2. e \in Nat
    BY <1>1, <2>1
  <2> QED BY <1>1, <2>1, <2>2, Joined
<1>3. c + d <= w /\ \A i \in 1..d : piece[i] = wire[c + i]
  BY DEF Piece
<1>4. e - L = d
  <2> HIDE DEF L, d, e
  <2> QED BY <1>1, <1>2
<1>5. Lining(f, method, wire, w, c, p, all, e, L)
  <2>1. Follows(p, all, wire, c)
    <3>1. \A i \in 1..(Len(all) - Len(p.line)) : all[Len(p.line) + i] = wire[c + i]
      BY <1>2, <1>3, <1>4
    <3> HIDE DEF all
    <3> QED BY <1>2, <3>1 DEF Follows
  <2> HIDE DEF all
  <2> QED BY <1>1, <2>1 DEF Lining
<1> DEFINE A == Ends(piece)
           B == StopsAt(L, all)
<1>6. r = IF p.line = <<>> /\ A # {}
          THEN IF Lowest(A) + 1 > LineBufferSize THEN NotConsumed(SetError(p), piece)
               ELSE Consumed(p, SubSeq(piece, 1, Lowest(A) - 1), SubSeq(piece, Lowest(A) + 2, d))
          ELSE IF B = {} THEN NotConsumed(WithLine(p, all), <<>>)
          ELSE IF CrLf(all, Lowest(B))
               THEN Consumed(WithLine(p, <<>>), SubSeq(all, 1, Lowest(B) - 2), SubSeq(all, Lowest(B) + 1, e))
               ELSE NotConsumed(SetError(p), piece)
  BY ConsumeLineIs
<1>7. LineBufferSize \in Nat /\ LineBufferSize # 0
  BY ParserAssumption
<1>8. A \in SUBSET Nat /\ B \in SUBSET Nat
  <2>1. A \in SUBSET Nat
    BY <1>1 DEF Ends
  <2>2. \A j \in (L + 1)..e : j \in Nat
    <3> HIDE DEF L, e
    <3> QED BY <1>1, <1>2
  <2> HIDE DEF L, all
  <2> QED BY <2>1, <2>2 DEF StopsAt
<1>9. \A i \in Nat : i \in A <=> i >= 1 /\ i + 1 <= d /\ CrLf(piece, i + 1)
  BY <1>1 DEF Ends, CrLf
<1>10. \A j \in Nat : j \in B <=> L + 1 <= j /\ j <= e /\ (CrLf(all, j) \/ j = LineBufferSize)
  <2> HIDE DEF L, all
  <2> QED BY <1>1, <1>2 DEF StopsAt
<1> HIDE DEF L, d, e, w, A, B
<1>11. ASSUME NEW m \in Nat, L < m, m <= e, m = LineBufferSize, NoStop(all, L + 1, m - 1), ~CrLf(all, m)
       PROVE  f[w].state = "Error"
  <2>1. c + (m - L) <= w /\ c + (m - L) \in 0..w
    BY <1>1, <1>2, <1>3, <1>4, <1>11
  <2> HIDE DEF all
  <2>2. f[c + (m - L)].state = "Error"
    <3>1. /\ w \in Nat /\ e \in Nat /\ L \in Nat /\ m <= e /\ L < m /\ m = LineBufferSize
          /\ NoStop(all, L + 1, m - 1) /\ ~CrLf(all, m)
      BY <1>1, <1>2, <1>11
    <3>2. AtStop(w, c, all, e, L, m)
      BY <2>1, <3>1 DEF AtStop
    <3>3. StopsRight(f, method, c, p, all, L, m)
      BY <1>5, <3>1, <3>2, Stops
    <3> QED BY <3>1, <3>3 DEF StopsRight
  <2> QED BY <1>1, <2>1, <2>2, ErrorStays DEF w
<1>12. SetError(p).state = "Error"
  BY <1>1, ErrorIs
<1>13. CASE p.line = <<>> /\ A # {}
  <2> DEFINE i == Lowest(A)
  <2>1. i \in A /\ \A j \in A : i <= j
    BY <1>8, <1>13, LowestIs
  <2>2. i \in Nat /\ i >= 1 /\ i + 1 <= d /\ CrLf(piece, i + 1)
    BY <1>8, <1>9, <2>1
  <2>3. L = 0 /\ all = piece /\ e = d
    <3>1. L = 0
      BY <1>13 DEF L
    <3> HIDE DEF all
    <3> QED BY <1>1, <1>2, <1>13, <3>1
  <2> HIDE DEF i, all
  <2>4. ASSUME NEW j \in Nat, j <= d, CrLf(all, j) PROVE i + 1 <= j
    <3>1. j - 1 \in Nat /\ j - 1 >= 1 /\ (j - 1) + 1 = j
      BY <2>4 DEF CrLf
    <3>2. j - 1 \in A
      BY <1>9, <2>3, <2>4, <3>1
    <3> QED BY <2>1, <2>2, <3>1, <3>2
  <2>5. CASE i + 1 > LineBufferSize
    <3>1. r = NotConsumed(SetError(p), piece)
      BY <1>6, <1>13, <2>5 DEF i
    <3> DEFINE m == LineBufferSize
    <3>2. L < m /\ m <= e /\ m <= d /\ m \in Nat
      BY <1>1, <1>7, <2>2, <2>3, <2>5
    <3>3. ~CrLf(all, m)
      BY <2>2, <2>4, <2>5, <3>2
    <3>4. NoStop(all, L + 1, m - 1)
      <4> SUFFICES ASSUME NEW j \in (L + 1)..(m - 1) PROVE ~CrLf(all, j) /\ j # LineBufferSize
        BY DEF NoStop
      <4>1. j \in Nat /\ j < m /\ j <= d
        BY <1>1, <2>3, <3>2
      <4>2. CrLf(all, j) => i + 1 <= j
        BY <2>4, <4>1
      <4>3. ~(i + 1 <= j)
        BY <1>7, <2>2, <2>5, <4>1
      <4> QED BY <1>7, <4>1, <4>2, <4>3
    <3>5. f[w].state = "Error"
      BY <1>11, <3>2, <3>3, <3>4
    <3> QED BY <1>12, <3>1, <3>5, IsNotConsumed DEF w
  <2>6. CASE ~(i + 1 > LineBufferSize)
    <3> DEFINE m == i + 1
    <3>1. r = Consumed(p, SubSeq(piece, 1, i - 1), SubSeq(piece, i + 2, d))
      BY <1>6, <1>13, <2>6 DEF i
    <3>2. m \in Nat /\ L < m /\ m <= e /\ m <= d /\ c + (m - L) <= w
          /\ m - L = m /\ m - 2 = i - 1 /\ i + 2 = m + 1 /\ m \in 1..d
      BY <1>1, <1>2, <1>3, <2>2, <2>3
    <3>3. NoStop(all, L + 1, m - 1)
      <4> SUFFICES ASSUME NEW j \in (L + 1)..(m - 1) PROVE ~CrLf(all, j) /\ j # LineBufferSize
        BY DEF NoStop
      <4>1. j \in Nat /\ j < m /\ j <= d /\ m <= LineBufferSize
        BY <1>1, <1>7, <2>2, <2>3, <2>6, <3>2
      <4> QED BY <1>7, <2>2, <2>4, <4>1
    <3>4. CrLf(all, m)
      BY <2>2, <2>3
    <3>5. f[c + (m - L)] = ByLine(WithLine(p, <<>>), method, SubSeq(all, 1, m - 2))
      <4> HIDE DEF m
      <4>1. w \in Nat /\ e \in Nat /\ L \in Nat
        BY <1>1, <1>2
      <4>2. AtStop(w, c, all, e, L, m)
        BY <3>2, <3>3, <3>4 DEF AtStop
      <4>3. StopsRight(f, method, c, p, all, L, m)
        BY <1>5, <3>2, <4>1, <4>2, Stops
      <4> QED BY <3>4, <4>3 DEF StopsRight
    <3>6. WithLine(p, <<>>) = p
      BY <1>1, <1>13, SameLine
    <3>7. SubSeq(piece, 1, i - 1) \in Seq(Symbol)
      BY <1>1, <2>2 DEF d
    <3>8. f[c + m] = ByLine(p, method, SubSeq(piece, 1, i - 1)) /\ SubSeq(piece, i + 2, d) = SubSeq(piece, m + 1, d)
      BY <2>3, <3>2, <3>5, <3>6
    <3>9. r.got /\ r.p = p /\ r.line = SubSeq(piece, 1, i - 1) /\ r.rest = SubSeq(piece, i + 2, d)
      <4> DEFINE ln == SubSeq(piece, 1, i - 1)
                 rs == SubSeq(piece, i + 2, d)
      <4> HIDE DEF ln, rs
      <4>1. r = Consumed(p, ln, rs)
        BY <3>1 DEF ln, rs
      <4>2. r.got /\ r.p = p /\ r.line = ln /\ r.rest = rs
        BY <4>1, IsConsumed
      <4> QED BY <4>2 DEF ln, rs
    <3> HIDE DEF m
    <3> QED BY <3>2, <3>6, <3>7, <3>8, <3>9 DEF d
  <2> QED BY <2>5, <2>6
<1>14. CASE ~(p.line = <<>> /\ A # {}) /\ B = {}
  <2>1. r = NotConsumed(WithLine(p, all), <<>>)
    BY <1>6, <1>14
  <2> HIDE DEF all
  <2>2. NoStop(all, L + 1, L + d) /\ L + d = e
    <3> SUFFICES ASSUME NEW j \in (L + 1)..(L + d) PROVE ~CrLf(all, j) /\ j # LineBufferSize
      BY <1>2 DEF NoStop
    <3>1. j \in Nat /\ L + 1 <= j /\ j <= e
      BY <1>1, <1>2
    <3> QED BY <1>10, <1>14, <3>1
  <2>3. f[c + d] = WithLine(p, SubSeq(all, 1, L + d))
    BY <1>1, <1>2, <1>3, <1>5, <2>2, Gathers
  <2>4. f[c + d] = WithLine(p, all)
    BY <1>2, <2>2, <2>3
  <2>5. e < LineBufferSize
    <3> SUFFICES ASSUME LineBufferSize <= e PROVE FALSE
      BY <1>2, <1>7
    <3> QED BY <1>1, <1>7, <1>10, <1>14
  <2>6. ParserOK(WithLine(p, all))
    BY <1>2, <2>5, WithLineOK DEF e
  <2>7. WithLine(p, all).state # "Error" /\ WithLine(p, all).state = p.state
    BY <1>1, WithLineIs DEF LineStates
  <2> QED BY <2>1, <2>4, <2>6, <2>7, IsNotConsumed DEF d
<1>15. CASE ~(p.line = <<>> /\ A # {}) /\ B # {}
  <2> DEFINE m == Lowest(B)
  <2>1. m \in B /\ \A j \in B : m <= j
    BY <1>8, <1>15, LowestIs
  <2> HIDE DEF m, all
  <2>2. m \in Nat /\ L + 1 <= m /\ L < m /\ m <= e /\ (CrLf(all, m) \/ m = LineBufferSize)
    <3>1. m \in Nat
      BY <1>8, <2>1
    <3> QED BY <1>1, <1>10, <2>1, <3>1
  <2>3. NoStop(all, L + 1, m - 1)
    <3> SUFFICES ASSUME NEW j \in (L + 1)..(m - 1) PROVE ~CrLf(all, j) /\ j # LineBufferSize
      BY DEF NoStop
    <3>0. L \in Nat /\ e \in Nat /\ m \in Nat /\ m <= e
      BY <1>1, <1>2, <2>2
    <3>1. j \in Nat /\ L + 1 <= j /\ j <= e /\ ~(m <= j)
      BY <3>0
    <3> QED BY <1>10, <2>1, <3>1
  <2>4. CASE CrLf(all, m)
    <3>1. r = Consumed(WithLine(p, <<>>), SubSeq(all, 1, m - 2), SubSeq(all, m + 1, e))
      BY <1>6, <1>15, <2>4 DEF m
    <3> DEFINE n == m - L
    <3>2. n \in 1..d /\ c + n <= w /\ L + n + 1 = m + 1
      BY <1>1, <1>2, <1>3, <2>2
    <3>3. f[c + n] = ByLine(WithLine(p, <<>>), method, SubSeq(all, 1, m - 2))
      <4>1. w \in Nat /\ e \in Nat /\ L \in Nat
        BY <1>1, <1>2
      <4>2. AtStop(w, c, all, e, L, m)
        BY <2>2, <2>3, <3>2 DEF AtStop
      <4>3. StopsRight(f, method, c, p, all, L, m)
        BY <1>5, <2>2, <4>1, <4>2, Stops
      <4> QED BY <2>4, <4>3 DEF StopsRight
    <3>4. SubSeq(all, m + 1, e) = SubSeq(piece, n + 1, d)
      <4> HIDE DEF n
      <4>1. SubSeq(all, L + n + 1, e) = SubSeq(piece, n + 1, d)
        BY <1>1, <3>2, RestOf DEF L, d, e, all
      <4> QED BY <3>2, <4>1
    <3>5. SubSeq(all, 1, m - 2) \in Seq(Symbol)
      BY <1>2, <2>2, <2>4 DEF CrLf, e
    <3>6. /\ r.got /\ r.p = WithLine(p, <<>>) /\ r.line = SubSeq(all, 1, m - 2)
          /\ r.rest = SubSeq(all, m + 1, e)
      <4> DEFINE ln == SubSeq(all, 1, m - 2)
                 rs == SubSeq(all, m + 1, e)
      <4> HIDE DEF ln, rs
      <4>1. r = Consumed(WithLine(p, <<>>), ln, rs)
        BY <3>1 DEF ln, rs
      <4>2. r.got /\ r.p = WithLine(p, <<>>) /\ r.line = ln /\ r.rest = rs
        BY <4>1, IsConsumed
      <4> QED BY <4>2 DEF ln, rs
    <3> HIDE DEF n
    <3> QED BY <3>2, <3>3, <3>4, <3>5, <3>6 DEF d
  <2>5. CASE ~CrLf(all, m)
    <3>1. r = NotConsumed(SetError(p), piece)
      BY <1>6, <1>15, <2>5 DEF m
    <3>2. f[w].state = "Error"
      BY <1>11, <2>2, <2>3, <2>5
    <3> QED BY <1>12, <3>1, <3>2, IsNotConsumed DEF w
  <2> QED BY <2>4, <2>5
<1> QED
  BY <1>13, <1>14, <1>15

(* Every turn leaves the parser as the next one expects it.                  *)
LEMMA SetErrorOK == ASSUME NEW p, ParserOK(p) PROVE ParserOK(SetError(p))
BY DEF SetError, ParserOK, ParserType

LEMMA NewParserOK == ParserOK(NewParser)
<1>1. NewParser \in ParserType
  <2>1. <<>> \in Seq(Symbol) /\ "None" \in Framings /\ 0 \in Nat /\ "StatusLine" \in LineStates
    BY DEF LineStates, Framings
  <2> QED BY <2>1 DEF NewParser, ParserType
<1>2. NewParser.line = <<>> /\ NewParser.state = "StatusLine" /\ NewParser.body = 0
  BY DEF NewParser
<1>3. Len(<<>>) < LineBufferSize
  BY ParserAssumption
<1> QED BY <1>1, <1>2, <1>3 DEF ParserOK

LEMMA StatusLineOK ==
    ASSUME NEW p, ParserOK(p), p.state = "StatusLine", NEW line \in Seq(Symbol)
    PROVE  ParserOK(ParseStatusLine(p, line))
<1>1. CASE IsLine(line, {"status"})
  <2>1. line[1][2] \in Nat
    BY <1>1 DEF IsLine, Symbol
  <2>2. p \in ParserType /\ Len(p.line) < LineBufferSize /\ p.body = 0
    BY DEF ParserOK
  <2> DEFINE q == [p EXCEPT !.code = line[1][2], !.state = "Headers"]
  <2>3. q \in ParserType /\ q.state = "Headers" /\ q.line = p.line /\ q.body = p.body
    BY <2>1, <2>2 DEF ParserType, LineStates
  <2>4. ParseStatusLine(p, line) = q
    BY <1>1 DEF ParseStatusLine
  <2> HIDE DEF q
  <2> QED BY <2>2, <2>3, <2>4 DEF ParserOK
<1>2. CASE ~IsLine(line, {"status"})
  BY <1>2, SetErrorOK DEF ParseStatusLine
<1> QED BY <1>1, <1>2

LEMMA HeaderLineOK ==
    ASSUME NEW p, ParserOK(p), p.state = "Headers", NEW line \in Seq(Symbol)
    PROVE  ParserOK(ParseHeaderLine(p, line))
<1> DEFINE ok == IsLine(line, {"field", "content-length", "transfer-encoding"}) /\ Len(p.fields) < MaxHeaderFields
<1>1. CASE ok
  <2>1. line[1] \in Symbol
    BY <1>1 DEF IsLine
  <2>2. p \in ParserType /\ Len(p.line) < LineBufferSize /\ p.body = 0
    BY DEF ParserOK
  <2>3. Append(p.fields, line[1]) \in Seq(Symbol)
    BY <2>1, <2>2 DEF ParserType
  <2> DEFINE q == [p EXCEPT !.fields = Append(@, line[1])]
  <2>4. q \in ParserType /\ q.state = "Headers" /\ q.line = p.line /\ q.body = p.body
    BY <2>2, <2>3 DEF ParserType, LineStates
  <2>5. ParseHeaderLine(p, line) = q
    BY <1>1 DEF ParseHeaderLine
  <2> HIDE DEF q
  <2> QED BY <2>2, <2>4, <2>5 DEF ParserOK
<1>2. CASE ~ok
  BY <1>2, SetErrorOK DEF ParseHeaderLine
<1> QED BY <1>1, <1>2

LEMMA ChunkSizeOK ==
    ASSUME NEW p, ParserOK(p), p.state = "ChunkSize", NEW line \in Seq(Symbol)
    PROVE  ParserOK(ParseChunkSize(p, line))
<1>1. CASE IsLine(line, {"size"})
  <2> DEFINE n == line[1][2]
             st == IF n = 0 THEN "Trailers" ELSE "ChunkData"
  <2>1. n \in Nat
    BY <1>1 DEF IsLine, Symbol
  <2>2. p \in ParserType /\ Len(p.line) < LineBufferSize
    BY DEF ParserOK
  <2>3. st \in LineStates \cup {"Body", "ChunkData", "Complete", "Error"}
    BY DEF LineStates
  <2>4. ParseChunkSize(p, line) = [p EXCEPT !.chunk = n, !.state = st]
    BY <1>1 DEF ParseChunkSize
  <2>5. st \notin {"StatusLine", "Headers", "Body"} /\ (st = "ChunkData" => n > 0)
    BY <2>1
  <2> HIDE DEF n, st
  <2> DEFINE q == [p EXCEPT !.chunk = n, !.state = st]
  <2>6. q \in ParserType /\ q.state = st /\ q.line = p.line /\ q.chunk = n
    BY <2>1, <2>2, <2>3 DEF ParserType
  <2> HIDE DEF q
  <2> QED BY <2>2, <2>4, <2>5, <2>6 DEF ParserOK, q
<1>2. CASE ~IsLine(line, {"size"})
  BY <1>2, SetErrorOK DEF ParseChunkSize
<1> QED BY <1>1, <1>2

LEMMA InStateOK ==
    ASSUME NEW p, ParserOK(p), NEW s, s \in {"ChunkSize", "ChunkDataEnd", "Complete"}
    PROVE  ParserOK([p EXCEPT !.state = s])
<1>1. p \in ParserType /\ Len(p.line) < LineBufferSize
  BY DEF ParserOK
<1> DEFINE q == [p EXCEPT !.state = s]
<1>2. q \in ParserType /\ q.state = s /\ q.line = p.line
  BY <1>1 DEF ParserType, LineStates
<1> HIDE DEF q
<1>3. ParserOK(q)
  BY <1>1, <1>2 DEF ParserOK
<1> QED BY <1>3 DEF q

LEMMA TrailerOK ==
    ASSUME NEW p, ParserOK(p), NEW line
    PROVE  ParserOK(ParseTrailer(p, line))
<1> DEFINE k == p.trailers + 1
           q == [p EXCEPT !.trailers = k]
<1>1. p \in ParserType /\ Len(p.line) < LineBufferSize /\ k \in Nat
  BY DEF ParserOK, ParserType
<1> HIDE DEF k
<1>2. /\ q \in ParserType /\ q.state = p.state /\ q.line = p.line /\ q.framing = p.framing
      /\ q.body = p.body /\ q.chunk = p.chunk /\ q.contentLength = p.contentLength
  BY <1>1 DEF ParserType
<1>3. ParseTrailer(p, line) \in {[p EXCEPT !.state = "Complete"], q, SetError(p)}
  BY DEF ParseTrailer, k
<1> HIDE DEF q
<1>4. ParserOK(q)
  BY <1>1, <1>2 DEF ParserOK
<1> QED
  BY <1>3, <1>4, SetErrorOK, InStateOK

(* There is at most one Content-Length, so a body that has one and has begun *)
(* lacks something.                                                          *)
LEMMA HeadersCompleteOK ==
    ASSUME NEW p, ParserOK(p), p.state = "Headers", NEW method
    PROVE  ParserOK(ParseHeadersComplete(p, method))
<1> DEFINE lengths == Values(p, "content-length")
           len == IF lengths = {} THEN 0 ELSE Lowest(lengths)
           To(s, f) == [p EXCEPT !.state = s, !.framing = f, !.contentLength = len]
<1>1. p \in ParserType /\ Len(p.line) < LineBufferSize /\ p.body = 0 /\ p.fields \in Seq(Symbol)
  BY DEF ParserOK, ParserType
<1>2. lengths \in SUBSET Nat /\ IsFiniteSet(lengths)
  <2> DEFINE D == {j \in DOMAIN p.fields : p.fields[j][1] = "content-length"}
  <2>1. DOMAIN p.fields = 1..Len(p.fields) /\ Len(p.fields) \in Nat
    BY <1>1
  <2>2. IsFiniteSet(D)
    <3>0. 1 \in Int /\ Len(p.fields) \in Int
      BY <2>1
    <3>1. IsFiniteSet(1..Len(p.fields))
      BY <3>0, FS_Interval, Zenon
    <3>2. D \subseteq 1..Len(p.fields)
      BY <2>1
    <3> QED BY <3>1, <3>2, FS_Subset
  <2>3. \A i \in D : p.fields[i][2] \in Nat
    BY <1>1 DEF Symbol
  <2>4. lengths = {p.fields[i][2] : i \in D}
    BY DEF Values
  <2> HIDE DEF D
  <2>5. IsFiniteSet({p.fields[i][2] : i \in D})
    <3> DEFINE T == {p.fields[i][2] : i \in D}
               g == [i \in D |-> p.fields[i][2]]
    <3>1. g \in Surjection(D, T)
      <4>1. g \in [D -> T]
        OBVIOUS
      <4>2. \A t \in T : \E i \in D : g[i] = t
        OBVIOUS
      <4> HIDE DEF g, T
      <4> QED BY <4>1, <4>2 DEF Surjection
    <3> HIDE DEF g, T
    <3>2. IsFiniteSet(T)
      BY <2>2, <3>1, FS_Surjection
    <3> QED BY <3>2 DEF T
  <2> HIDE DEF lengths
  <2> QED BY <2>3, <2>4, <2>5
<1> HIDE DEF lengths
<1>3. len \in Nat
  BY <1>2, LowestIs
<1>4. ~(Cardinality(lengths) > 1) /\ lengths # {} /\ lengths # {0} => len > 0
  <2> SUFFICES ASSUME ~(Cardinality(lengths) > 1), lengths # {}, lengths # {0}, len = 0 PROVE FALSE
    BY <1>3
  <2>1. 0 \in lengths
    BY <1>2, LowestIs
  <2>2. PICK x \in lengths : x # 0
    BY <2>1
  <2>3. {0, x} \subseteq lengths /\ 0 # x
    BY <2>1, <2>2
  <2>4. Cardinality({0, x}) = 2
    <3>1. IsFiniteSet({x}) /\ Cardinality({x}) = 1
      BY FS_Singleton
    <3>2. {0, x} = {x} \cup {0} /\ 0 \notin {x}
      BY <2>3
    <3> QED BY <3>1, <3>2, FS_AddElement
  <2>5. Cardinality({0, x}) <= Cardinality(lengths) /\ Cardinality(lengths) \in Nat
    BY <1>2, <2>3, FS_Subset, FS_CardinalityType
  <2> QED BY <2>4, <2>5
<1> HIDE DEF len
<1>5. ASSUME NEW s, NEW f, s \in {"Complete", "ChunkSize", "Body"}, f \in Framings,
             s = "Body" /\ f = "ContentLength" => len > 0
      PROVE  ParserOK(To(s, f))
  <2> DEFINE q == To(s, f)
  <2>1. q \in ParserType /\ q.state = s /\ q.framing = f /\ q.contentLength = len /\ q.line = p.line /\ q.body = p.body
    BY <1>1, <1>3, <1>5 DEF ParserType, LineStates
  <2> HIDE DEF q
  <2>2. ParserOK(q)
    BY <1>1, <1>5, <2>1 DEF ParserOK
  <2> QED BY <2>2 DEF q
<1>6. /\ ParserOK(To("Complete", "Tunnel")) /\ ParserOK(To("Complete", "None")) /\ ParserOK(To("ChunkSize", "Chunked"))
      /\ ParserOK(To("Body", "CloseDelimited")) /\ ParserOK(To("Complete", "ContentLength"))
  <2> HIDE DEF To
  <2>1. ParserOK(To("Complete", "Tunnel"))
    BY <1>5 DEF Framings
  <2>2. ParserOK(To("Complete", "None"))
    BY <1>5 DEF Framings
  <2>3. ParserOK(To("ChunkSize", "Chunked"))
    BY <1>5 DEF Framings
  <2>4. ParserOK(To("Body", "CloseDelimited"))
    BY <1>5 DEF Framings
  <2>5. ParserOK(To("Complete", "ContentLength"))
    BY <1>5 DEF Framings
  <2> QED BY <2>1, <2>2, <2>3, <2>4, <2>5
<1>7. ~(Cardinality(lengths) > 1) /\ lengths # {} /\ lengths # {0} => ParserOK(To("Body", "ContentLength"))
  <2> HIDE DEF To
  <2> QED BY <1>4, <1>5 DEF Framings
<1> DEFINE codings == SelectSeq(p.fields, LAMBDA g : g[1] = "transfer-encoding")
           chunked == {i \in DOMAIN codings : codings[i][2] = 1}
           bad == codings # <<>> /\ (lengths # {} \/ chunked \ {Len(codings)} # {})
<1>8. ParseHeadersComplete(p, method) =
        IF Cardinality(lengths) > 1 THEN SetError(p)
        ELSE IF p.code = 101 THEN To("Complete", "Tunnel")
        ELSE IF p.code < 200 THEN NewParser
        ELSE IF method = "HEAD" THEN To("Complete", "None")
        ELSE IF method = "CONNECT" /\ p.code < 300 THEN To("Complete", "Tunnel")
        ELSE IF p.code \in {204, 304} THEN To("Complete", "None")
        ELSE IF bad THEN SetError(p)
        ELSE IF codings # <<>> THEN IF chunked # {} THEN To("ChunkSize", "Chunked") ELSE To("Body", "CloseDelimited")
        ELSE IF lengths = {0} THEN To("Complete", "ContentLength")
        ELSE IF lengths # {} THEN To("Body", "ContentLength")
        ELSE To("Body", "CloseDelimited")
  BY DEF ParseHeadersComplete, lengths, len
<1> HIDE DEF To, bad, codings, chunked
<1> QED
  BY <1>6, <1>7, <1>8, SetErrorOK, NewParserOK

LEMMA ByLineOK ==
    ASSUME NEW p, ParserOK(p), p.state \in LineStates, NEW line \in Seq(Symbol), NEW method
    PROVE  ParserOK(ByLine(p, method, line))
<1>1. CASE p.state = "StatusLine"
  BY <1>1, StatusLineOK DEF ByLine
<1>2. CASE p.state = "Headers"
  BY <1>2, HeaderLineOK, HeadersCompleteOK DEF ByLine
<1>3. CASE p.state = "ChunkSize"
  BY <1>3, ChunkSizeOK DEF ByLine
<1>4. CASE p.state = "ChunkDataEnd"
  <2>1. ParserOK([p EXCEPT !.state = "ChunkSize"])
    BY InStateOK
  <2>2. ByLine(p, method, line) = IF line = <<>> THEN [p EXCEPT !.state = "ChunkSize"] ELSE SetError(p)
    BY <1>4 DEF ByLine
  <2> QED BY <2>1, <2>2, SetErrorOK
<1>5. CASE p.state = "Trailers"
  BY <1>5, TrailerOK DEF ByLine
<1> QED
  BY <1>1, <1>2, <1>3, <1>4, <1>5 DEF LineStates

LEMMA TakeBodyOK ==
    ASSUME NEW p, ParserOK(p), p.state \in {"Body", "ChunkData"}, NEW n \in Nat,
           p.state = "ChunkData" => n <= p.chunk,
           p.state = "Body" /\ p.framing = "ContentLength" => p.body + n <= p.contentLength
    PROVE  ParserOK(TakeBody(p, n))
<1>1. /\ p \in ParserType /\ Len(p.line) < LineBufferSize /\ p.body \in Nat /\ p.chunk \in Nat
      /\ p.contentLength \in Nat
  BY DEF ParserOK, ParserType
<1>2. CASE p.state = "Body"
  <2> DEFINE b == p.body + n
             q == WithCounts(p, b, p.chunk)
  <2>1. b \in Nat
    BY <1>1
  <2>2. /\ q \in ParserType /\ q.state = "Body" /\ q.line = p.line /\ q.body = b
        /\ q.framing = p.framing /\ q.contentLength = p.contentLength
    <3> HIDE DEF b
    <3> QED BY <1>1, <1>2, <2>1, WithCountsIs, WithCountsType
  <2>3. TakeBody(p, n) = IF p.framing = "ContentLength" /\ b = p.contentLength THEN InState(q, "Complete") ELSE q
    BY <1>1, <1>2, TakeOfBody
  <2>4. p.framing = "ContentLength" => b <= p.contentLength
    BY <1>2
  <2> HIDE DEF b, q
  <2>5. /\ InState(q, "Complete") \in ParserType /\ InState(q, "Complete").state = "Complete"
        /\ InState(q, "Complete").line = q.line
    BY <2>2 DEF InState, ParserType
  <2>6. ParserOK(InState(q, "Complete"))
    BY <1>1, <2>2, <2>5 DEF ParserOK
  <2>7. ~(p.framing = "ContentLength" /\ b = p.contentLength) => ParserOK(q)
    BY <1>1, <2>1, <2>2, <2>4 DEF ParserOK
  <2> QED BY <2>3, <2>6, <2>7
<1>3. CASE p.state = "ChunkData"
  <2> DEFINE b == p.body + n
             k == p.chunk - n
             q == WithCounts(p, b, k)
  <2>1. b \in Nat /\ k \in Nat /\ (p.chunk # n => k > 0)
    BY <1>1, <1>3
  <2>2. q \in ParserType /\ q.state = "ChunkData" /\ q.line = p.line /\ q.chunk = k
    <3> HIDE DEF b, k
    <3> QED BY <1>1, <1>3, <2>1, WithCountsIs, WithCountsType
  <2>3. TakeBody(p, n) = IF p.chunk = n THEN InState(q, "ChunkDataEnd") ELSE q
    BY <1>1, <1>3, TakeOfChunk
  <2> HIDE DEF b, k, q
  <2>5. /\ InState(q, "ChunkDataEnd") \in ParserType /\ InState(q, "ChunkDataEnd").state = "ChunkDataEnd"
        /\ InState(q, "ChunkDataEnd").line = q.line
    BY <2>2 DEF InState, ParserType, LineStates
  <2>6. ParserOK(InState(q, "ChunkDataEnd"))
    BY <1>1, <2>2, <2>5 DEF ParserOK
  <2>7. p.chunk # n => ParserOK(q)
    BY <1>1, <2>1, <2>2 DEF ParserOK
  <2> QED BY <2>3, <2>6, <2>7
<1> QED BY <1>2, <1>3

-----------------------------------------------------------------------------
(* The client: where it is in the reply, and what it reports.                *)

(* What is left of the wire from position c on.                              *)
Rest(s, wire, c) == Piece(s, wire, c) /\ c + Len(s) = Len(wire)

(* At first all of it is.                                                   *)
LEMMA AllIsLeft ==
    ASSUME NEW wire \in Seq(Symbol)
    PROVE  Rest(<<>> \o (<<>> \o wire), wire, 0)
<1>1. <<>> \o (<<>> \o wire) = wire /\ Len(wire) \in Nat
  OBVIOUS
<1> QED BY <1>1 DEF Rest, Piece

(* Sequences, one after the other.                                           *)
LEMMA Assoc == \A a, b, d \in Seq(Symbol) : a \o (b \o d) = (a \o b) \o d
OBVIOUS

LEMMA Concat ==
    ASSUME NEW a, NEW b, a \in Seq(Symbol), b \in Seq(Symbol)
    PROVE  /\ a \o b \in Seq(Symbol) /\ Len(a \o b) = Len(a) + Len(b)
           /\ \A i \in 1..Len(a) : (a \o b)[i] = a[i]
           /\ \A i \in 1..Len(b) : (a \o b)[Len(a) + i] = b[i]
OBVIOUS

(* Bytes move from the peer to the socket, and from there to the parser.     *)
LEMMA Moves ==
    ASSUME NEW a \in Seq(Symbol), NEW b \in Seq(Symbol), NEW n \in 1..Len(b)
    PROVE  /\ SubSeq(b, 1, n) \in Seq(Symbol) /\ SubSeq(b, n + 1, Len(b)) \in Seq(Symbol)
           /\ SubSeq(b, 1, n) \o SubSeq(b, n + 1, Len(b)) = b
           /\ (a \o SubSeq(b, 1, n)) \o SubSeq(b, n + 1, Len(b)) = a \o b
<1> DEFINE l == Len(b)
           u == SubSeq(b, 1, n)
           v == SubSeq(b, n + 1, l)
<1>1. l \in Nat /\ n \in Nat /\ n <= l /\ b \in Seq(Symbol) /\ Len(b) = l
  OBVIOUS
<1>2. u \in Seq(Symbol) /\ v \in Seq(Symbol) /\ Len(u) = n /\ Len(v) = l - n
  BY <1>1
<1>3. (\A i \in 1..n : u[i] = b[i]) /\ (\A i \in 1..(l - n) : v[i] = b[n + i])
  BY <1>1
<1> HIDE DEF u, v, l
<1>4. u \o v = b
  <2>1. u \o v \in Seq(Symbol) /\ Len(u \o v) = n + (l - n) /\ n + (l - n) = l
    <3>1. u \o v \in Seq(Symbol) /\ Len(u \o v) = Len(u) + Len(v)
      BY <1>2, Concat, Zenon
    <3> QED BY <1>1, <1>2, <3>1
  <2>2. ASSUME NEW i \in 1..l PROVE (u \o v)[i] = b[i]
    <3>1. CASE i <= n
      BY <1>1, <1>2, <1>3, <3>1
    <3>2. CASE i > n
      <4>1. i - n \in 1..(l - n) /\ n + (i - n) = i
        BY <1>1, <3>2
      <4>2. \A k \in 1..Len(v) : (u \o v)[Len(u) + k] = v[k]
        BY <1>2, Concat
      <4> QED BY <1>2, <1>3, <4>1, <4>2
    <3>3. i <= n \/ i > n
      BY <1>1
    <3> QED BY <3>1, <3>2, <3>3
  <2> DEFINE t == u \o v
  <2>3. t \in Seq(Symbol) /\ Len(t) = Len(b) /\ \A i \in 1..Len(b) : t[i] = b[i]
    BY <1>1, <2>1, <2>2
  <2> HIDE DEF t
  <2>4. t = b
    BY <1>1, <2>3
  <2> QED BY <2>4 DEF t
<1>5. (a \o u) \o v = a \o (u \o v)
  BY <1>2, Assoc, Zenon
<1> QED BY <1>2, <1>4, <1>5 DEF u, v, l

(* The parser takes n symbols of its piece ...                               *)
LEMMA Taking ==
    ASSUME NEW a \in Seq(Symbol), NEW b \in Seq(Symbol), NEW wire, NEW c \in Nat, Rest(a \o b, wire, c),
           NEW n \in 0..Len(a)
    PROVE  Rest(SubSeq(a, n + 1, Len(a)) \o b, wire, c + n)
<1> DEFINE s == a \o b
           u == SubSeq(a, n + 1, Len(a))
           t == u \o b
           la == Len(a)
           lb == Len(b)
           w == Len(wire)
<1>1. /\ la \in Nat /\ lb \in Nat /\ w \in Nat /\ wire \in Seq(Symbol)
      /\ s \in Seq(Symbol) /\ Len(s) = la + lb
  BY DEF Rest, Piece
<1>2. c + (la + lb) = w /\ \A i \in 1..(la + lb) : s[i] = wire[c + i]
  BY <1>1 DEF Rest, Piece
<1>3. u \in Seq(Symbol) /\ Len(u) = la - n /\ \A i \in 1..(la - n) : u[i] = a[n + i]
  BY <1>1
<1>4. t \in Seq(Symbol) /\ Len(t) = (la - n) + lb
  <2> HIDE DEF u, la, lb
  <2>1. t \in Seq(Symbol) /\ Len(t) = Len(u) + Len(b)
    BY <1>3, Concat, Zenon
  <2> QED BY <1>3, <2>1 DEF lb
<1>5. ASSUME NEW i \in 1..((la - n) + lb) PROVE t[i] = s[n + i]
  <2> HIDE DEF u
  <2>1. CASE i <= la - n
    BY <1>1, <1>3, <2>1
  <2>2. CASE i > la - n
    <3>1. t[i] = b[i - (la - n)]
      <4>1. i - (la - n) \in 1..lb /\ (la - n) + (i - (la - n)) = i
        <5> HIDE DEF la, lb
        <5> QED BY <1>1, <2>2
      <4>2. \A k \in 1..lb : t[Len(u) + k] = b[k]
        BY <1>3, Concat
      <4> HIDE DEF t, la, lb
      <4>3. t[(la - n) + (i - (la - n))] = b[i - (la - n)]
        BY <1>3, <4>1, <4>2
      <4> QED BY <4>1, <4>3
    <3>2. s[n + i] = b[(n + i) - la]
      BY <1>1, <2>2
    <3>3. i - (la - n) = (n + i) - la
      BY <1>1
    <3> QED BY <3>1, <3>2, <3>3
  <2>3. i <= la - n \/ i > la - n
    <3> HIDE DEF la, lb
    <3> QED BY <1>1
  <2> QED BY <2>1, <2>2, <2>3
<1> HIDE DEF s, u, t, la, lb, w
<1>6. \A i \in 1..((la - n) + lb) : t[i] = wire[(c + n) + i]
  <2> SUFFICES ASSUME NEW i \in 1..((la - n) + lb) PROVE t[i] = wire[(c + n) + i]
    OBVIOUS
  <2>1. n + i \in 1..(la + lb) /\ c + (n + i) = (c + n) + i
    BY <1>1 DEF la
  <2> QED BY <1>2, <1>5, <2>1
<1>7. (c + n) + ((la - n) + lb) = w
  BY <1>1, <1>2 DEF la
<1>8. Rest(t, wire, c + n)
  BY <1>1, <1>4, <1>6, <1>7 DEF Rest, Piece, w
<1> QED BY <1>8 DEF t, u

(* ... and the piece lies where the wire goes on.                            *)
LEMMA FirstOf ==
    ASSUME NEW a \in Seq(Symbol), NEW b \in Seq(Symbol), NEW wire, NEW c \in Nat, Rest(a \o b, wire, c)
    PROVE  Piece(a, wire, c)
<1> DEFINE s == a \o b
           la == Len(a)
           lb == Len(b)
           w == Len(wire)
<1>1. /\ la \in Nat /\ lb \in Nat /\ w \in Nat /\ wire \in Seq(Symbol)
      /\ s \in Seq(Symbol) /\ Len(s) = la + lb /\ \A i \in 1..la : s[i] = a[i]
  BY DEF Rest, Piece
<1>2. c + (la + lb) = w /\ \A i \in 1..(la + lb) : s[i] = wire[c + i]
  BY <1>1 DEF Rest, Piece
<1> HIDE DEF s, la, lb, w
<1>3. c + la <= w /\ \A i \in 1..la : i \in 1..(la + lb)
  BY <1>1, <1>2
<1>4. \A i \in 1..la : a[i] = wire[c + i]
  BY <1>1, <1>2, <1>3
<1> QED BY <1>1, <1>3, <1>4 DEF Piece, la, w

(* At the end of the wire nothing is left. *)
LEMMA NothingLeft ==
    ASSUME NEW a \in Seq(Symbol), NEW b \in Seq(Symbol), NEW d \in Seq(Symbol), NEW wire, NEW c \in Nat,
           Rest(a \o (b \o d), wire, c)
    PROVE  /\ c \in 0..Len(wire) /\ Len(wire) \in Nat
           /\ c = Len(wire) <=> a = <<>> /\ b = <<>> /\ d = <<>>
<1>1. Len(a) \in Nat /\ Len(b) \in Nat /\ Len(d) \in Nat /\ Len(wire) \in Nat
  BY DEF Rest, Piece
<1>2. Len(a \o (b \o d)) = Len(a) + (Len(b) + Len(d))
  OBVIOUS
<1>3. c + (Len(a) + (Len(b) + Len(d))) = Len(wire)
  BY <1>2 DEF Rest
<1>4. (a = <<>> <=> Len(a) = 0) /\ (b = <<>> <=> Len(b) = 0) /\ (d = <<>> <=> Len(d) = 0)
  OBVIOUS
<1> QED BY <1>1, <1>3, <1>4

(* Types, and what the parser can count on.                                  *)
Flow ==
    /\ reply \in Replies /\ input \in Seq(Symbol) /\ rx \in Seq(Symbol) /\ out \in Seq(Symbol)
    /\ m_requestBytesSent \in 0..RequestSize
    /\ hpc # "parse" => input = <<>>
    /\ ParserOK(m_parser)

(* What was read of the reply is a prefix of it, and the parser is where the *)
(* reference is after that prefix, unless it has failed: because the reply   *)
(* is no response or because the body callback threw.                        *)
Meaning == Prefixes(reply.method, reply.wire)
Reached(c) ==
    /\ Rest(input \o (rx \o out), reply.wire, c)
    /\ \/ m_parser = Meaning[c]
       \/ m_parser.state = "Error" /\ (thrown \/ Meaning[Len(reply.wire)].state = "Error")
Position == sock # "none" => \E c \in Nat : Reached(c)

(* Outside parse() the parser waits for more.                                *)
Waiting == sock # "none" /\ hpc # "parse" => m_parser.state \notin {"Complete", "Error"}

(* Nothing comes before the request is sent, and the parser is fresh until   *)
(* the client receives.                                                      *)
Before ==
    sock # "none" =>
        /\ m_requestBytesSent < RequestSize => rx = <<>>
        /\ m_state # "Receiving" => m_parser = NewParser /\ (hpc # "send" => m_requestBytesSent < RequestSize)
        /\ sock \in {"resolving", "Connecting"} => m_state = "Connecting"

(* A hang-up is queued for this socket only after a reset, whose error is    *)
(* taken only when nothing is left to read.                                  *)
Hangs ==
    sock # "none" =>
        /\ \A i \in 1..Len(tasks) : tasks[i].to = requests /\ "hup" \in tasks[i].events => peer = "rst"
        /\ peer = "rst" /\ ~soError => rx = <<>>
        /\ soError => peer = "rst"

(* Once the body callback has cancelled the transport is closed; otherwise a *)
(* handler runs on a busy client.  No queued task is for a socket to come.   *)
HandlersBusy ==
    /\ hpc # "parse" => input = <<>>
    /\ bodyCancelled => sock = "none"
    /\ hpc = "parse" => m_state = "Receiving" \/ bodyCancelled
    /\ hpc = "read" => IsBusy \/ bodyCancelled

Task == [to : Nat, events : SUBSET {"hup", "read", "write"}]
Tagged == tasks \in Seq(Task) /\ \A i \in 1..Len(tasks) : tasks[i].to <= requests

(* The constants.                                                            *)
LEMMA ReplyConstants ==
    /\ RequestSize \in Nat /\ RequestSize > 0 /\ BufferSize \in Nat /\ BufferSize > 0
    /\ \A r \in Replies : Described(r)
<1>1. {RequestSize, SendBuffer, BufferSize} \subseteq Nat \ {0}
  BY ClientAssumption DEF ClientAssumption
<1> QED BY <1>1, ReplyAssumption DEF ReplyAssumption

(* A reply's wire and what it means.                                         *)
LEMMA ReplyIs ==
    ASSUME reply \in Replies
    PROVE  /\ reply.wire \in Seq(Symbol) /\ Len(reply.wire) \in Nat
           /\ Reading(Meaning, reply.method, reply.wire)
           /\ \A i \in 0..(Len(reply.wire) - 1) : Meaning[i].state # "Complete"
           /\ LET end == Meaning[Len(reply.wire)] IN
              /\ reply.good <=> end.state = "Complete" \/ (end.state = "Body" /\ end.framing = "CloseDelimited")
              /\ reply.good => reply.code = end.code /\ reply.body = end.body
<1>1. Described(reply)
  BY ReplyConstants
<1>2. reply.wire \in Seq(Symbol) /\ Len(reply.wire) \in Nat
  BY <1>1 DEF Described, Symbol
<1>3. Reading(Meaning, reply.method, reply.wire)
  BY <1>2, PrefixesRead DEF Meaning
<1> QED BY <1>1, <1>2, <1>3 DEF Described, Meaning

(* One turn of parse() over a line.                                          *)
LEMMA LineTurn ==
    ASSUME Flow, hpc = "parse", ParseLine, NEW c \in Nat, Reached(c)
    PROVE  /\ ParserOK(m_parser') /\ input' \in Seq(Symbol)
           /\ hpc' # "parse" => input' = <<>> /\ m_parser'.state \notin {"Complete", "Error"}
           /\ \E d \in Nat : Reached(d)'
<1> DEFINE w == Len(reply.wire)
           r == ConsumeLine(m_parser, input)
           s == rx \o out
<1>1. /\ reply.wire \in Seq(Symbol) /\ w \in Nat /\ Reading(Meaning, reply.method, reply.wire)
  BY ReplyIs DEF Flow
<1>2. /\ m_parser.state \in LineStates /\ ParserOK(m_parser) /\ m_parser \in ParserType
      /\ input \in Seq(Symbol) /\ rx \in Seq(Symbol) /\ out \in Seq(Symbol) /\ s \in Seq(Symbol)
  BY DEF ParseLine, Flow, ParserOK
<1>3. m_parser = Meaning[c] /\ Rest(input \o s, reply.wire, c)
  BY <1>2 DEF Reached, LineStates
<1>4. Piece(input, reply.wire, c)
  BY <1>2, <1>3, FirstOf
<1>5. UNCHANGED <<reply, rx, out, thrown>> /\ Meaning' = Meaning
  BY DEF ParseLine, netVars, ghosts, Meaning
<1> HIDE DEF s
<1>6. ASSUME NEW n \in 0..Len(input), input' = SubSeq(input, n + 1, Len(input)), m_parser' = Meaning[c + n]
      PROVE  input' \in Seq(Symbol) /\ \E d \in Nat : Reached(d)'
  <2>1. c + n \in Nat /\ input' \in Seq(Symbol)
    BY <1>2, <1>6
  <2>2. Rest(input' \o s, reply.wire, c + n)
    BY <1>2, <1>3, <1>6, Taking
  <2>3. Reached(c + n)'
    BY <1>5, <1>6, <2>2 DEF Reached, s
  <2> QED BY <2>1, <2>3
<1>7. /\ r.got => /\ r.p = WithLine(m_parser, <<>>) /\ r.line \in Seq(Symbol)
                  /\ \E n \in 1..Len(input) : /\ r.rest = SubSeq(input, n + 1, Len(input))
                                              /\ Meaning[c + n] = ByLine(r.p, reply.method, r.line)
      /\ ~r.got /\ r.p.state = "Error" => r.p = SetError(m_parser) /\ Meaning[w].state = "Error"
      /\ ~r.got /\ r.p.state # "Error" =>
            r.p = Meaning[c + Len(input)] /\ ParserOK(r.p) /\ r.p.state = m_parser.state
  BY <1>1, <1>2, <1>3, <1>4, LineConsumed
<1>8. /\ r.got => m_parser' = ByLine(r.p, reply.method, r.line) /\ input' = r.rest /\ hpc' = hpc
      /\ ~r.got => /\ m_parser' = r.p
                   /\ r.p.state = "Error" => input' = input /\ hpc' = hpc
                   /\ r.p.state # "Error" => input' = <<>>
  BY DEF ParseLine, NeedMoreData, Go, handlerVars
<1> HIDE DEF r
<1>9. CASE r.got
  <2>1. PICK n \in 1..Len(input) : /\ r.rest = SubSeq(input, n + 1, Len(input))
                                   /\ Meaning[c + n] = ByLine(r.p, reply.method, r.line)
    BY <1>7, <1>9
  <2>2. n \in 0..Len(input)
    OBVIOUS
  <2>3. input' \in Seq(Symbol) /\ \E d \in Nat : Reached(d)'
    BY <1>6, <1>8, <1>9, <2>1, <2>2
  <2>4. ParserOK(r.p) /\ r.p.state \in LineStates
    <3>1. <<>> \in Seq(Symbol) /\ Len(<<>>) < LineBufferSize
      BY ParserAssumption
    <3>2. ParserOK(WithLine(m_parser, <<>>)) /\ WithLine(m_parser, <<>>).state = m_parser.state
      BY <1>2, <3>1, WithLineOK, WithLineIs
    <3> QED BY <1>2, <1>7, <1>9, <3>2
  <2>5. ParserOK(m_parser')
    BY <1>7, <1>8, <1>9, <2>4, ByLineOK
  <2> QED BY <1>8, <1>9, <2>3, <2>5
<1>10. CASE ~r.got /\ r.p.state = "Error"
  <2>1. ParserOK(m_parser') /\ m_parser'.state = "Error" /\ Meaning[w].state = "Error"
    BY <1>2, <1>7, <1>8, <1>10, SetErrorOK, ErrorIs
  <2>2. Reached(c)'
    BY <1>3, <1>5, <1>8, <1>10, <2>1 DEF Reached, s
  <2> QED BY <1>2, <1>8, <1>10, <2>1, <2>2
<1>11. CASE ~r.got /\ r.p.state # "Error"
  <2> DEFINE n == Len(input)
  <2>1. n \in 0..Len(input) /\ SubSeq(input, n + 1, n) = <<>>
    BY <1>2
  <2>2. input' \in Seq(Symbol) /\ \E d \in Nat : Reached(d)'
    BY <1>6, <1>7, <1>8, <1>11, <2>1
  <2>3. m_parser'.state \notin {"Complete", "Error"} /\ ParserOK(m_parser')
    BY <1>2, <1>7, <1>8, <1>11 DEF LineStates
  <2> QED BY <1>8, <1>11, <2>2, <2>3
<1> QED BY <1>9, <1>10, <1>11

(* One turn over a body, unless the body callback cancels in it.             *)
LEMMA BodyTurn ==
    ASSUME ~bodyCancelled', Flow, hpc = "parse", ParseBody, NEW c \in Nat, Reached(c)
    PROVE  /\ ParserOK(m_parser') /\ input' \in Seq(Symbol)
           /\ hpc' # "parse" => input' = <<>> /\ m_parser'.state \notin {"Complete", "Error"}
           /\ \E d \in Nat : Reached(d)'
<1> DEFINE w == Len(reply.wire)
           l == Len(input)
           n == BodyTake(m_parser, input)
           s == rx \o out
<1>1. reply.wire \in Seq(Symbol) /\ w \in Nat /\ Reading(Meaning, reply.method, reply.wire)
  BY ReplyIs DEF Flow
<1>2. /\ m_parser.state \in {"Body", "ChunkData"} /\ ParserOK(m_parser) /\ m_parser \in ParserType
      /\ input \in Seq(Symbol) /\ rx \in Seq(Symbol) /\ out \in Seq(Symbol) /\ s \in Seq(Symbol) /\ l \in Nat
  BY DEF ParseBody, Flow, ParserOK
<1>3. m_parser = Meaning[c] /\ Rest(input \o s, reply.wire, c)
  BY <1>2 DEF Reached
<1>4. c + l <= w
  BY <1>2, <1>3, FirstOf DEF Piece
<1>5. UNCHANGED <<reply, rx, out>> /\ Meaning' = Meaning
  BY DEF ParseBody, netVars, Meaning
<1> HIDE DEF s
<1>6. CASE input = <<>> /\ input' = <<>> /\ UNCHANGED <<m_parser, thrown>>
  <2>1. Reached(c)'
    BY <1>3, <1>5, <1>6 DEF Reached, s
  <2> QED BY <1>2, <1>6, <2>1
<1>7. CASE input' = input /\ hpc' = hpc /\ m_parser' = SetError(m_parser) /\ thrown' = TRUE
  <2>1. ParserOK(m_parser') /\ m_parser'.state = "Error"
    BY <1>2, <1>7, SetErrorOK, ErrorIs
  <2>2. Reached(c)'
    BY <1>3, <1>5, <1>7, <2>1 DEF Reached, s
  <2> QED BY <1>2, <1>7, <2>1, <2>2
<1>8. CASE /\ input # <<>> /\ m_parser' = TakeBody(m_parser, n) /\ input' = SubSeq(input, n + 1, l)
           /\ UNCHANGED <<hpc, thrown>>
  <2>1. l > 0
    BY <1>2, <1>8
  <2>2. /\ m_parser.body \in Nat /\ m_parser.chunk \in Nat /\ m_parser.contentLength \in Nat
        /\ m_parser.state = "ChunkData" => m_parser.chunk > 0
        /\ m_parser.state = "Body" /\ m_parser.framing = "ContentLength" => m_parser.body < m_parser.contentLength
    BY <1>2 DEF ParserOK, ParserType
  <2>3. /\ n \in Nat \ {0} /\ n <= l
        /\ m_parser.state = "ChunkData" => n <= m_parser.chunk
        /\ m_parser.state = "Body" /\ m_parser.framing = "ContentLength" => m_parser.body + n <= m_parser.contentLength
    <3> DEFINE most == IF m_parser.state = "ChunkData" THEN m_parser.chunk
                       ELSE IF m_parser.framing = "ContentLength" THEN m_parser.contentLength - m_parser.body ELSE l
    <3>1. n = IF most < l THEN most ELSE l
      BY DEF BodyTake
    <3> HIDE DEF l, n
    <3>2. most \in Nat /\ most > 0
      BY <1>2, <2>1, <2>2
    <3>3. /\ m_parser.state = "ChunkData" => most = m_parser.chunk
          /\ m_parser.state = "Body" /\ m_parser.framing = "ContentLength" =>
                most = m_parser.contentLength - m_parser.body
      OBVIOUS
    <3> HIDE DEF most
    <3>4. n \in Nat \ {0} /\ n <= l /\ n <= most
      BY <1>2, <2>1, <3>1, <3>2
    <3>5. ASSUME m_parser.state = "Body", m_parser.framing = "ContentLength"
          PROVE  m_parser.body + n <= m_parser.contentLength
      <4>1. most = m_parser.contentLength - m_parser.body
        BY <3>3, <3>5
      <4> QED BY <2>2, <3>2, <3>4, <4>1
    <3> QED BY <3>3, <3>4, <3>5
  <2> HIDE DEF n
  <2>4. PICK k \in Nat \ {0} : k = n
    BY <2>3
  <2>5. c + k <= w /\ c \in 0..w /\ c + k \in Nat /\ k \in 0..l
    BY <1>1, <1>2, <1>4, <2>3, <2>4
  <2>6. Meaning[c + k] = TakeBody(m_parser, k)
    BY <1>1, <1>2, <1>3, <2>3, <2>4, <2>5, TakesBody
  <2>7. ParserOK(m_parser')
    BY <1>2, <1>8, <2>3, TakeBodyOK
  <2>8. input' \in Seq(Symbol) /\ Rest(input' \o s, reply.wire, c + k)
    BY <1>2, <1>3, <1>8, <2>4, <2>5, Taking
  <2>9. Reached(c + k)'
    <3>1. m_parser' = Meaning[c + k]
      BY <1>8, <2>4, <2>6
    <3> QED BY <1>5, <2>8, <3>1 DEF Reached, s
  <2>10. hpc' = "parse"
    BY <1>8
  <2> QED BY <2>5, <2>7, <2>8, <2>9, <2>10
<1>9. \/ input = <<>> /\ input' = <<>> /\ UNCHANGED <<m_parser, thrown>>
      \/ input' = input /\ hpc' = hpc /\ m_parser' = SetError(m_parser) /\ thrown' = TRUE
      \/ /\ input # <<>> /\ m_parser' = TakeBody(m_parser, n) /\ input' = SubSeq(input, n + 1, l)
         /\ UNCHANGED <<hpc, thrown>>
  BY DEF ParseBody, NeedMoreData, Go, clientVars, handlerVars, ghosts, TakeBody
<1> QED BY <1>6, <1>7, <1>8, <1>9

ReplyInv == Flow /\ Position /\ Waiting /\ Before /\ Hangs

(* A step that neither parses nor closes keeps the position.                 *)
LEMMA Frame ==
    ASSUME Flow, Position, Waiting, UNCHANGED <<m_parser, reply, thrown>>,
           input' \in Seq(Symbol), rx' \in Seq(Symbol), out' \in Seq(Symbol),
           input' \o (rx' \o out') = input \o (rx \o out),
           m_requestBytesSent' \in 0..RequestSize,
           hpc' # "parse" => hpc # "parse" /\ input' = <<>>,
           sock' # "none" => sock # "none"
    PROVE  Flow' /\ Position' /\ Waiting'
<1>1. Flow' /\ Waiting'
  BY DEF Flow, Waiting
<1>2. ASSUME NEW c \in Nat, Reached(c) PROVE Reached(c)'
  BY <1>2 DEF Reached, Meaning
<1>3. Position'
  BY <1>2 DEF Position
<1> QED BY <1>1, <1>3

(* A step that closes the transport leaves only the types to keep.           *)
LEMMA Closes ==
    ASSUME Flow, UNCHANGED <<reply, rx, out>>, sock' = "none", input' = <<>>, m_requestBytesSent' = 0, ParserOK(m_parser')
    PROVE  ReplyInv'
<1>1. 0 \in 0..RequestSize /\ <<>> \in Seq(Symbol)
  BY ReplyConstants
<1> QED BY <1>1 DEF ReplyInv, Flow, Position, Waiting, Before, Hangs

(* fail(), completeResponse() and the disconnect close it.                   *)
LEMMA FailKeeps ==
    ASSUME Flow, Fail, UNCHANGED <<reply, rx, out>>
    PROVE  ReplyInv'
BY Closes DEF Fail, CloseTransport, Go, Flow

LEMMA CompleteKeeps ==
    ASSUME Flow, CompleteResponse, ParserOK(m_parser'), UNCHANGED <<reply, rx, out>>
    PROVE  ReplyInv'
BY Closes DEF CompleteResponse, CloseTransport, Go

LEMMA NotifyEofOK ==
    ASSUME NEW p, ParserOK(p)
    PROVE  ParserOK(NotifyEof(p))
BY SetErrorOK, InStateOK DEF NotifyEof

LEMMA DisconnectKeeps ==
    ASSUME Flow, HandleDisconnected, UNCHANGED <<reply, rx, out>>
    PROVE  ReplyInv'
<1>1. CASE Fail
  BY <1>1, FailKeeps
<1>2. CASE m_parser' = NotifyEof(m_parser) /\ CompleteResponse
  <2>1. ParserOK(m_parser')
    BY <1>2, NotifyEofOK DEF Flow
  <2> QED BY <1>2, <2>1, CompleteKeeps
<1> QED BY <1>1, <1>2 DEF HandleDisconnected

(* The handlers and the tasks along every step.                              *)
LEMMA HandlersKeep ==
    ASSUME OutcomeInv, HandlersBusy, [HttpNext]_httpVars
    PROVE  HandlersBusy'
<1> USE DEF HandlersBusy, IsBusy, Go
<1>1. CASE Send \/ Cancel \/ Reset
  BY <1>1 DEF Send, Cancel, Reset, Withdraw, CloseTransport, handlerVars
<1>2. CASE Fail \/ CompleteResponse
  BY <1>2 DEF Fail, CompleteResponse, CloseTransport
<1>3. ASSUME NEW n, Resolved(n), ~Fail PROVE HandlersBusy'
  BY <1>3 DEF Resolved, clientVars, sockVars, handlerVars, ghosts
<1>4. CASE Epoll
  BY <1>4 DEF Epoll, clientVars, handlerVars, ghosts
<1>5. CASE OnEvents /\ ~Fail /\ ~CompleteResponse
  <2>1. CASE ~WeakSelf(Head(tasks))
    <3>1. UNCHANGED <<clientVars, sockVars, handlerVars, ghosts>>
      BY <1>5, <2>1 DEF OnEvents
    <3> QED BY <3>1 DEF clientVars, sockVars, handlerVars, ghosts
  <2>2. CASE WeakSelf(Head(tasks))
    <3>1. sock # "none" /\ ~bodyCancelled /\ IsBusy /\ bodyCancelled' = bodyCancelled /\ hpc = "idle" /\ input = <<>>
      BY <1>5, <2>2 DEF OnEvents, Fail, Disconnect, HandleDisconnected, WeakSelf, ghosts, OutcomeInv, OpenWhileBusy
    <3>2. input' = <<>> /\ hpc' # "parse" /\ (hpc' = "read" => m_state' = m_state)
      BY <1>5, <2>2, <3>1 DEF OnEvents, Disconnect, HandleDisconnected, clientVars, handlerVars
    <3> QED BY <3>1, <3>2
  <2> QED BY <2>1, <2>2
<1>6. CASE SendPendingData /\ ~Fail
  <2>1. hpc = "send" /\ m_state = "Sending" /\ input = <<>> /\ sock # "none" /\ ~bodyCancelled
    BY <1>6 DEF SendPendingData, SendSome, WouldBlock, SendEnds, OutcomeInv, NothingReported, OpenWhileBusy
  <2>2. CASE SendSome
    BY <2>1, <2>2 DEF SendSome, sockVars, handlerVars, ghosts
  <2>3. CASE WouldBlock
    BY <2>1, <2>3 DEF WouldBlock, AfterSend, clientVars, ghosts
  <2>4. CASE SendEnds
    <3>1. m_state' = "Receiving" /\ AfterSend /\ UNCHANGED <<sock, ghosts>>
      BY <1>6, <2>4 DEF SendEnds
    <3> QED BY <2>1, <3>1 DEF AfterSend, ghosts
  <2> QED BY <1>6, <2>2, <2>3, <2>4 DEF SendPendingData
<1>7. CASE Read /\ ~Fail /\ ~CompleteResponse
  BY <1>7 DEF Read, HandleDisconnected, clientVars, sockVars, ghosts
<1>8. CASE Parse /\ ~Fail /\ ~CompleteResponse
  <2>1. CASE ParseLine
    BY <1>8, <2>1 DEF Parse, ParseLine, NeedMoreData, handlerVars, sockVars, ghosts
  <2>2. CASE ParseBody
    BY <1>8, <2>2 DEF Parse, ParseBody, NeedMoreData, CloseTransport, clientVars, handlerVars, sockVars, ghosts
  <2> QED
    BY <1>8, <2>1, <2>2 DEF Parse, ParseEnds
<1>9. CASE Peer \/ UNCHANGED httpVars
  BY <1>9 DEF Peer, PeerAccept, PeerRead, PeerReply, PeerEnds, httpVars,
     clientVars, sockVars, handlerVars, ghosts
<1> QED
  BY <1>1, <1>2, <1>3, <1>4, <1>5, <1>6, <1>7, <1>8, <1>9 DEF HttpNext, Loop

(* A task is queued at the end and taken from the front.                     *)
LEMMA QueueSteps ==
    ASSUME tasks \in Seq(Task), NEW x \in Task
    PROVE  /\ Append(tasks, x) \in Seq(Task) /\ Len(Append(tasks, x)) = Len(tasks) + 1
           /\ \A i \in 1..(Len(tasks) + 1) : Append(tasks, x)[i] = x \/ (i \in 1..Len(tasks) /\ Append(tasks, x)[i] = tasks[i])
           /\ tasks # <<>> => /\ Tail(tasks) \in Seq(Task) /\ Head(tasks) = tasks[1] /\ 1 \in 1..Len(tasks)
                             /\ \A i \in 1..Len(Tail(tasks)) : i + 1 \in 1..Len(tasks) /\ Tail(tasks)[i] = tasks[i + 1]
OBVIOUS

(* What is queued was queued before, or is what this socket is ready for.    *)
LEMMA TasksFrom ==
    ASSUME Tagged, requests \in Nat, [HttpNext]_httpVars
    PROVE  /\ tasks' \in Seq(Task)
           /\ \A i \in 1..Len(tasks') :
                 \/ \E j \in 1..Len(tasks) : tasks'[i] = tasks[j]
                 \/ Epoll /\ tasks'[i].to = requests /\ tasks'[i].events = Ready
<1> DEFINE new == [to |-> requests, events |-> Ready]
<1>1. new \in Task /\ new.to = requests /\ new.events = Ready
  BY DEF Task, Ready
<1>2. tasks \in Seq(Task)
  BY DEF Tagged
<1>3. CASE tasks' = tasks
  BY <1>2, <1>3
<1>4. CASE tasks' = Append(tasks, new) /\ Epoll
  <2> HIDE DEF new
  <2> QED BY <1>1, <1>2, <1>4, QueueSteps
<1>5. CASE tasks # <<>> /\ tasks' = Tail(tasks)
  <2>1. \A i \in 1..Len(Tail(tasks)) : i + 1 \in 1..Len(tasks) /\ Tail(tasks)[i] = tasks[i + 1]
    BY <1>1, <1>2, <1>5, QueueSteps
  <2>2. Tail(tasks) \in Seq(Task)
    BY <1>1, <1>2, <1>5, QueueSteps
  <2> QED BY <1>5, <2>1, <2>2
<1>6. CASE Loop
  <2>1. CASE Epoll
    BY <1>3, <1>4, <2>1 DEF Epoll
  <2>2. CASE OnEvents
    BY <1>5, <2>2 DEF OnEvents
  <2>3. ASSUME NEW n, Resolved(n) PROVE tasks' = tasks
    BY <2>3 DEF Resolved
  <2>4. CASE SendPendingData \/ Read \/ Parse
    BY <1>3, <2>4 DEF SendPendingData, SendSome, WouldBlock, SendEnds, Read, Parse, ParseEnds, ParseLine, ParseBody, taskVars
  <2> QED BY <1>3, <1>6, <2>1, <2>2, <2>3, <2>4 DEF Loop
<1>7. CASE ~Loop
  BY <1>3, <1>7 DEF HttpNext, Send, Cancel, Reset, Withdraw, Peer, PeerAccept, PeerRead, PeerReply, PeerEnds, httpVars, taskVars
<1> QED BY <1>6, <1>7

(* Only send() counts, and no step takes the body callback's cancel() back.  *)
LEMMA SameSend ==
    ASSUME [HttpNext]_httpVars, ~Send
    PROVE  requests' = requests /\ (bodyCancelled => bodyCancelled')
<1>1. CASE Loop
  <2>1. CASE Fail \/ CompleteResponse
    BY <2>1 DEF Fail, CompleteResponse
  <2>2. ASSUME NEW n \in resolving, Resolved(n), ~Fail PROVE UNCHANGED ghosts
    BY <2>2 DEF Resolved
  <2>3. CASE (Epoll \/ OnEvents) /\ ~Fail /\ ~CompleteResponse
    <3>1. UNCHANGED ghosts
      BY <2>3 DEF Epoll, OnEvents, Disconnect, HandleDisconnected
    <3> QED BY <3>1 DEF ghosts
  <2>4. CASE (SendPendingData \/ Read) /\ ~Fail /\ ~CompleteResponse
    <3>1. UNCHANGED ghosts
      BY <2>4 DEF SendPendingData, SendSome, WouldBlock, SendEnds, Read, HandleDisconnected
    <3> QED BY <3>1 DEF ghosts
  <2>5. CASE Parse /\ ~Fail /\ ~CompleteResponse
    BY <2>5 DEF Parse, ParseEnds, ParseLine, ParseBody, ghosts
  <2> QED BY <1>1, <2>1, <2>2, <2>3, <2>4, <2>5 DEF Loop, ghosts
<1>2. CASE ~Loop
  BY <1>2 DEF HttpNext, Cancel, Reset, Withdraw, Peer, PeerAccept, PeerRead, PeerReply, PeerEnds, httpVars, ghosts
<1> QED BY <1>1, <1>2

LEMMA TaggedKeeps ==
    ASSUME OutcomeInv, Tagged, [HttpNext]_httpVars
    PROVE  Tagged'
<1>1. requests \in Nat /\ requests' \in Nat /\ requests' >= requests
  <2>1. CASE Send
    BY <2>1 DEF OutcomeInv, Send
  <2> QED BY <2>1, SameSend DEF OutcomeInv
<1>2. \A j \in 1..Len(tasks) : tasks[j].to \in Nat /\ tasks[j].to <= requests
  <2>1. ASSUME NEW j \in 1..Len(tasks) PROVE tasks[j] \in Task
    BY DEF Tagged
  <2> QED BY <2>1 DEF Tagged, Task
<1>3. ASSUME NEW i \in 1..Len(tasks') PROVE tasks'[i].to <= requests'
  BY <1>1, <1>2, TasksFrom
<1> QED BY <1>1, <1>3, TasksFrom DEF Tagged

(* The next task of the loop's queue is one of them.                         *)
LEMMA HeadIs ==
    ASSUME Tagged, tasks # <<>>
    PROVE  1 \in 1..Len(tasks) /\ Head(tasks) = tasks[1]
BY DEF Tagged

(* send() begins at the start of a reply, and nothing queued is for it.      *)
LEMMA SendBegins ==
    ASSUME OutcomeInv, HandlersBusy, Tagged, Send
    PROVE  ReplyInv'
<1>1. /\ reply' \in Replies /\ m_parser' = NewParser /\ m_requestBytesSent' = 0 /\ tasks' = tasks
      /\ out' = reply'.wire /\ rx' = <<>> /\ peer' = "open" /\ soError' = FALSE /\ input' = <<>> /\ hpc' = "idle"
      /\ requests \in Nat /\ requests' = requests + 1
      /\ sock' = "none" \/ (sock' = "resolving" /\ m_state' = "Connecting")
  BY DEF Send, HandlersBusy, handlerVars, OutcomeInv
<1>2. /\ reply'.wire \in Seq(Symbol) /\ Len(reply'.wire) \in Nat
      /\ Reading(Meaning', reply'.method, reply'.wire)
  <2>1. Described(reply')
    BY <1>1, ReplyConstants
  <2>2. reply'.wire \in Seq(Symbol) /\ Len(reply'.wire) \in Nat
    BY <2>1 DEF Described, Symbol
  <2>3. Reading(Prefixes(reply'.method, reply'.wire), reply'.method, reply'.wire)
    BY <2>2, PrefixesRead
  <2> QED BY <2>2, <2>3 DEF Meaning
<1>3. Reached(0)'
  <2>1. Rest(<<>> \o (<<>> \o reply'.wire), reply'.wire, 0)
    BY <1>2, AllIsLeft
  <2>2. m_parser' = Meaning'[0]
    BY <1>1, <1>2 DEF Reading
  <2> QED BY <1>1, <2>1, <2>2 DEF Reached
<1>4. Flow' /\ Position'
  BY <1>1, <1>2, <1>3, NewParserOK, ReplyConstants DEF Flow, Position
<1>5. NewParser.state = "StatusLine"
  BY DEF NewParser
<1>6. Waiting' /\ Before'
  BY <1>1, <1>5, ReplyConstants DEF Waiting, Before
<1>7. \A i \in 1..Len(tasks') : tasks'[i].to # requests'
  BY <1>1 DEF Tagged, Task
<1>8. Hangs'
  BY <1>1, <1>7 DEF Hangs
<1> QED BY <1>4, <1>6, <1>8 DEF ReplyInv

(* cancel() and reset() close.                                               *)
LEMMA WithdrawKeeps ==
    ASSUME OutcomeInv, HandlersBusy, ReplyInv, Cancel \/ Reset
    PROVE  ReplyInv'
BY Closes, NewParserOK DEF Cancel, Reset, Withdraw, CloseTransport, handlerVars, netVars, ReplyInv, Flow

(* A hang-up that is queued is one that was queued, or a reset.              *)
LEMMA HangsFrom ==
    ASSUME Tagged, requests \in Nat, [HttpNext]_httpVars, ReplyInv, sock # "none", requests' = requests,
           peer = "rst" => peer' = "rst"
    PROVE  \A i \in 1..Len(tasks') : tasks'[i].to = requests' /\ "hup" \in tasks'[i].events => peer' = "rst"
<1> SUFFICES ASSUME NEW i \in 1..Len(tasks'), tasks'[i].to = requests', "hup" \in tasks'[i].events
             PROVE  peer' = "rst"
  OBVIOUS
<1>1. CASE \E j \in 1..Len(tasks) : tasks'[i] = tasks[j]
  BY <1>1 DEF ReplyInv, Hangs
<1>2. CASE tasks'[i].events = Ready
  BY <1>2 DEF Ready
<1> QED BY <1>1, <1>2, TasksFrom

(* The resolver and the event loop touch neither the parser nor the bytes.   *)
LEMMA EventKeeps ==
    ASSUME OutcomeInv, HandlersBusy, Tagged, ReplyInv, HttpNext,
           (\E n \in resolving : Resolved(n)) \/ Epoll \/ OnEvents
    PROVE  ReplyInv'
<1>0. hpc = "idle" /\ input = <<>> /\ UNCHANGED <<rx, out, reply, peer>>
  BY DEF Resolved, Epoll, OnEvents, ReplyInv, Flow, netVars
<1>1. CASE Fail \/ HandleDisconnected
  BY <1>0, <1>1, FailKeeps, DisconnectKeeps DEF ReplyInv
<1>2. CASE ~Fail /\ ~HandleDisconnected
  <2>1. /\ UNCHANGED <<m_parser, m_requestBytesSent, ghosts, soError>> /\ input' = <<>> /\ hpc' # "parse"
        /\ sock' # "none" => sock # "none"
    <3>1. ASSUME NEW n, Resolved(n)
          PROVE  /\ UNCHANGED <<m_parser, m_requestBytesSent, ghosts, soError>> /\ input' = <<>> /\ hpc' # "parse"
                 /\ sock' # "none" => sock # "none"
      BY <1>0, <1>2, <3>1 DEF Resolved, Go, clientVars, sockVars, handlerVars
    <3>2. CASE Epoll
      BY <1>0, <3>2 DEF Epoll, clientVars, netVars, handlerVars
    <3>3. CASE OnEvents
      BY <1>0, <1>2, <3>3 DEF OnEvents, Disconnect, WeakSelf, Go, clientVars, sockVars, handlerVars
    <3> QED BY <3>1, <3>2, <3>3
  <2>2. Flow' /\ Position' /\ Waiting'
    BY <1>0, <2>1, Frame DEF ReplyInv, Flow, ghosts
  <2>3. Before'
    <3>1. ASSUME NEW n, Resolved(n) PROVE Before'
      BY <1>0, <1>2, <2>1, <3>1 DEF Resolved, Go, clientVars, sockVars, handlerVars, ReplyInv, Before
    <3>2. CASE Epoll
      BY <1>0, <2>1, <3>2 DEF Epoll, clientVars, handlerVars, ReplyInv, Before
    <3>3. CASE OnEvents
      BY <1>0, <1>2, <2>1, <3>3 DEF OnEvents, Disconnect, Open, WeakSelf, Go, clientVars, sockVars, handlerVars, ReplyInv, Before
    <3> QED BY <3>1, <3>2, <3>3
  <2>4. Hangs'
    <3> SUFFICES ASSUME sock' # "none" PROVE Hangs'
      BY DEF Hangs
    <3>1. \A i \in 1..Len(tasks') : tasks'[i].to = requests' /\ "hup" \in tasks'[i].events => peer' = "rst"
      BY <1>0, <2>1, HangsFrom DEF ghosts, OutcomeInv
    <3> QED BY <1>0, <2>1, <3>1 DEF ReplyInv, Hangs
  <2> QED BY <2>2, <2>3, <2>4 DEF ReplyInv
<1> QED BY <1>1, <1>2

(* sendPendingData(): the client receives once all is sent.                  *)
LEMMA SendKeeps ==
    ASSUME OutcomeInv, HandlersBusy, ReplyInv, SendPendingData
    PROVE  ReplyInv'
<1> USE DEF SendPendingData, SendSome, WouldBlock, SendEnds
<1>0. hpc = "send" /\ input = <<>> /\ UNCHANGED <<rx, out, reply, peer>> /\ m_state = "Sending" /\ sock # "none"
  BY DEF netVars, ReplyInv, Flow, OutcomeInv, NothingReported, OpenWhileBusy, IsBusy
<1>1. CASE Fail
  BY <1>0, <1>1, FailKeeps DEF ReplyInv
<1>2. CASE ~Fail
  <2>1. /\ UNCHANGED <<m_parser, thrown, sock, tasks, requests, soError>> /\ input' = <<>> /\ hpc' # "parse"
        /\ \/ hpc' = "send" \/ m_state' = "Receiving"
           \/ (m_requestBytesSent' = m_requestBytesSent /\ m_requestBytesSent < RequestSize)
        /\ m_state' \in {m_state, "Receiving"}
    BY <1>0, <1>2 DEF AfterSend, Go, SetWriteInterest, clientVars, sockVars, taskVars, netVars, handlerVars, ghosts
  <2>2. /\ m_requestBytesSent \in 0..RequestSize /\ m_requestBytesSent' \in 0..RequestSize
        /\ m_requestBytesSent' < RequestSize => m_requestBytesSent < RequestSize
    <3>1. m_requestBytesSent \in 0..RequestSize /\ RequestSize \in Nat
      BY ReplyConstants DEF ReplyInv, Flow
    <3>2. \/ m_requestBytesSent' = m_requestBytesSent
          \/ \E n \in 1..(RequestSize - m_requestBytesSent) : m_requestBytesSent' = m_requestBytesSent + n
      BY <1>2 DEF clientVars
    <3> QED BY <3>1, <3>2
  <2>3. Flow' /\ Position' /\ Waiting'
    BY <1>0, <2>1, <2>2, Frame DEF ReplyInv, Flow
  <2>4. sock \notin {"resolving", "Connecting"}
    BY <1>0 DEF ReplyInv, Before
  <2>5. Before' /\ Hangs'
    BY <1>0, <2>1, <2>2, <2>4 DEF ReplyInv, Before, Hangs
  <2> QED BY <2>3, <2>5 DEF ReplyInv
<1> QED BY <1>1, <1>2

(* onRead() drops nothing: what there is to read came to a client that       *)
(* receives.                                                                 *)
LEMMA ReadKeeps ==
    ASSUME ~bodyCancelled, OutcomeInv, HandlersBusy, ReplyInv, Read
    PROVE  ReplyInv'
<1> DEFINE n == IF Len(rx) < BufferSize THEN Len(rx) ELSE BufferSize
<1>0. hpc = "read" /\ input = <<>> /\ UNCHANGED <<out, reply, peer, tasks>> /\ IsBusy /\ sock # "none"
  BY DEF Read, taskVars, ReplyInv, Flow, HandlersBusy, OutcomeInv, OpenWhileBusy
<1>1. rx \in Seq(Symbol) /\ out \in Seq(Symbol) /\ Len(rx) \in Nat /\ n \in 0..Len(rx) /\ (n = 0 <=> rx = <<>>)
  BY ReplyConstants DEF ReplyInv, Flow
<1>2. CASE HandleDisconnected /\ UNCHANGED rx
  BY <1>0, <1>2, DisconnectKeeps DEF ReplyInv
<1>3. CASE Go("idle") /\ UNCHANGED <<clientVars, sockVars, rx, ghosts>> /\ (soError' \in {soError, FALSE} /\ (soError' = soError \/ rx = <<>>))
  <2>1. Flow' /\ Position' /\ Waiting'
    BY <1>0, <1>3, Frame DEF Go, clientVars, sockVars, ghosts, ReplyInv, Flow
  <2>2. Before'
    BY <1>0, <1>3 DEF Go, clientVars, sockVars, ReplyInv, Before
  <2>3. CASE UNCHANGED soError
    <3>1. Hangs'
      BY <1>0, <1>3, <2>3 DEF sockVars, ghosts, ReplyInv, Hangs
    <3> QED BY <2>1, <2>2, <3>1 DEF ReplyInv
  <2>4. CASE rx = <<>> /\ soError' = FALSE
    <3>1. Hangs'
      BY <1>0, <1>3, <2>4 DEF sockVars, ghosts, ReplyInv, Hangs
    <3> QED BY <2>1, <2>2, <3>1 DEF ReplyInv
  <2> QED BY <1>3, <2>3, <2>4
<1>4. CASE n > 0 /\ rx' = SubSeq(rx, n + 1, Len(rx)) /\ UNCHANGED <<thenRead, clientVars, sockVars, soError, ghosts>>
           /\ IF m_state = "Receiving" THEN hpc' = "parse" /\ input' = SubSeq(rx, 1, n) ELSE UNCHANGED <<hpc, input>>
  <2>1. rx # <<>> /\ n \in 1..Len(rx)
    BY <1>1, <1>4
  <2>2. m_state = "Receiving"
    BY <1>0, <2>1 DEF ReplyInv, Before
  <2> HIDE DEF n
  <2>3. input' = SubSeq(rx, 1, n) /\ hpc' = "parse"
    BY <1>4, <2>2
  <2>4. input' \in Seq(Symbol) /\ rx' \in Seq(Symbol) /\ input' \o rx' = rx
    BY <1>1, <1>4, <2>1, <2>3, Moves
  <2>5. input' \o (rx' \o out') = input \o (rx \o out)
    <3>1. input' \o (rx' \o out) = (input' \o rx') \o out
      <4>1. input' \in Seq(Symbol) /\ rx' \in Seq(Symbol) /\ out \in Seq(Symbol)
        BY <1>1, <2>4
      <4> QED BY <4>1, Assoc, Zenon
    <3>2. <<>> \o (rx \o out) = rx \o out
      BY <1>1
    <3> QED BY <1>0, <2>4, <3>1, <3>2
  <2>6. Flow' /\ Position' /\ Waiting'
    <3>1. UNCHANGED <<m_parser, reply, thrown, sock>> /\ m_requestBytesSent' \in 0..RequestSize /\ out' \in Seq(Symbol)
      BY <1>0, <1>4 DEF clientVars, sockVars, ghosts, ReplyInv, Flow
    <3> QED BY <2>3, <2>4, <2>5, <3>1, Frame DEF ReplyInv
  <2>7. Before' /\ Hangs'
    BY <1>0, <1>4, <2>1, <2>2, <2>3 DEF clientVars, sockVars, ghosts, ReplyInv, Before, Hangs
  <2> QED BY <2>6, <2>7 DEF ReplyInv
<1>5. \/ HandleDisconnected /\ UNCHANGED rx
      \/ Go("idle") /\ UNCHANGED <<clientVars, sockVars, rx, ghosts>> /\ (soError' \in {soError, FALSE} /\ (soError' = soError \/ rx = <<>>))
      \/ /\ n > 0 /\ rx' = SubSeq(rx, n + 1, Len(rx)) /\ UNCHANGED <<thenRead, clientVars, sockVars, soError, ghosts>>
         /\ IF m_state = "Receiving" THEN hpc' = "parse" /\ input' = SubSeq(rx, 1, n) ELSE UNCHANGED <<hpc, input>>
  <2>1. \/ HandleDisconnected /\ UNCHANGED rx
        \/ Go("idle") /\ UNCHANGED <<clientVars, sockVars, rx, ghosts>> /\ (soError' \in {soError, FALSE} /\ (soError' = soError \/ n = 0))
        \/ /\ n > 0 /\ rx' = SubSeq(rx, n + 1, Len(rx)) /\ UNCHANGED <<thenRead, clientVars, sockVars, soError, ghosts>>
           /\ IF m_state = "Receiving" THEN hpc' = "parse" /\ input' = SubSeq(rx, 1, n) ELSE UNCHANGED <<hpc, input>>
    BY <1>0 DEF Read
  <2> HIDE DEF n
  <2> QED BY <1>1, <2>1
<1> QED BY <1>2, <1>3, <1>4, <1>5

(* parse(), by its turns.                                                    *)
LEMMA ParseKeeps ==
    ASSUME ~bodyCancelled, ~bodyCancelled', OutcomeInv, HandlersBusy, ReplyInv, Parse
    PROVE  ReplyInv'
<1>0. hpc = "parse" /\ m_state = "Receiving" /\ sock # "none"
  BY DEF Parse, HandlersBusy, OutcomeInv, OpenWhileBusy, IsBusy
<1>1. CASE ParseEnds
  <2>1. UNCHANGED <<reply, rx, out>>
    BY <1>1 DEF ParseEnds, netVars
  <2> QED BY <1>1, <2>1, FailKeeps, CompleteKeeps DEF ParseEnds, ReplyInv, Flow
<1>2. CASE ParseLine \/ ParseBody
  <2>1. PICK c \in Nat : Reached(c)
    BY <1>0 DEF ReplyInv, Position
  <2>2. /\ ParserOK(m_parser') /\ input' \in Seq(Symbol)
        /\ hpc' # "parse" => input' = <<>> /\ m_parser'.state \notin {"Complete", "Error"}
        /\ \E d \in Nat : Reached(d)'
    BY <1>0, <1>2, <2>1, LineTurn, BodyTurn DEF ReplyInv
  <2>3. UNCHANGED <<m_state, m_requestBytesSent, sock, tasks, requests, reply, rx, out, peer, soError>>
    BY <1>2 DEF ParseLine, ParseBody, clientVars, sockVars, taskVars, netVars, ghosts
  <2>4. Flow' /\ Position' /\ Waiting'
    BY <2>2, <2>3 DEF ReplyInv, Flow, Position, Waiting
  <2>5. Before' /\ Hangs'
    BY <1>0, <2>3 DEF ReplyInv, Before, Hangs
  <2> QED BY <2>4, <2>5 DEF ReplyInv
<1> QED BY <1>1, <1>2 DEF Parse

(* The peer, who replies only to a whole request.                            *)
LEMMA PeerKeeps ==
    ASSUME ~EarlyReply, OutcomeInv, ReplyInv, Peer \/ UNCHANGED httpVars
    PROVE  ReplyInv'
<1>0. UNCHANGED <<m_state, m_parser, m_requestBytesSent, sock, tasks, requests, hpc, input, reply, thrown>>
  BY DEF Peer, PeerAccept, PeerRead, PeerReply, PeerEnds, httpVars, clientVars, sockVars, taskVars, handlerVars, ghosts
<1>1. CASE PeerReply
  <2>1. peer = "open" /\ peer' = "open" /\ soError' = soError /\ m_requestBytesSent = RequestSize
    BY <1>1 DEF PeerReply
  <2>2. PICK n \in 1..Len(out) : rx' = rx \o SubSeq(out, 1, n) /\ out' = SubSeq(out, n + 1, Len(out))
    BY <1>1 DEF PeerReply
  <2>3. rx \in Seq(Symbol) /\ out \in Seq(Symbol)
    BY DEF ReplyInv, Flow
  <2>4. rx' \in Seq(Symbol) /\ out' \in Seq(Symbol) /\ rx' \o out' = rx \o out
    <3>1. SubSeq(out, 1, n) \in Seq(Symbol)
      BY <2>3, Moves
    <3>2. rx \o SubSeq(out, 1, n) \in Seq(Symbol)
      BY <2>3, <3>1, Concat
    <3>3. /\ SubSeq(out, n + 1, Len(out)) \in Seq(Symbol)
          /\ (rx \o SubSeq(out, 1, n)) \o SubSeq(out, n + 1, Len(out)) = rx \o out
      BY <2>3, Moves
    <3> QED BY <2>2, <3>2, <3>3
  <2>5. Flow' /\ Position' /\ Waiting'
    BY <1>0, <2>4, Frame DEF ReplyInv, Flow
  <2>6. Before' /\ Hangs'
    <3>1. ~(m_requestBytesSent' < RequestSize)
      BY <1>0, <2>1, ReplyConstants
    <3>2. Hangs'
      BY <1>0, <2>1 DEF ReplyInv, Hangs
    <3>3. Before'
      BY <1>0, <3>1 DEF ReplyInv, Before
    <3> QED BY <3>2, <3>3
  <2> QED BY <2>5, <2>6 DEF ReplyInv
<1>2. CASE ~PeerReply
  <2>1. /\ UNCHANGED <<rx, out>> /\ (peer = "rst" => peer' = "rst")
        /\ (peer' = "rst" => (peer = "rst" /\ soError' = soError) \/ soError')
        /\ (soError' => soError \/ peer' = "rst")
    BY <1>2 DEF Peer, PeerAccept, PeerRead, PeerEnds, httpVars, netVars
  <2>2. Flow' /\ Position' /\ Waiting'
    BY <1>0, <2>1, Frame DEF ReplyInv, Flow
  <2>3. Before' /\ Hangs'
    BY <1>0, <2>1 DEF ReplyInv, Before, Hangs
  <2> QED BY <2>2, <2>3 DEF ReplyInv
<1> QED BY <1>1, <1>2

(* All of it, unless the body callback has cancelled the request.            *)
ClientInv == OutcomeInv /\ HandlersBusy /\ Tagged /\ (bodyCancelled \/ ReplyInv)

LEMMA ClientKeeps ==
    ASSUME ~EarlyReply, ClientInv, [HttpNext]_httpVars, ~bodyCancelled'
    PROVE  ReplyInv'
<1>1. CASE Send
  BY <1>1, SendBegins DEF ClientInv
<1>2. CASE ~Send
  <2>1. ~bodyCancelled /\ ReplyInv /\ OutcomeInv /\ HandlersBusy /\ Tagged
    BY <1>2, SameSend DEF ClientInv
  <2>2. CASE (\E n \in resolving : Resolved(n)) \/ Epoll \/ OnEvents
    <3>1. HttpNext
      BY <2>2 DEF HttpNext, Loop
    <3> QED BY <2>1, <2>2, <3>1, EventKeeps
  <2> QED BY <1>2, <2>1, <2>2, WithdrawKeeps, SendKeeps, ReadKeeps, ParseKeeps, PeerKeeps DEF HttpNext, Loop
<1> QED BY <1>1, <1>2

LEMMA ReplyInvariant == ~EarlyReply => (HttpSpec => []ClientInv)
<1> SUFFICES ASSUME ~EarlyReply PROVE HttpSpec => []ClientInv
  OBVIOUS
<1>1. HttpInit => HandlersBusy /\ Tagged /\ ReplyInv
  <2> SUFFICES ASSUME HttpInit PROVE HandlersBusy /\ Tagged /\ ReplyInv
    OBVIOUS
  <2>1. HandlersBusy /\ Tagged
    BY DEF HttpInit, HandlersBusy, Tagged
  <2>2. reply \in Replies
    BY ReplyAssumption DEF HttpInit, ReplyAssumption
  <2>3. Flow
    BY <2>2, NewParserOK, ReplyConstants DEF HttpInit, Flow
  <2> QED BY <2>1, <2>3 DEF HttpInit, ReplyInv, Position, Waiting, Before, Hangs
<1>2. ClientInv /\ [HttpNext]_httpVars => HandlersBusy' /\ Tagged' /\ (bodyCancelled \/ ReplyInv)'
  BY HandlersKeep, TaggedKeeps, ClientKeeps DEF ClientInv
<1> QED
  BY <1>1, <1>2, OutcomeInvariant, PTL DEF HttpSpec, ClientInv

(* The parser is complete only where the reply ends.                         *)
LEMMA CompleteIsWhole ==
    ASSUME Flow, NEW c \in Nat, Reached(c), m_parser.state = "Complete"
    PROVE  /\ reply.good /\ m_parser.code = reply.code /\ out = <<>>
           /\ m_parser.body = reply.body - Len(out)
<1> DEFINE w == Len(reply.wire)
<1>1. m_parser = Meaning[c] /\ Rest(input \o (rx \o out), reply.wire, c)
  BY DEF Reached
<1>2. /\ reply \in Replies /\ input \in Seq(Symbol) /\ rx \in Seq(Symbol) /\ out \in Seq(Symbol)
      /\ m_parser.body \in Nat
  BY DEF Flow, ParserOK, ParserType
<1>3. /\ c \in 0..w /\ w \in Nat
      /\ c = w <=> input = <<>> /\ rx = <<>> /\ out = <<>>
  BY <1>1, <1>2, NothingLeft
<1>4. c = w
  <2> SUFFICES ASSUME c # w PROVE FALSE
    OBVIOUS
  <2>1. c \in 0..(w - 1)
    BY <1>3
  <2> QED BY <1>1, <1>2, <2>1, ReplyIs
<1>5. out = <<>> /\ Len(out) = 0
  BY <1>3, <1>4
<1>6. reply.good /\ reply.code = m_parser.code /\ reply.body = m_parser.body
  BY <1>1, <1>2, <1>4, ReplyIs
<1> QED BY <1>2, <1>5, <1>6

(* A body that runs to the close is all that was sent of it.                 *)
LEMMA ClosedIsWhole ==
    ASSUME Flow, NEW c \in Nat, Reached(c), input = <<>>, rx = <<>>,
           m_parser.state = "Body", m_parser.framing = "CloseDelimited"
    PROVE  reply.good /\ m_parser.code = reply.code /\ m_parser.body = reply.body - Len(out)
<1> DEFINE w == Len(reply.wire)
           p == m_parser
           b == p.body + (w - c)
           end == Meaning[w]
<1>1. m_parser = Meaning[c] /\ Rest(input \o (rx \o out), reply.wire, c)
  BY DEF Reached
<1>2. /\ reply \in Replies /\ input \in Seq(Symbol) /\ rx \in Seq(Symbol) /\ out \in Seq(Symbol)
      /\ p \in ParserType /\ p.body \in Nat /\ p.chunk \in Nat
  BY DEF Flow, ParserOK, ParserType
<1>3. c \in 0..w /\ w \in Nat /\ w - c = Len(out)
  <2>1. c \in 0..w /\ w \in Nat
    BY <1>1, <1>2, NothingLeft, Zenon
  <2>2. w - c = Len(out)
    <3>1. Rest(<<>> \o (<<>> \o out), reply.wire, c)
      BY <1>1
    <3>2. <<>> \o (<<>> \o out) = out /\ Len(out) \in Nat
      BY <1>2
    <3>3. c + Len(out) = w
      BY <3>1, <3>2 DEF Rest
    <3> QED BY <2>1, <3>2, <3>3
  <2> QED BY <2>1, <2>2
<1>4. end = WithCounts(p, b, p.chunk)
  <2>1. Reading(Meaning, reply.method, reply.wire)
    BY <1>2, ReplyIs
  <2> QED BY <1>1, <1>2, <1>3, <2>1, RunsToTheClose
<1>5. end.state = "Body" /\ end.framing = "CloseDelimited" /\ end.code = p.code /\ end.body = b
  <2> HIDE DEF end, b
  <2> QED BY <1>2, <1>4, WithCountsIs
<1>6. reply.good /\ reply.code = p.code /\ reply.body = b
  <2> HIDE DEF b
  <2> QED BY <1>2, <1>5, ReplyIs
<1>7. p.body = b - Len(out)
  BY <1>2, <1>3
<1> QED BY <1>6, <1>7

(* A parser that waits at the end of a good reply waits for the close.       *)
LEMMA WaitsForClose ==
    ASSUME Flow, NEW c \in Nat, Reached(c), input = <<>>, rx = <<>>, out = <<>>,
           m_parser.state \notin {"Complete", "Error"}, reply.good
    PROVE  m_parser.state = "Body" /\ m_parser.framing = "CloseDelimited"
<1> DEFINE w == Len(reply.wire)
<1>1. m_parser = Meaning[c] /\ Rest(input \o (rx \o out), reply.wire, c)
  BY DEF Reached
<1>2. reply \in Replies /\ input \in Seq(Symbol) /\ rx \in Seq(Symbol) /\ out \in Seq(Symbol)
  BY DEF Flow
<1>3. c = w
  <2>1. c = w <=> input = <<>> /\ rx = <<>> /\ out = <<>>
    BY <1>1, <1>2, NothingLeft, Zenon
  <2> QED BY <2>1
<1> QED BY <1>1, <1>2, <1>3, ReplyIs

(* The parser fails only on a reply that is not good, or a throw.            *)
LEMMA ErrorIsDue ==
    ASSUME Flow, NEW c \in Nat, Reached(c), m_parser.state = "Error"
    PROVE  ~reply.good \/ thrown
<1> DEFINE w == Len(reply.wire)
<1>1. /\ reply \in Replies /\ input \in Seq(Symbol) /\ rx \in Seq(Symbol) /\ out \in Seq(Symbol)
      /\ Rest(input \o (rx \o out), reply.wire, c)
  BY DEF Flow, Reached
<1>2. c \in 0..w /\ w \in Nat
  BY <1>1, NothingLeft
<1>3. Reading(Meaning, reply.method, reply.wire)
  BY <1>1, ReplyIs
<1>4. thrown \/ Meaning[w].state = "Error"
  <2>1. CASE m_parser = Meaning[c]
    BY <1>2, <1>3, <2>1, ErrorStays
  <2>2. CASE m_parser # Meaning[c]
    BY <2>2 DEF Reached
  <2> QED BY <2>1, <2>2
<1> QED BY <1>1, <1>4, ReplyIs

(* Nothing touches the response once it is complete.                         *)
LEMMA AfterTheEnd ==
    ASSUME OutcomeInv, [HttpNext]_httpVars, m_state \in {"Complete", "Error"}, ~Send, ~Reset
    PROVE  UNCHANGED <<m_state, m_parser, reply, out, peer, sock, thrown, bodyCancelled>>
<1>1. ~IsBusy /\ sock = "none" /\ hpc \notin {"send", "read", "parse"}
  BY DEF IsBusy, OutcomeInv, OpenWhileBusy, NothingReported
<1>2. ASSUME NEW n, Resolved(n) PROVE UNCHANGED <<m_state, m_parser, reply, out, peer, sock, thrown, bodyCancelled>>
  BY <1>1, <1>2 DEF Resolved, clientVars, sockVars, ghosts
<1>3. CASE OnEvents
  BY <1>1, <1>3 DEF OnEvents, WeakSelf, clientVars, sockVars, ghosts
<1>4. ~(Cancel \/ Epoll \/ SendPendingData \/ Read \/ Parse \/ PeerReply \/ PeerEnds \/ PeerAccept)
  BY <1>1 DEF Cancel, Epoll, Open, SendPendingData, SendSome, WouldBlock, SendEnds,
     Read, Parse, PeerReply, PeerEnds, PeerAccept
<1>5. CASE PeerRead \/ UNCHANGED httpVars
  BY <1>5 DEF PeerRead, httpVars, clientVars, sockVars, netVars, ghosts
<1> QED
  BY <1>2, <1>3, <1>4, <1>5 DEF HttpNext, Loop, Peer

(* The close completes a body that runs to it.                               *)
LEMMA DisconnectWhole ==
    ASSUME OutcomeInv, ReplyInv, HandleDisconnected, sock # "none", hpc # "parse", rx = <<>>,
           UNCHANGED <<reply, out>>, m_state' = "Complete"
    PROVE  ResponseWhole'
<1>1. m_state = "Receiving" /\ m_parser' = NotifyEof(m_parser) /\ m_parser'.state = "Complete"
  BY DEF HandleDisconnected, Fail
<1>2. ParserOK(m_parser) /\ m_parser \in ParserType /\ input = <<>>
  BY DEF ReplyInv, Flow, ParserOK
<1>3. m_parser.state = "Body" /\ m_parser.framing = "CloseDelimited"
  <2>1. SetError(m_parser).state = "Error"
    BY <1>2, ErrorIs
  <2> QED BY <1>1, <2>1 DEF NotifyEof
<1>4. m_parser' = InState(m_parser, "Complete")
  BY <1>1, <1>3 DEF NotifyEof, InState
<1>5. m_parser'.code = m_parser.code /\ m_parser'.body = m_parser.body /\ m_parser'.framing = "CloseDelimited"
  BY <1>2, <1>3, <1>4 DEF InState, ParserType
<1>6. reply.good /\ m_parser.code = reply.code /\ m_parser.body = reply.body - Len(out)
  <2>1. PICK c \in Nat : Reached(c)
    BY DEF ReplyInv, Position
  <2> QED BY <1>2, <1>3, <2>1, ClosedIsWhole DEF ReplyInv
<1> QED BY <1>5, <1>6 DEF ResponseWhole

(* Each way to complete finds a whole response.                              *)
LEMMA WholeKeeps ==
    ASSUME ~EarlyReply, ClientInv, ResponseWhole, [HttpNext]_httpVars
    PROVE  ResponseWhole'
<1> SUFFICES ASSUME m_state' = "Complete", ~bodyCancelled' PROVE ResponseWhole'
  BY DEF ResponseWhole
<1>0. ~Send /\ ~Cancel /\ ~Reset
  BY DEF Send, Cancel, Reset, Withdraw
<1>00. ~bodyCancelled /\ ReplyInv /\ OutcomeInv /\ HandlersBusy /\ Tagged
  BY <1>0, SameSend DEF ClientInv
<1>1. CASE m_state = "Complete"
  BY <1>0, <1>00, <1>1, AfterTheEnd DEF ResponseWhole
<1>2. CASE m_state # "Complete"
  <2>1. OnEvents \/ Read \/ (Parse /\ ParseEnds)
    BY <1>0, <1>2 DEF HttpNext, Loop, Peer, Resolved, Epoll, SendPendingData, SendSome, WouldBlock, SendEnds,
       Parse, ParseLine, ParseBody, Fail, PeerAccept, PeerRead, PeerReply, PeerEnds, httpVars, clientVars
  <2>2. CASE OnEvents
    <3>1. /\ HandleDisconnected /\ tasks # <<>> /\ WeakSelf(Head(tasks)) /\ "hup" \in Head(tasks).events
          /\ ~soError /\ hpc = "idle" /\ UNCHANGED <<reply, out>>
      BY <1>2, <2>2 DEF OnEvents, Disconnect, Fail, clientVars
    <3>2. sock # "none" /\ rx = <<>>
      BY <1>00, <3>1, HeadIs DEF WeakSelf, ReplyInv, Hangs
    <3> QED BY <1>00, <3>1, <3>2, DisconnectWhole
  <2>3. CASE Read
    <3>1. HandleDisconnected /\ rx = <<>> /\ hpc = "read" /\ sock # "none" /\ UNCHANGED <<reply, out>>
      <4>1. /\ HandleDisconnected /\ (IF Len(rx) < BufferSize THEN Len(rx) ELSE BufferSize) = 0
            /\ hpc = "read" /\ sock # "none" /\ UNCHANGED <<reply, out>>
        BY <1>2, <2>3 DEF Read, clientVars
      <4>2. rx \in Seq(Symbol) /\ Len(rx) \in Nat /\ (rx = <<>> <=> Len(rx) = 0)
        BY <1>00 DEF ReplyInv, Flow
      <4> QED BY <4>1, <4>2, ReplyConstants
    <3> QED BY <1>00, <3>1, DisconnectWhole
  <2>4. CASE Parse /\ ParseEnds
    <3>1. m_parser.state = "Complete" /\ UNCHANGED <<m_parser, reply, out>> /\ hpc = "parse"
      BY <2>4 DEF Parse, ParseEnds, Fail, netVars
    <3>2. PICK c \in Nat : Reached(c)
      BY <1>00, <3>1 DEF HandlersBusy, OutcomeInv, OpenWhileBusy, IsBusy, ReplyInv, Position
    <3> QED BY <1>00, <3>1, <3>2, CompleteIsWhole DEF ReplyInv, ResponseWhole
  <2> QED BY <2>1, <2>2, <2>3, <2>4
<1> QED BY <1>1, <1>2

(* Each way to fail has its reason.                                          *)
LEMMA SucceedsKeeps ==
    ASSUME ~EarlyReply, ClientInv, OutcomeInv', GoodReplySucceeds, [HttpNext]_httpVars
    PROVE  GoodReplySucceeds'
<1> SUFFICES ASSUME m_state' = "Error", ~bodyCancelled' PROVE GoodReplySucceeds'
  BY DEF GoodReplySucceeds, OutcomeInv, OpenWhileBusy, IsBusy
<1> DEFINE Due == ~reply.good \/ out # <<>> \/ peer = "rst" \/ thrown
<1>0. ~Cancel /\ ~Reset
  BY DEF Cancel, Reset, Withdraw
<1>00. ~Send => ~bodyCancelled /\ ReplyInv /\ OutcomeInv /\ HandlersBusy /\ Tagged
  BY SameSend DEF ClientInv
<1>1. CASE Send
  <2>1. sock' = "none" /\ reply' \in Replies /\ out' = reply'.wire
    BY <1>1 DEF Send
  <2>2. Described(reply')
    BY <2>1, ReplyConstants
  <2>3. reply'.wire # <<>> \/ ~reply'.good
    <3> SUFFICES ASSUME reply'.wire = <<>> PROVE ~reply'.good
      OBVIOUS
    <3> DEFINE f == Prefixes(reply'.method, reply'.wire)
    <3>1. Len(reply'.wire) = 0
      OBVIOUS
    <3>2. f[0] = NewParser
      BY <3>1, PrefixesRead DEF Reading
    <3>3. NewParser.state = "StatusLine"
      BY DEF NewParser
    <3> QED BY <2>2, <3>1, <3>2, <3>3 DEF Described
  <2> QED BY <2>1, <2>3 DEF GoodReplySucceeds
<1>2. CASE ~Send /\ m_state = "Error"
  BY <1>0, <1>00, <1>2, AfterTheEnd DEF GoodReplySucceeds
<1>3. CASE ~Send /\ m_state # "Error"
  <2>0. ~bodyCancelled /\ ReplyInv /\ OutcomeInv /\ HandlersBusy /\ Tagged
    BY <1>00, <1>3
  <2>1. Fail /\ UNCHANGED <<reply, out, peer>>
    BY <1>0, <1>3 DEF HttpNext, Loop, Peer, Resolved, Epoll, OnEvents, Disconnect, SendPendingData, SendSome,
       WouldBlock, SendEnds, Read, HandleDisconnected,
       CompleteResponse, Parse, ParseEnds, ParseLine, ParseBody,
       PeerAccept, PeerRead, PeerReply, PeerEnds, httpVars, clientVars, netVars
  <2>2. sock' = "none" /\ thrown' = thrown
    BY <2>1 DEF Fail, CloseTransport
  <2>3. Due
    <3>1. CASE Parse
      <4>1. m_parser.state = "Error" /\ hpc = "parse"
        BY <1>3, <2>2, <3>1 DEF Parse, ParseEnds, ParseLine, ParseBody, CompleteResponse, clientVars
      <4>2. PICK c \in Nat : Reached(c)
        BY <2>0, <4>1 DEF HandlersBusy, OutcomeInv, OpenWhileBusy, IsBusy, ReplyInv, Position
      <4> QED BY <2>0, <4>1, <4>2, ErrorIsDue DEF ReplyInv
    <3>2. CASE OnEvents \/ SendPendingData
      <4>1. \/ peer = "rst"
            \/ tasks # <<>> /\ WeakSelf(Head(tasks)) /\ ("hup" \in Head(tasks).events \/ soError)
        BY <1>3, <3>2 DEF OnEvents, SendPendingData, SendSome, WouldBlock, SendEnds, Disconnect, clientVars
      <4> QED BY <2>0, <4>1, HeadIs DEF WeakSelf, ReplyInv, Hangs
    <3>3. CASE (\E n \in resolving : Resolved(n)) \/ Read
      <4> SUFFICES ASSUME reply.good, out = <<>>, peer # "rst" PROVE FALSE
        OBVIOUS
      <4>1. sock # "none" /\ hpc # "parse" /\ hpc # "send" /\ input = <<>>
        BY <1>3, <2>0, <3>3 DEF Resolved, clientVars, Read, HandlersBusy, OutcomeInv, OpenWhileBusy, ReplyInv, Flow
      <4>2. rx = <<>>
        <5>1. CASE \E n \in resolving : Resolved(n)
          BY <1>3, <2>0, <4>1, <5>1 DEF clientVars, Resolved, ReplyInv, Before
        <5>2. CASE Read
          <6>1. (IF Len(rx) < BufferSize THEN Len(rx) ELSE BufferSize) = 0
            BY <1>3, <5>2 DEF Read, clientVars
          <6>2. rx \in Seq(Symbol) /\ Len(rx) \in Nat /\ (rx = <<>> <=> Len(rx) = 0)
            BY <2>0 DEF ReplyInv, Flow
          <6> QED BY <6>1, <6>2, ReplyConstants
        <5> QED BY <3>3, <5>1, <5>2
      <4>3. PICK c \in Nat : Reached(c)
        BY <2>0, <4>1 DEF ReplyInv, Position
      <4>4. m_parser.state = "Body" /\ m_parser.framing = "CloseDelimited"
        BY <2>0, <4>1, <4>2, <4>3, WaitsForClose DEF ReplyInv, Waiting
      <4>5. m_state = "Receiving"
        <5>1. NewParser.state = "StatusLine"
          BY DEF NewParser
        <5> QED BY <2>0, <4>1, <4>4, <5>1 DEF ReplyInv, Before
      <4>6. Read /\ HandleDisconnected
        BY <1>3, <2>0, <3>3, <4>5 DEF Resolved, Read, ReplyInv, Before, clientVars
      <4>7. NotifyEof(m_parser).state = "Complete"
        <5>1. m_parser \in ParserType
          BY <2>0 DEF ReplyInv, Flow, ParserOK
        <5> QED BY <4>4, <5>1 DEF NotifyEof, ParserType
      <4>8. m_state' = "Complete"
        BY <4>5, <4>6, <4>7 DEF HandleDisconnected, CompleteResponse
      <4> QED BY <4>8
    <3>4. ~Epoll /\ ~Peer /\ ~UNCHANGED httpVars
      BY <1>3 DEF Epoll, Peer, PeerAccept, PeerRead, PeerReply, PeerEnds, httpVars, clientVars
    <3> HIDE DEF Due
    <3> QED BY <1>0, <1>3, <3>1, <3>2, <3>3, <3>4 DEF HttpNext, Loop
  <2> QED BY <2>1, <2>2, <2>3 DEF GoodReplySucceeds
<1> QED BY <1>1, <1>2, <1>3

(* A response that is reported is good, has the code and the body that were  *)
(* sent, and was sent whole unless it runs to the close: for any replies,    *)
(* any cuts of them into pieces, any sizes and limits, unless the body       *)
(* callback cancelled the request.  The hypothesis is the run's: the peer    *)
(* answers a whole request.                                                  *)
THEOREM ResponseIsWhole == ~EarlyReply => (HttpSpec => []ResponseWhole)
<1> SUFFICES ASSUME ~EarlyReply PROVE HttpSpec => []ResponseWhole
  OBVIOUS
<1>1. HttpInit => ResponseWhole
  BY DEF HttpInit, ResponseWhole
<1>2. ClientInv /\ ResponseWhole /\ [HttpNext]_httpVars => ResponseWhole'
  BY WholeKeeps
<1>3. HttpSpec => []ClientInv
  BY ReplyInvariant
<1> QED
  BY <1>1, <1>2, <1>3, PTL DEF HttpSpec

(* A good reply that arrived whole, without a reset, a throw or a cancel()   *)
(* of the body callback, is never reported as an error, wherever it was cut  *)
(* and whatever the loop still holds of earlier connections.                 *)
THEOREM GoodReplyAccepted == ~EarlyReply => (HttpSpec => []GoodReplySucceeds)
<1> SUFFICES ASSUME ~EarlyReply PROVE HttpSpec => []GoodReplySucceeds
  OBVIOUS
<1>1. HttpInit => GoodReplySucceeds
  BY DEF HttpInit, GoodReplySucceeds
<1>2. ClientInv /\ ClientInv' /\ GoodReplySucceeds /\ [HttpNext]_httpVars => GoodReplySucceeds'
  BY SucceedsKeeps DEF ClientInv
<1>3. HttpSpec => []ClientInv
  BY ReplyInvariant
<1> QED
  BY <1>1, <1>2, <1>3, PTL DEF HttpSpec
=============================================================================
