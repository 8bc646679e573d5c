------------------------------ MODULE EventLoop ------------------------------
(***************************************************************************)
(* AsyncEventLoop and JobIoAsyncThread: tasks, timers and file descriptor  *)
(* callbacks run by one thread (job_async_event_loop.cpp,                  *)
(* job_io_async_thread.cpp), with the TaskQueue between the callers and    *)
(* the thread (job_task_queue.cpp).  An AsyncEventLoop sleeps in           *)
(* TaskQueue::take(timeout), a JobIoAsyncThread in epoll_wait(), from      *)
(* which only its descriptors, its eventfd or the timeout wake it.  The    *)
(* callers' steps are split where they release a mutex or make a system    *)
(* call.  Time is a clock that ticks up to MaxTime.                        *)
(***************************************************************************)
EXTENDS Integers, FiniteSets, FiniteSetsExt

CONSTANTS
    Loops,          \* pairs of a kind of loop and the items its callers use
    Tasks, Prio,    \* the tasks callers post; a lower number goes first
    Timers, Interval, Repeating,
    FDs, MaxData,   \* descriptors; how often data arrives at each
    Batch,          \* tasks per processTasks() (100 in the code)
    Heartbeat, MaxTime,
    Never,          \* milliseconds::max(): no timer is due
    Stop,           \* the item that stands for stop(), and one start() after it
    NoTask          \* the empty closure posted to wake the thread

ASSUME LoopAssumption ==
    /\ Loops \subseteq {"async", "io"} \X SUBSET (Tasks \cup Timers \cup FDs \cup {Stop}) /\ Prio \in [Tasks -> Nat]
    /\ Interval \in [Timers -> Nat \ {0}] /\ Repeating \subseteq Timers
    /\ Batch \in Nat \ {0} /\ {Heartbeat, MaxTime, MaxData, Never} \subseteq Nat
    /\ Never > MaxTime + Heartbeat /\ \A t \in Timers : Never > MaxTime + Interval[t]
    /\ Tasks \cap Timers = {} /\ Tasks \cap FDs = {} /\ Timers \cap FDs = {}
    /\ NoTask \notin Tasks \cup Timers \cup FDs

Items == Tasks \cup Timers \cup FDs \cup {NoTask}

VARIABLES
    kind, used, clock,      \* "async" or "io"; the items callers use
    m_queue, m_stopped,     \* TaskQueue: how many of each item, stop() called
    next, added,            \* m_timers: Never when absent; where addTimer() is
    fired, cancelled,       \* per timer: its runs, did cancelTimer() return true?
    pc, deadline, budget, cur,  \* the loop's thread
    stopReq, stopPc, restarted, \* the stop token, where stop() is
    evt, toSignal,          \* is the eventfd readable; post() calls that still have to write it
    reg, m_fdCallbacks,     \* where the owner of each descriptor is; who has a callback
    arrived, data, edge,    \* arrivals so far; who has unread data; edges epoll has not reported
    got, fresh,             \* what epoll_wait() returned; data that arrived after registerFD()
    posted, ran             \* the tasks callers posted, the tasks that have run

setup     == <<kind, used>>
queueVars == <<m_queue, m_stopped>>
timerVars == <<next, added, fired, cancelled>>
loopVars  == <<pc, deadline, budget, cur, got>>
stopVars  == <<stopReq, stopPc, restarted>>
fdVars    == <<reg, m_fdCallbacks, arrived, data, edge, fresh>>
vars == <<setup, clock, queueVars, timerVars, loopVars, stopVars, evt, toSignal, fdVars, posted, ran>>

Init ==
    /\ \E l \in Loops : kind = l[1] /\ used = l[2]
    /\ clock = 0
    /\ m_queue = [i \in Items |-> 0] /\ m_stopped = FALSE
    /\ next = [t \in Timers |-> Never] /\ added = [t \in Timers |-> "no"]
    /\ fired = [t \in Timers |-> 0] /\ cancelled = {}
    /\ pc = "top" /\ deadline = 0 /\ budget = 0 /\ cur = NoTask /\ got = {}
    /\ stopReq = FALSE /\ stopPc = "no" /\ restarted = FALSE
    /\ evt = FALSE /\ toSignal = 0
    /\ reg = [f \in FDs |-> "no"] /\ m_fdCallbacks = {}
    /\ arrived = [f \in FDs |-> 0] /\ data = {} /\ edge = {} /\ fresh = {}
    /\ posted = {} /\ ran = {}

(* Time that no timer and no heartbeat looks at is left out. *)
Tick ==
    /\ kind = "async" \/ used \cap Timers # {}
    /\ clock < MaxTime /\ clock' = clock + 1
    /\ UNCHANGED <<setup, queueVars, timerVars, loopVars, stopVars, evt, toSignal, fdVars, posted, ran>>

-----------------------------------------------------------------------------
(* TaskQueue: post() is dropped once stopped; take() returns an item of the  *)
(* best priority, any of those that share it.                                *)
QueueEmpty == \A i \in Items : m_queue[i] = 0
Put(s) == IF m_stopped THEN m_queue ELSE [i \in Items |-> m_queue[i] + IF i \in s THEN 1 ELSE 0]
PrioOf(i) == IF i \in Tasks THEN Prio[i] ELSE 0
Tops == LET here == {i \in Items : m_queue[i] > 0}
        IN  {i \in here : \A j \in here : PrioOf(i) <= PrioOf(j)}
Without(i) == [m_queue EXCEPT ![i] = @ - 1]

(* Mutant: JobIoAsyncThread inherits post() as it is. *)
Signals_None(n) == 0

(* The virtual post(): JobIoAsyncThread then writes the eventfd. *)
Signals(n) == IF kind = "io" THEN n ELSE 0

Signal ==
    /\ toSignal > 0 /\ toSignal' = toSignal - 1 /\ evt' = TRUE
    /\ UNCHANGED <<setup, clock, queueVars, timerVars, loopVars, stopVars, fdVars, posted, ran>>

Post(x) ==
    /\ x \in (Tasks \cap used) \ posted
    /\ posted' = posted \cup {x} /\ m_queue' = Put({x}) /\ toSignal' = toSignal + Signals(1)
    /\ UNCHANGED <<setup, clock, m_stopped, timerVars, loopVars, stopVars, evt, fdVars, ran>>

(* addTimer(): the timer, then an empty task straight into the queue. *)
AddTimer(t) ==
    /\ t \in used /\ added[t] = "no"
    /\ added' = [added EXCEPT ![t] = "pushed"] /\ next' = [next EXCEPT ![t] = clock + Interval[t]]
    /\ UNCHANGED <<setup, clock, queueVars, fired, cancelled, loopVars, stopVars, evt, toSignal, fdVars, posted, ran>>

(* Mutant: the thread is left asleep *)
AddTimerWake_Quiet(t) ==
    /\ added[t] = "pushed" /\ added' = [added EXCEPT ![t] = "yes"]
    /\ UNCHANGED <<setup, clock, queueVars, next, fired, cancelled, loopVars, stopVars, evt, toSignal, fdVars, posted, ran>>

AddTimerWake(t) ==
    /\ added[t] = "pushed" /\ added' = [added EXCEPT ![t] = "yes"]
    /\ m_queue' = Put({NoTask})
    /\ UNCHANGED <<setup, clock, m_stopped, next, fired, cancelled, loopVars, stopVars, evt, toSignal, fdVars, posted, ran>>

(* cancelTimer() that finds the timer; the post is made under m_timerMutex. *)
CancelTimer(t) ==
    /\ added[t] = "yes" /\ next[t] # Never /\ t \notin cancelled
    /\ next' = [next EXCEPT ![t] = Never] /\ cancelled' = cancelled \cup {t}
    /\ m_queue' = Put({NoTask}) /\ toSignal' = toSignal + Signals(1)
    /\ UNCHANGED <<setup, clock, m_stopped, added, fired, loopVars, stopVars, evt, fdVars, posted, ran>>

-----------------------------------------------------------------------------
(* registerFD(), modifyFD(), unregisterFD(): the epoll set, then the table   *)
(* of callbacks, then an empty task.  An edge is raised by data that arrives *)
(* or is there when the descriptor is added or modified.                     *)
Watched(f) == reg[f] \in {"added", "stored", "yes", "mod"}
RaiseEdge(f) == edge \cup (data \cap {f})

RegisterAdd(f) ==
    /\ f \in used /\ reg[f] = "no"
    /\ reg' = [reg EXCEPT ![f] = "added"] /\ edge' = RaiseEdge(f)
    /\ UNCHANGED <<setup, clock, queueVars, timerVars, loopVars, stopVars, evt, toSignal, m_fdCallbacks, arrived, data, fresh, posted, ran>>

RegisterStore(f) ==
    /\ reg[f] = "added"
    /\ reg' = [reg EXCEPT ![f] = "stored"] /\ m_fdCallbacks' = m_fdCallbacks \cup {f}
    /\ UNCHANGED <<setup, clock, queueVars, timerVars, loopVars, stopVars, evt, toSignal, arrived, data, edge, fresh, posted, ran>>

ModifyFD(f) ==
    /\ reg[f] = "yes" /\ f \in m_fdCallbacks
    /\ reg' = [reg EXCEPT ![f] = "mod"] /\ edge' = RaiseEdge(f)
    /\ m_queue' = Put({NoTask}) /\ toSignal' = toSignal + 1
    /\ UNCHANGED <<setup, clock, m_stopped, timerVars, loopVars, stopVars, evt, m_fdCallbacks, arrived, data, fresh, posted, ran>>

UnregisterDel(f) ==
    /\ reg[f] \in {"yes", "mod"}
    /\ reg' = [reg EXCEPT ![f] = "deleted"] /\ edge' = edge \ {f}
    /\ UNCHANGED <<setup, clock, queueVars, timerVars, loopVars, stopVars, evt, toSignal, m_fdCallbacks, arrived, data, fresh, posted, ran>>

(* the post() that ends registerFD(), and the erase and post() that end unregisterFD() *)
RegisterDone(f) ==
    /\ \/ reg[f] = "stored" /\ reg' = [reg EXCEPT ![f] = "yes"] /\ UNCHANGED m_fdCallbacks
       \/ reg[f] = "deleted" /\ reg' = [reg EXCEPT ![f] = "gone"] /\ m_fdCallbacks' = m_fdCallbacks \ {f}
    /\ m_queue' = Put({NoTask}) /\ toSignal' = toSignal + 1
    /\ UNCHANGED <<setup, clock, m_stopped, timerVars, loopVars, stopVars, evt, arrived, data, edge, fresh, posted, ran>>

(* the descriptor becomes readable *)
Arrive(f) ==
    /\ f \in used /\ arrived[f] < MaxData
    /\ arrived' = [arrived EXCEPT ![f] = @ + 1] /\ data' = data \cup {f}
    /\ edge' = IF Watched(f) THEN edge \cup {f} ELSE edge
    /\ fresh' = IF f \in m_fdCallbacks /\ Watched(f) THEN fresh \cup {f} ELSE fresh
    /\ UNCHANGED <<setup, clock, queueVars, timerVars, loopVars, stopVars, evt, toSignal, reg, m_fdCallbacks, posted, ran>>

-----------------------------------------------------------------------------
(* The loop's thread. *)
Exit == pc' = "exited" /\ UNCHANGED <<deadline, budget, cur, got>>
NextWakeup == Min({next[t] : t \in Timers} \cup {Never})

(* A callback runs; the callback of a descriptor reads until nothing is left. *)
RunItem(i) ==
    /\ ran' = IF i \in Tasks THEN ran \cup {i} ELSE ran
    /\ fired' = IF i \in Timers THEN [fired EXCEPT ![i] = @ + 1] ELSE fired
    /\ data' = data \ {i} /\ fresh' = fresh \ {i}

Top ==
    /\ pc = "top"
    /\ \/ stopReq /\ Exit
       \/ /\ ~stopReq
          /\ pc' = IF kind = "io" THEN "timers" ELSE "take"
          /\ deadline' = IF kind = "io" THEN 0 ELSE IF NextWakeup # Never THEN NextWakeup
                         ELSE IF QueueEmpty THEN clock + Heartbeat ELSE clock
          /\ UNCHANGED <<budget, cur, got>>
    /\ UNCHANGED <<setup, clock, queueVars, timerVars, stopVars, evt, toSignal, fdVars, posted, ran>>

(* AsyncEventLoop: take(next_wakeup); a task taken as the stop comes is lost. *)
Take ==
    /\ pc = "take" /\ (~QueueEmpty \/ m_stopped \/ clock >= deadline)
    /\ \/ QueueEmpty /\ cur' = NoTask /\ UNCHANGED m_queue
       \/ \E i \in Tops : cur' = i /\ m_queue' = Without(i)
    /\ pc' = "got" /\ deadline' = 0
    /\ UNCHANGED <<setup, clock, m_stopped, timerVars, budget, got, stopVars, evt, toSignal, fdVars, posted, ran>>

Got ==
    /\ pc = "got"
    /\ \/ stopReq /\ Exit /\ UNCHANGED <<fired, data, fresh, ran>>
       \/ ~stopReq /\ RunItem(cur) /\ pc' = "timers" /\ cur' = NoTask /\ UNCHANGED <<deadline, budget, got>>
    /\ UNCHANGED <<setup, clock, queueVars, next, added, cancelled, stopVars, evt, toSignal, reg, m_fdCallbacks, arrived, edge, posted>>

(* Mutant: a one-shot timer stays active. *)
ProcessTimers_Again ==
    LET due == {t \in Timers : next[t] <= clock} IN
    /\ pc = "timers" /\ pc' = "tasks" /\ budget' = Batch
    /\ m_queue' = Put(due) /\ evt' = (evt \/ (kind = "io" /\ due # {}))
    /\ next' = [t \in Timers |-> IF t \in due THEN clock + Interval[t] ELSE next[t]]
    /\ UNCHANGED <<setup, clock, m_stopped, added, fired, cancelled, deadline, cur, got, stopVars, toSignal, fdVars, posted, ran>>

(* Mutant: a timer that expires at this very instant is dropped, not posted. *)
ProcessTimers_Late ==
    LET due == {t \in Timers : next[t] <= clock}
        late == {t \in due : next[t] < clock} IN
    /\ pc = "timers" /\ pc' = "tasks" /\ budget' = Batch
    /\ m_queue' = Put(late) /\ evt' = (evt \/ (kind = "io" /\ late # {}))
    /\ next' = [t \in Timers |-> IF t \notin due THEN next[t]
                                 ELSE IF t \in Repeating THEN clock + Interval[t] ELSE Never]
    /\ UNCHANGED <<setup, clock, m_stopped, added, fired, cancelled, deadline, cur, got, stopVars, toSignal, fdVars, posted, ran>>

(* processTimers(): every expired timer is posted, then re-armed or dropped. *)
ProcessTimers ==
    LET due == {t \in Timers : next[t] <= clock} IN
    /\ pc = "timers" /\ pc' = "tasks" /\ budget' = Batch
    /\ m_queue' = Put(due) /\ evt' = (evt \/ (kind = "io" /\ due # {}))
    /\ next' = [t \in Timers |-> IF t \notin due THEN next[t]
                                 ELSE IF t \in Repeating THEN clock + Interval[t] ELSE Never]
    /\ UNCHANGED <<setup, clock, m_stopped, added, fired, cancelled, deadline, cur, got, stopVars, toSignal, fdVars, posted, ran>>

(* processTasks(): up to Batch tasks, without waiting. *)
ProcessTask ==
    /\ pc = "tasks" /\ budget > 0 /\ ~QueueEmpty
    /\ \E i \in Tops : RunItem(i) /\ m_queue' = Without(i)
    /\ budget' = budget - 1
    /\ UNCHANGED <<setup, clock, m_stopped, next, added, cancelled, pc, deadline, cur, got, stopVars, evt, toSignal, reg, m_fdCallbacks, arrived, edge, posted>>

(* Mutant: a JobIoAsyncThread sleeps although the batch left tasks behind. *)
TasksDone_Sleep ==
    /\ pc = "tasks" /\ (budget = 0 \/ QueueEmpty)
    /\ pc' = IF kind = "io" THEN "wait" ELSE "top"
    /\ deadline' = IF kind = "async" THEN 0 ELSE NextWakeup
    /\ budget' = 0
    /\ UNCHANGED <<setup, clock, queueVars, timerVars, cur, got, stopVars, evt, toSignal, fdVars, posted, ran>>

TasksDone ==
    /\ pc = "tasks" /\ (budget = 0 \/ QueueEmpty)
    /\ pc' = IF kind = "io" THEN "wait" ELSE "top"
    /\ deadline' = IF kind = "async" THEN 0 ELSE IF QueueEmpty THEN NextWakeup ELSE clock
    /\ budget' = 0
    /\ UNCHANGED <<setup, clock, queueVars, timerVars, cur, got, stopVars, evt, toSignal, fdVars, posted, ran>>

(* JobIoAsyncThread: epoll_wait(), descriptors edge-triggered.  The eventfd is *)
(* NoTask among the events.                                                    *)
EpollWait ==
    /\ pc = "wait" /\ (evt \/ edge # {} \/ (deadline # Never /\ clock >= deadline))
    /\ got' = edge \cup (IF evt THEN {NoTask} ELSE {})
    /\ edge' = {} /\ pc' = "events" /\ deadline' = 0
    /\ UNCHANGED <<setup, clock, queueVars, timerVars, budget, cur, stopVars, evt, toSignal, reg, m_fdCallbacks, arrived, data, fresh, posted, ran>>

(* Mutant: the eventfd is emptied, but its tasks are left for the next wake-up. *)
ProcessIOEvents_NoPost ==
    /\ pc = "events" /\ ~stopReq
    /\ pc' = "top" /\ got' = {} /\ evt' = FALSE
    /\ UNCHANGED <<setup, clock, queueVars, timerVars, deadline, budget, cur, stopVars, toSignal, fdVars, posted, ran>>

(* processIOEvents(): the eventfd is read empty, then each callback posted. *)
ProcessIOEvents ==
    /\ pc = "events"
    /\ \/ stopReq /\ Exit /\ UNCHANGED <<m_queue, evt>>
       \/ /\ ~stopReq
          /\ LET calls == got \cap m_fdCallbacks IN
              /\ m_queue' = Put(calls)
              /\ evt' = ((evt /\ NoTask \notin got) \/ calls # {})
          /\ pc' = "top" /\ got' = {} /\ UNCHANGED <<deadline, budget, cur>>
    /\ UNCHANGED <<setup, clock, m_stopped, timerVars, stopVars, toSignal, fdVars, posted, ran>>

-----------------------------------------------------------------------------
(* stop() by another thread, and start() once it has returned. *)
StopStep(from, to) == stopPc = from /\ stopPc' = to
StopRequest ==
    /\ Stop \in used /\ StopStep("no", "clear") /\ stopReq' = TRUE
    /\ UNCHANGED <<setup, clock, queueVars, timerVars, loopVars, restarted, evt, toSignal, fdVars, posted, ran>>

StopClear ==
    /\ StopStep("clear", "queue")
    /\ next' = [t \in Timers |-> Never]
    /\ m_fdCallbacks' = {}
    /\ UNCHANGED <<setup, clock, queueVars, added, fired, cancelled, loopVars, stopReq, restarted, evt, toSignal, reg, arrived, data, edge, fresh, posted, ran>>

(* Mutant: stop() leaves the eventfd alone. *)
StopQueue_NoSignal ==
    /\ StopStep("queue", "join") /\ m_stopped' = TRUE
    /\ UNCHANGED <<setup, clock, m_queue, timerVars, loopVars, stopReq, restarted, evt, toSignal, fdVars, posted, ran>>

StopQueue ==
    /\ StopStep("queue", "join") /\ m_stopped' = TRUE /\ toSignal' = toSignal + Signals(1)
    /\ UNCHANGED <<setup, clock, m_queue, timerVars, loopVars, stopReq, restarted, evt, fdVars, posted, ran>>

StopJoin ==
    /\ StopStep("join", "done") /\ pc = "exited"
    /\ UNCHANGED <<setup, clock, queueVars, timerVars, loopVars, stopReq, restarted, evt, toSignal, fdVars, posted, ran>>

(* start(): a new thread with a new stop token; the queue stays stopped. *)
Restart ==
    /\ StopStep("done", "no") /\ ~restarted /\ restarted' = TRUE
    /\ stopReq' = FALSE /\ pc' = "top"
    /\ UNCHANGED <<setup, clock, queueVars, timerVars, deadline, budget, cur, got, evt, toSignal, fdVars, posted, ran>>

-----------------------------------------------------------------------------
Thread == Top \/ Take \/ Got \/ ProcessTimers \/ ProcessTask \/ TasksDone \/ EpollWait \/ ProcessIOEvents
Continue ==
    \/ Signal \/ StopClear \/ StopQueue \/ StopJoin
    \/ \E t \in Timers : AddTimerWake(t)
    \/ \E f \in FDs : RegisterStore(f) \/ RegisterDone(f)
Call ==
    \/ \E x \in Tasks : Post(x)
    \/ \E t \in Timers : AddTimer(t) \/ CancelTimer(t)
    \/ \E f \in FDs : RegisterAdd(f) \/ ModifyFD(f) \/ UnregisterDel(f) \/ Arrive(f)
    \/ StopRequest \/ Restart
Next == Tick \/ Thread \/ Continue \/ Call

(* The loop's thread is scheduled, time passes, calls that were begun go on. *)
Spec == Init /\ [][Next]_vars /\ WF_vars(Thread) /\ WF_vars(Tick) /\ WF_vars(Signal)
             /\ WF_vars(StopClear \/ StopQueue \/ StopJoin)
             /\ \A t \in Timers : WF_vars(AddTimerWake(t))
             /\ \A f \in FDs : WF_vars(RegisterStore(f) \/ RegisterDone(f))

-----------------------------------------------------------------------------
TypeOK ==
    /\ clock \in 0..MaxTime /\ m_queue \in [Items -> Nat] /\ toSignal \in Nat
    /\ next \in [Timers -> 1..Never] /\ fired \in [Timers -> Nat] /\ cancelled \subseteq Timers
    /\ pc \in {"top", "take", "got", "timers", "tasks", "wait", "events", "exited"}
    /\ stopPc \in {"no", "clear", "queue", "join", "done"} /\ m_fdCallbacks \subseteq FDs
    /\ edge \subseteq FDs /\ fresh \subseteq FDs /\ budget \in 0..Batch

(* A one-shot timer runs at most once, and not at all once cancelTimer() has *)
(* returned true; a repeating one runs no more often than time allows.  And  *)
(* no timer is lost but to cancelTimer() or stop(): one that was added is    *)
(* set, or a run of it is queued, in hand or done.                           *)
TimerDiscipline ==
    \A t \in Timers :
        /\ IF t \in Repeating THEN fired[t] * Interval[t] <= clock
           ELSE fired[t] + m_queue[t] <= 1 /\ (t \in cancelled => fired[t] + m_queue[t] = 0)
        /\ \/ added[t] = "no" \/ t \in cancelled \/ stopReq \/ m_stopped
           \/ next[t] # Never \/ fired[t] + m_queue[t] > 0 \/ cur = t

(* An AsyncEventLoop does not sleep past a timer that is set, however long   *)
(* it had meant to: the deadline is not after it, or the empty task that     *)
(* ends the sleep is queued or about to be.                                  *)
TimersShortenSleep ==
    kind = "async" /\ pc = "take" =>
        \A t \in Timers : deadline <= next[t] \/ ~QueueEmpty \/ added[t] = "pushed" \/ m_stopped

(* A JobIoAsyncThread never sleeps on a queued task without an eventfd write *)
(* that has happened or is about to, except for the empty task of addTimer().*)
QueuedMeansAwake ==
    kind = "io" /\ pc = "wait" /\ (\E i \in Items \ {NoTask} : m_queue[i] > 0)
        => evt \/ toSignal > 0 \/ clock >= deadline

(* Every task posted to a loop that is not stopped runs. *)
PostedRuns == \A x \in Tasks : (m_queue[x] > 0) ~> (x \in ran \/ stopReq)

(* What arrives once registerFD() has stored the callback is read, whatever  *)
(* other events, registrations and posts go on, until the descriptor is      *)
(* unregistered or the loop stopped.                                         *)
ArrivalsServed ==
    \A f \in FDs : (f \in fresh) ~> (f \notin fresh \/ reg[f] \in {"deleted", "gone"} \/ stopReq \/ m_stopped)

(* stop() returns. *)
StopReturns == (stopPc = "clear") ~> (stopPc = "done")

(* The comment at addTimer() says of its empty task "Wake up sleepy head":   *)
(* the timers of a JobIoAsyncThread fire too.                                *)
IoTimerFires ==
    \A t \in Timers : (kind = "io" /\ next[t] <= MaxTime)
                          ~> (fired[t] > 0 \/ t \in cancelled \/ stopReq \/ m_stopped)
=============================================================================
