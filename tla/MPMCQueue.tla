------------------------------ MODULE MPMCQueue ------------------------------
(***************************************************************************)
(* JobBoundedMPMCQueue<T>: a deque under a mutex with two condition        *)
(* variables.  Each critical section is one step: it evaluates the wait    *)
(* predicate and either goes to sleep or does its work and unlocks.  The   *)
(* notification that follows the unlock is a step of its own (close()      *)
(* notifies before it unlocks).                                            *)
(***************************************************************************)
EXTENDS Naturals, Sequences, FiniteSets

CONSTANTS
    Clients,    \* threads that use the queue
    Values,     \* what they push
    NoValue,    \* the argument of a pop
    m_cap       \* the capacity

ASSUME QueueAssumption == IsFiniteSet(Clients) /\ m_cap \in Nat \ {0} /\ NoValue \notin Values

VARIABLES
    m_deque, m_closed,
    pc,         \* per client: see PC
    op, arg,    \* per client: the member function it is in, push's argument
    res         \* per client: <<value>> when the operation succeeded, << >> when it failed

vars == <<m_deque, m_closed, pc, op, arg, res>>

PC == {"idle", "enter", "sleep", "notify", "done"}
Requests == ({"pop", "tryPop"} \X {NoValue}) \cup ({"push", "tryPush"} \X Values)
Poppers == {"pop", "tryPop"}

TypeOK ==
    /\ m_deque \in Seq(Values) /\ Len(m_deque) <= m_cap
    /\ m_closed \in BOOLEAN
    /\ pc \in [Clients -> PC]
    /\ op \in [Clients -> {"none", "pop", "push", "tryPop", "tryPush"}]
    /\ arg \in [Clients -> Values \cup {NoValue}]
    /\ res \in [Clients -> Seq(Values)]

Init ==
    /\ m_deque = << >> /\ m_closed = FALSE
    /\ pc = [c \in Clients |-> "idle"]
    /\ op = [c \in Clients |-> "none"]
    /\ arg = [c \in Clients |-> NoValue]
    /\ res = [c \in Clients |-> << >>]

-----------------------------------------------------------------------------
Call(c, o, v) ==
    /\ pc[c] = "idle"
    /\ pc' = [pc EXCEPT ![c] = "enter"]
    /\ op' = [op EXCEPT ![c] = o] /\ arg' = [arg EXCEPT ![c] = v]
    /\ UNCHANGED <<m_deque, m_closed, res>>

(* Leave the critical section for pc p with result r. *)
Leave(c, p, r) ==
    /\ pc' = [pc EXCEPT ![c] = p]
    /\ res' = [res EXCEPT ![c] = r]
    /\ UNCHANGED <<m_closed, op, arg>>

Take(c) == m_deque' = Tail(m_deque) /\ Leave(c, "notify", <<Head(m_deque)>>)
Put(c)  == m_deque' = Append(m_deque, arg[c]) /\ Leave(c, "notify", <<arg[c]>>)
Fail(c) == Leave(c, "done", << >>) /\ UNCHANGED m_deque
Wait(c) == pc' = [pc EXCEPT ![c] = "sleep"] /\ UNCHANGED <<m_deque, m_closed, op, arg, res>>

Pop(c) ==
    /\ pc[c] = "enter" /\ op[c] = "pop"
    /\ \/ m_deque # << >> /\ Take(c)
       \/ m_deque = << >> /\ m_closed /\ Fail(c)
       \/ m_deque = << >> /\ ~m_closed /\ Wait(c)

Push(c) ==
    /\ pc[c] = "enter" /\ op[c] = "push"
    /\ \/ m_closed /\ Fail(c)
       \/ ~m_closed /\ Len(m_deque) < m_cap /\ Put(c)
       \/ ~m_closed /\ Len(m_deque) >= m_cap /\ Wait(c)

(* Mutant: a pop that does not block forgets to notify. *)
TryPop_Silent(c) ==
    /\ pc[c] = "enter" /\ op[c] = "tryPop"
    /\ \/ m_deque # << >> /\ m_deque' = Tail(m_deque) /\ Leave(c, "done", <<Head(m_deque)>>)
       \/ m_deque = << >> /\ Fail(c)

TryPop(c) ==
    /\ pc[c] = "enter" /\ op[c] = "tryPop"
    /\ \/ m_deque # << >> /\ Take(c)
       \/ m_deque = << >> /\ Fail(c)

TryPush(c) ==
    /\ pc[c] = "enter" /\ op[c] = "tryPush"
    /\ \/ ~m_closed /\ Len(m_deque) < m_cap /\ Put(c)
       \/ (m_closed \/ Len(m_deque) >= m_cap) /\ Fail(c)

(* The sleepers on m_not_empty and on m_not_full. *)
NotEmptySleepers == {c \in Clients : pc[c] = "sleep" /\ op[c] = "pop"}
NotFullSleepers  == {c \in Clients : pc[c] = "sleep" /\ op[c] = "push"}

(* Mutant: one condition variable serves both kinds of waiters. *)
Notify_OneCv(c) ==
    /\ pc[c] = "notify"
    /\ LET sleepers == NotFullSleepers \cup NotEmptySleepers
       IN  IF sleepers = {} THEN pc' = [pc EXCEPT ![c] = "done"]
           ELSE \E d \in sleepers : pc' = [pc EXCEPT ![c] = "done", ![d] = "enter"]
    /\ UNCHANGED <<m_deque, m_closed, op, arg, res>>

(* notify_one() on the condition variable the operation's counterpart waits on. *)
Notify(c) ==
    /\ pc[c] = "notify"
    /\ LET sleepers == IF op[c] \in Poppers THEN NotFullSleepers ELSE NotEmptySleepers
       IN  IF sleepers = {} THEN pc' = [pc EXCEPT ![c] = "done"]
           ELSE \E d \in sleepers : pc' = [pc EXCEPT ![c] = "done", ![d] = "enter"]
    /\ UNCHANGED <<m_deque, m_closed, op, arg, res>>

Return(c) ==
    /\ pc[c] = "done"
    /\ pc' = [pc EXCEPT ![c] = "idle"]
    /\ op' = [op EXCEPT ![c] = "none"] /\ arg' = [arg EXCEPT ![c] = NoValue]
    /\ res' = [res EXCEPT ![c] = << >>]
    /\ UNCHANGED <<m_deque, m_closed>>

SpuriousWake(c) ==
    /\ pc[c] = "sleep"
    /\ pc' = [pc EXCEPT ![c] = "enter"]
    /\ UNCHANGED <<m_deque, m_closed, op, arg, res>>

Close ==
    /\ m_closed' = TRUE
    /\ pc' = [c \in Clients |-> IF pc[c] = "sleep" THEN "enter" ELSE pc[c]]
    /\ UNCHANGED <<m_deque, op, arg, res>>

Step(c) == Pop(c) \/ Push(c) \/ TryPop(c) \/ TryPush(c) \/ Notify(c) \/ Return(c)

Next ==
    \/ \E c \in Clients : \E r \in Requests : Call(c, r[1], r[2])
    \/ \E c \in Clients : Step(c)
    \/ \E c \in Clients : SpuriousWake(c)
    \/ Close

(* Threads run; nobody has to call, to close the queue or to be woken for no reason. *)
Fairness == \A c \in Clients : WF_vars(Step(c))

Spec == Init /\ [][Next]_vars
FairSpec == Spec /\ Fairness

-----------------------------------------------------------------------------
(* Properties *)

(* No wake-up is lost: while a thread sleeps in pop(), each queued value has a popper    *)
(* awake to take it or a notification on its way; while a thread sleeps in push(), the   *)
(* same holds for each free slot; and nobody sleeps in a closed queue.                   *)
NoLostWakeup ==
    /\ NotEmptySleepers # {} =>
         Len(m_deque) <= Cardinality({c \in Clients : pc[c] = "enter" /\ op[c] = "pop"})
                       + Cardinality({c \in Clients : pc[c] = "notify" /\ op[c] \notin Poppers})
    /\ NotFullSleepers # {} =>
         m_cap - Len(m_deque) <= Cardinality({c \in Clients : pc[c] = "enter" /\ op[c] = "push"})
                               + Cardinality({c \in Clients : pc[c] = "notify" /\ op[c] \in Poppers})
    /\ m_closed => \A c \in Clients : pc[c] # "sleep"

(* The queue is a linearizable bounded FIFO buffer: its operations take effect atomically *)
(* in the order of the critical sections, with BoundedQueue's results and its progress.   *)
St(p) == CASE p \in {"enter", "sleep"} -> "pending" [] p \in {"notify", "done"} -> "done" [] p = "idle" -> "idle"
Abstract == INSTANCE BoundedQueue WITH Cap <- m_cap, deque <- m_deque, closed <- m_closed,
                                       st <- [c \in Clients |-> St(pc[c])]
ImplementsBoundedQueue == Abstract!FairSpec

=============================================================================
