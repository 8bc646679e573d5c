---------------------------- MODULE QueueProofs ----------------------------
(***************************************************************************)
(* The two bounded queues.                                                 *)
(*                                                                         *)
(* JobBoundedMPMCQueue for any number of threads, any capacity and values: *)
(* no wake-up is lost although notify_one() is called after the unlock,    *)
(* and every operation is one atomic step of a bounded FIFO buffer.        *)
(*                                                                         *)
(* Then the shared memory ring for every capacity, every mix of lengths    *)
(* and every death.  NoLostPost holds whatever sizes the writers ask for;  *)
(* what the ring holds is proved for writers that agree on the size, which *)
(* is what the code needs: a writer that asks for another size truncates   *)
(* the object under a header it does not rewrite.                          *)
(***************************************************************************)
EXTENDS MPMCQueue, SharedMemory, SequenceTheorems, FiniteSetTheorems, TLAPS


(* A thread in push() or tryPush() has a value to push.                      *)
Arguments == \A c \in Clients : op[c] \in {"push", "tryPush"} => arg[c] \in Values

QueueTypes == TypeOK /\ Arguments

LEMMA TypeKeeps ==
    ASSUME QueueTypes, [Next]_vars
    PROVE  QueueTypes'
<1> USE DEF QueueTypes, TypeOK, Arguments, PC
<1>1. ASSUME NEW c \in Clients, NEW r \in Requests, Call(c, r[1], r[2]) PROVE QueueTypes'
  BY <1>1, QueueAssumption DEF Call, Requests, QueueAssumption
<1>0. << >> \in Seq(Values) /\ Len(<< >>) = 0
  OBVIOUS
<1>2. ASSUME NEW c \in Clients, Take(c), m_deque # << >> PROVE QueueTypes'
  <2>1. /\ Tail(m_deque) \in Seq(Values) /\ Len(Tail(m_deque)) <= m_cap /\ <<Head(m_deque)>> \in Seq(Values)
    BY <1>2, QueueAssumption DEF QueueAssumption
  <2> QED
    BY <1>2, <2>1 DEF Take, Leave
<1>3. ASSUME NEW c \in Clients, Put(c), op[c] \in {"push", "tryPush"}, Len(m_deque) < m_cap PROVE QueueTypes'
  <2>1. /\ Append(m_deque, arg[c]) \in Seq(Values) /\ Len(Append(m_deque, arg[c])) <= m_cap
        /\ <<arg[c]>> \in Seq(Values)
    BY <1>3, QueueAssumption DEF QueueAssumption
  <2> QED
    BY <1>3, <2>1 DEF Put, Leave
<1>8. ASSUME NEW c \in Clients, Fail(c) \/ Wait(c) PROVE QueueTypes'
  BY <1>0, <1>8 DEF Fail, Wait, Leave
<1>4. ASSUME NEW c \in Clients, Notify(c) PROVE QueueTypes'
  BY <1>4 DEF Notify, NotFullSleepers, NotEmptySleepers
<1>5. ASSUME NEW c \in Clients, Return(c) \/ SpuriousWake(c) PROVE QueueTypes'
  BY <1>0, <1>5 DEF Return, SpuriousWake
<1>6. CASE Close
  BY <1>6 DEF Close
<1>7. CASE UNCHANGED vars
  BY <1>7 DEF vars
<1> QED
  BY <1>1, <1>2, <1>3, <1>4, <1>5, <1>6, <1>7, <1>8 DEF Next, Step, Pop, Push, TryPop, TryPush

LEMMA InitTypes == Init => QueueTypes
<1> SUFFICES ASSUME Init PROVE QueueTypes
  OBVIOUS
<1>1. m_deque \in Seq(Values) /\ Len(m_deque) <= m_cap
  BY QueueAssumption DEF Init, QueueAssumption
<1>2. \A c \in Clients : res[c] \in Seq(Values)
  BY DEF Init
<1>3. res \in [Clients -> Seq(Values)]
  BY <1>2 DEF Init
<1>4. Arguments
  BY DEF Init, Arguments
<1> QED
  BY <1>1, <1>3, <1>4 DEF Init, QueueTypes, TypeOK, PC

LEMMA TypeInvariant == Spec => []QueueTypes
BY InitTypes, TypeKeeps, PTL DEF Spec

(* The buffer holds at most its capacity, of the values pushed.              *)
THEOREM TypeCorrect == Spec => []TypeOK
<1>1. QueueTypes => TypeOK
  BY DEF QueueTypes
<1> QED
  BY <1>1, TypeInvariant, PTL

-----------------------------------------------------------------------------
(* The refinement: an operation takes effect in its critical section; going  *)
(* to sleep, being woken and notifying are not seen.                         *)
Stage == [c \in Clients |-> St(pc[c])]

LEMMA StageIs ==
    ASSUME QueueTypes
    PROVE  \A c \in Clients : /\ pc[c] \in {"enter", "sleep"} <=> Stage[c] = "pending"
                              /\ pc[c] \in {"notify", "done"} <=> Stage[c] = "done"
                              /\ pc[c] = "idle" <=> Stage[c] = "idle"
BY DEF QueueTypes, TypeOK, PC, Stage, St

(* A step of one thread that takes it to pc p.                               *)
LEMMA StageMoves ==
    ASSUME QueueTypes, NEW c \in Clients, NEW p \in PC, pc' = [pc EXCEPT ![c] = p]
    PROVE  Stage' = [Stage EXCEPT ![c] = St(p)]
BY DEF QueueTypes, TypeOK, Stage

LEMMA StepImplements ==
    ASSUME QueueTypes, [Next]_vars
    PROVE  [Abstract!Next]_(Abstract!vars)
<1> USE DEF QueueTypes, TypeOK
<1>0. St("enter") = "pending" /\ St("sleep") = "pending" /\ St("notify") = "done" /\ St("done") = "done" /\ St("idle") = "idle"
  BY DEF St
<1>1. ASSUME NEW c \in Clients, NEW r \in Requests, Call(c, r[1], r[2]) PROVE Abstract!Next
  <2>1. Stage[c] = "idle" /\ Stage' = [Stage EXCEPT ![c] = "pending"]
    BY <1>0, <1>1, StageIs, StageMoves DEF Call, PC
  <2>2. Abstract!Call(c, r[1], r[2])
    BY <1>1, <2>1 DEF Call, Abstract!Call, Stage
  <2>3. r \in Abstract!Requests
    BY DEF Requests, Abstract!Requests
  <2> QED
    BY <2>2, <2>3 DEF Abstract!Next
<1>2. ASSUME NEW c \in Clients, NEW p \in {"notify", "done"}, pc[c] = "enter", NEW r, Leave(c, p, r)
      PROVE  Abstract!Finish(c, r)
  <2>1. Stage[c] = "pending" /\ Stage' = [Stage EXCEPT ![c] = "done"]
    BY <1>0, <1>2, StageIs, StageMoves DEF Leave, PC
  <2> QED
    BY <1>2, <2>1 DEF Leave, Abstract!Finish, Stage
<1>3. ASSUME NEW c \in Clients, pc[c] = "enter", op[c] \in {"pop", "tryPop"}, m_deque # << >>, Take(c) PROVE Abstract!Next
  BY <1>2, <1>3 DEF Take, Abstract!Popped, Abstract!Next
<1>4. ASSUME NEW c \in Clients, pc[c] = "enter", op[c] \in {"push", "tryPush"}, ~m_closed, Len(m_deque) < m_cap, Put(c)
      PROVE  Abstract!Next
  BY <1>2, <1>4 DEF Put, Abstract!Pushed, Abstract!Next
<1>5. ASSUME NEW c \in Clients, Fail(c), pc[c] = "enter",
             \/ op[c] = "pop" /\ m_closed /\ m_deque = << >>
             \/ op[c] = "tryPop" /\ m_deque = << >>
             \/ op[c] = "push" /\ m_closed
             \/ op[c] = "tryPush" /\ (m_closed \/ Len(m_deque) >= m_cap)
      PROVE  Abstract!Next
  BY <1>2, <1>5 DEF Fail, Abstract!Failed, Abstract!Next
<1>6. ASSUME NEW c \in Clients, Return(c) PROVE Abstract!Next
  <2>1. Stage[c] = "done" /\ Stage' = [Stage EXCEPT ![c] = "idle"]
    BY <1>0, <1>6, StageIs, StageMoves DEF Return, PC
  <2> QED
    BY <1>6, <2>1 DEF Return, Abstract!Return, Abstract!Next, Stage
<1>7. CASE Close
  <2>1. Stage' = Stage
    BY <1>0, <1>7 DEF Close, Stage
  <2> QED
    BY <1>7, <2>1 DEF Close, Abstract!Close, Abstract!Next, Stage
<1>8. ASSUME UNCHANGED <<m_deque, m_closed, op, arg, res>>,
             \A c \in Clients : St(pc'[c]) = St(pc[c])
      PROVE  UNCHANGED Abstract!vars
  BY <1>8 DEF Abstract!vars
<1>9. ASSUME NEW c \in Clients, (Wait(c) /\ pc[c] = "enter") \/ SpuriousWake(c) PROVE UNCHANGED Abstract!vars
  BY <1>0, <1>8, <1>9 DEF Wait, SpuriousWake
<1>10. ASSUME NEW c \in Clients, Notify(c) PROVE UNCHANGED Abstract!vars
  BY <1>0, <1>8, <1>10 DEF Notify, NotFullSleepers, NotEmptySleepers
<1>11. CASE UNCHANGED vars
  BY <1>8, <1>11 DEF vars
<1> QED
  BY <1>1, <1>3, <1>4, <1>5, <1>6, <1>7, <1>9, <1>10, <1>11 DEF Next, Step, Pop, Push, TryPop, TryPush

(* Every behaviour of the queue is one of a linearizable bounded FIFO buffer *)
(* (its safety part; the progress it promises is checked by TLC).            *)
THEOREM LinearizableBuffer == Spec => Abstract!Spec
<1>1. Init => Abstract!Init
  BY DEF Init, Abstract!Init, St
<1>2. QueueTypes /\ [Next]_vars => [Abstract!Next]_(Abstract!vars)
  BY StepImplements
<1> QED
  BY <1>1, <1>2, TypeInvariant, PTL DEF Spec, Abstract!Spec

-----------------------------------------------------------------------------
(* Wake-ups.  NoLostWakeup is inductive with the types: what has to be shown *)
(* is how each step moves one thread in or out of the four sets it counts.   *)
AwakePops   == {c \in Clients : pc[c] = "enter" /\ op[c] = "pop"}
AwakePushes == {c \in Clients : pc[c] = "enter" /\ op[c] = "push"}
PushNotes   == {c \in Clients : pc[c] = "notify" /\ op[c] \notin Poppers}
PopNotes    == {c \in Clients : pc[c] = "notify" /\ op[c] \in Poppers}

LEMMA Counting ==
    ASSUME NEW S \in SUBSET Clients, NEW T \in SUBSET Clients, NEW c
    PROVE  /\ Cardinality(S) \in Nat /\ Cardinality(T) \in Nat
           /\ S \subseteq T => Cardinality(S) <= Cardinality(T)
           /\ S \ {c} \subseteq T => Cardinality(S) - 1 <= Cardinality(T)
           /\ c \notin S /\ S \cup {c} \subseteq T => Cardinality(S) + 1 <= Cardinality(T)
<1>1. IsFiniteSet(S) /\ IsFiniteSet(T)
  BY QueueAssumption, FS_Subset DEF QueueAssumption
<1>2. Cardinality(S) \in Nat /\ Cardinality(T) \in Nat
  BY <1>1, FS_CardinalityType
<1>3. S \subseteq T => Cardinality(S) <= Cardinality(T)
  BY <1>1, FS_Subset
<1>4. S \ {c} \subseteq T => Cardinality(S) - 1 <= Cardinality(T)
  <2>1. S \ {c} \subseteq T => Cardinality(S \ {c}) <= Cardinality(T)
    BY <1>1, FS_Subset
  <2>2. Cardinality(S \ {c}) = IF c \in S THEN Cardinality(S) - 1 ELSE Cardinality(S)
    BY <1>1, FS_RemoveElement
  <2> QED
    BY <1>2, <2>1, <2>2
<1>5. c \notin S /\ S \cup {c} \subseteq T => Cardinality(S) + 1 <= Cardinality(T)
  <2>1. S \cup {c} \subseteq T => Cardinality(S \cup {c}) <= Cardinality(T)
    BY <1>1, FS_Subset
  <2>2. Cardinality(S \cup {c}) = IF c \in S THEN Cardinality(S) ELSE Cardinality(S) + 1
    BY <1>1, FS_AddElement
  <2> QED
    BY <1>2, <2>1, <2>2
<1> QED
  BY <1>2, <1>3, <1>4, <1>5

(* The values for which a popper is awake or a notification on its way, and  *)
(* the free slots for which a pusher is.                                     *)
ValuesCovered == NotEmptySleepers # {} => Len(m_deque) <= Cardinality(AwakePops) + Cardinality(PushNotes)
SlotsCovered  == NotFullSleepers # {} => m_cap - Len(m_deque) <= Cardinality(AwakePushes) + Cardinality(PopNotes)
NobodySleepsClosed == m_closed => \A c \in Clients : pc[c] # "sleep"

WakeInv == QueueTypes /\ ValuesCovered /\ SlotsCovered /\ NobodySleepsClosed

LEMMA ClosedKeeps ==
    ASSUME WakeInv, [Next]_vars
    PROVE  NobodySleepsClosed'
<1> USE DEF WakeInv, QueueTypes, TypeOK, NobodySleepsClosed
<1>1. CASE Close \/ UNCHANGED vars
  BY <1>1 DEF Close, vars
<1>2. ASSUME NEW c \in Clients, (\E r \in Requests : Call(c, r[1], r[2])) \/ Return(c) \/ SpuriousWake(c)
      PROVE  NobodySleepsClosed'
  BY <1>2 DEF Call, Return, SpuriousWake
<1>3. ASSUME NEW c \in Clients, Notify(c) PROVE NobodySleepsClosed'
  BY <1>3 DEF Notify, NotFullSleepers, NotEmptySleepers
<1>4. ASSUME NEW c \in Clients, Pop(c) \/ Push(c) \/ TryPop(c) \/ TryPush(c) PROVE NobodySleepsClosed'
  BY <1>4 DEF Pop, Push, TryPop, TryPush, Take, Put, Fail, Wait, Leave
<1> QED
  BY <1>1, <1>2, <1>3, <1>4 DEF Next, Step

(* What is queued stays covered. *)
LEMMA ValuesKeep ==
    ASSUME WakeInv, [Next]_vars
    PROVE  ValuesCovered'
<1> DEFINE Sleepers == NotEmptySleepers
           Awake == AwakePops
           Notes == PushNotes
           Need == Len(m_deque)
<1>1. Len(m_deque) \in Nat /\ Len(m_deque') \in Nat /\ m_cap \in Nat
  BY TypeKeeps, QueueAssumption DEF WakeInv, QueueTypes, TypeOK, QueueAssumption
<1>2. /\ Awake \in SUBSET Clients /\ Awake' \in SUBSET Clients
      /\ Notes \in SUBSET Clients /\ Notes' \in SUBSET Clients
  BY DEF AwakePops, PushNotes
<1>3. ASSUME Sleepers' # {} => Sleepers # {},
             \/ Need' <= Need /\ Awake \subseteq Awake' /\ Notes \subseteq Notes'
             \/ \E c : Need' = Need - 1 /\ Awake \ {c} \subseteq Awake' /\ Notes \subseteq Notes'
             \/ \E c : Need' = Need + 1 /\ Awake \subseteq Awake' /\ c \notin Notes /\ Notes \cup {c} \subseteq Notes'
             \/ \E c, d : /\ Need' = Need /\ d \notin Awake /\ Awake \cup {d} \subseteq Awake'
                          /\ Notes \ {c} \subseteq Notes'
      PROVE  ValuesCovered'
  <2> DEFINE a == Cardinality(Awake)
             b == Cardinality(Awake')
             m == Cardinality(Notes)
             n == Cardinality(Notes')
  <2>1. a \in Nat /\ b \in Nat /\ m \in Nat /\ n \in Nat
    BY <1>2, Counting
  <2>2. \/ Need' <= Need /\ a <= b /\ m <= n
        \/ Need' = Need - 1 /\ a - 1 <= b /\ m <= n
        \/ Need' = Need + 1 /\ a <= b /\ m + 1 <= n
        \/ Need' = Need /\ a + 1 <= b /\ m - 1 <= n
    BY <1>2, <1>3, Counting
  <2>3. ValuesCovered <=> (Sleepers # {} => Need <= a + m)
    BY DEF ValuesCovered
  <2>4. ValuesCovered' <=> (Sleepers' # {} => Need' <= b + n)
    BY DEF ValuesCovered
  <2> HIDE DEF a, b, m, n, Sleepers
  <2> QED
    BY <1>1, <1>3, <2>1, <2>2, <2>3, <2>4 DEF WakeInv
<1> USE DEF WakeInv, QueueTypes, TypeOK, NotEmptySleepers, AwakePops, PushNotes, Poppers
<1>7. ASSUME NEW c \in Clients, (\E r \in Requests : Call(c, r[1], r[2])) \/ Return(c) \/ SpuriousWake(c)
      PROVE  ValuesCovered'
  <2>1. Need' = Need
    BY <1>7 DEF Call, Return, SpuriousWake
  <2>2. Sleepers' \subseteq Sleepers /\ Awake \subseteq Awake' /\ Notes \subseteq Notes'
    BY <1>7 DEF Call, Return, SpuriousWake
  <2> QED
    BY <1>1, <1>3, <2>1, <2>2
<1>8. ASSUME NEW c \in Clients, pc[c] = "enter", Fail(c), op[c] # "pop" \/ m_closed
      PROVE  ValuesCovered'
  <2>1. CASE op[c] # "pop"
    BY <1>1, <1>3, <1>8, <2>1 DEF Fail, Leave
  <2>2. CASE m_closed
    BY <1>8, <2>2 DEF Fail, Leave, NobodySleepsClosed, ValuesCovered
  <2> QED
    BY <1>8, <2>1, <2>2
<1>9. ASSUME NEW c \in Clients, pc[c] = "enter", Wait(c), op[c] # "pop" \/ Need <= 0
      PROVE  ValuesCovered'
  <2>1. CASE op[c] # "pop"
    BY <1>1, <1>3, <1>9, <2>1 DEF Wait
  <2>2. CASE Need <= 0
    <3>1. Need' <= 0
      BY <1>9, <2>2 DEF Wait
    <3>2. Cardinality(Awake') \in Nat /\ Cardinality(Notes') \in Nat
      BY <1>2, Counting
    <3> QED
      BY <1>1, <3>1, <3>2 DEF ValuesCovered
  <2> QED
    BY <1>9, <2>1, <2>2
<1>10. CASE Close
  BY <1>10 DEF Close, ValuesCovered
<1>11. CASE UNCHANGED vars
  BY <1>1, <1>3, <1>11 DEF vars
<1>12. ASSUME NEW c \in Clients, pc[c] = "enter", op[c] \in Poppers, m_deque # << >>, Take(c)
       PROVE  ValuesCovered'
  <2>1. Len(m_deque') = Len(m_deque) - 1
    BY <1>12 DEF Take
  <2>2. Sleepers' \subseteq Sleepers
    BY <1>12 DEF Take, Leave
  <2>3. Awake \ {c} \subseteq Awake' /\ Notes \subseteq Notes'
    BY <1>12 DEF Take, Leave
  <2> QED
    BY <1>1, <1>3, <2>1, <2>2, <2>3
<1>13. ASSUME NEW c \in Clients, pc[c] = "enter", op[c] \in {"push", "tryPush"}, Put(c)
       PROVE  ValuesCovered'
  <2>1. Len(m_deque') = Len(m_deque) + 1
    BY <1>13 DEF Put
  <2>2. Sleepers' \subseteq Sleepers
    BY <1>13 DEF Put, Leave
  <2>3. Awake \subseteq Awake' /\ c \notin Notes /\ Notes \cup {c} \subseteq Notes'
    BY <1>13 DEF Put, Leave
  <2> QED
    BY <1>1, <1>3, <2>1, <2>2, <2>3
<1>14. ASSUME NEW c \in Clients, Notify(c) PROVE ValuesCovered'
  <2>1. Need' = Need /\ UNCHANGED op
    BY <1>14 DEF Notify
  <2>2. CASE op[c] \in Poppers
    <3>1. Sleepers' \subseteq Sleepers /\ Awake \subseteq Awake' /\ Notes \subseteq Notes'
      BY <1>14, <2>1, <2>2 DEF Notify, NotFullSleepers
    <3> QED
      BY <1>1, <1>3, <2>1, <3>1
  <2>3. CASE op[c] \notin Poppers /\ NotEmptySleepers = {}
    BY <1>14, <2>3 DEF Notify, ValuesCovered
  <2>4. CASE op[c] \notin Poppers /\ NotEmptySleepers # {}
    <3>1. PICK d \in NotEmptySleepers : pc' = [pc EXCEPT ![c] = "done", ![d] = "enter"]
      BY <1>14, <2>4 DEF Notify
    <3>2. d \notin Awake /\ Awake \cup {d} \subseteq Awake' /\ Notes \ {c} \subseteq Notes' /\ Sleepers' \subseteq Sleepers
      BY <1>14, <2>1, <3>1 DEF Notify
    <3> QED
      BY <1>3, <2>1, <3>2
  <2> QED
    BY <2>2, <2>3, <2>4
<1>15. ASSUME NEW c \in Clients, Pop(c) \/ TryPop(c) PROVE ValuesCovered'
  BY <1>1, <1>8, <1>9, <1>12, <1>15 DEF Pop, TryPop
<1>16. ASSUME NEW c \in Clients, Push(c) \/ TryPush(c) PROVE ValuesCovered'
  BY <1>1, <1>8, <1>9, <1>13, <1>16 DEF Push, TryPush
<1> QED
  BY <1>7, <1>10, <1>11, <1>14, <1>15, <1>16 DEF Next, Step

(* And so do the free slots. *)
LEMMA SlotsKeep ==
    ASSUME WakeInv, [Next]_vars
    PROVE  SlotsCovered'
<1> DEFINE Sleepers == NotFullSleepers
           Awake == AwakePushes
           Notes == PopNotes
           Need == m_cap - Len(m_deque)
<1>1. Len(m_deque) \in Nat /\ Len(m_deque') \in Nat /\ m_cap \in Nat
  BY TypeKeeps, QueueAssumption DEF WakeInv, QueueTypes, TypeOK, QueueAssumption
<1>2. /\ Awake \in SUBSET Clients /\ Awake' \in SUBSET Clients
      /\ Notes \in SUBSET Clients /\ Notes' \in SUBSET Clients
  BY DEF AwakePushes, PopNotes
<1>3. ASSUME Sleepers' # {} => Sleepers # {},
             \/ Need' <= Need /\ Awake \subseteq Awake' /\ Notes \subseteq Notes'
             \/ \E c : Need' = Need - 1 /\ Awake \ {c} \subseteq Awake' /\ Notes \subseteq Notes'
             \/ \E c : Need' = Need + 1 /\ Awake \subseteq Awake' /\ c \notin Notes /\ Notes \cup {c} \subseteq Notes'
             \/ \E c, d : /\ Need' = Need /\ d \notin Awake /\ Awake \cup {d} \subseteq Awake'
                          /\ Notes \ {c} \subseteq Notes'
      PROVE  SlotsCovered'
  <2> DEFINE a == Cardinality(Awake)
             b == Cardinality(Awake')
             m == Cardinality(Notes)
             n == Cardinality(Notes')
  <2>1. a \in Nat /\ b \in Nat /\ m \in Nat /\ n \in Nat
    BY <1>2, Counting
  <2>2. \/ Need' <= Need /\ a <= b /\ m <= n
        \/ Need' = Need - 1 /\ a - 1 <= b /\ m <= n
        \/ Need' = Need + 1 /\ a <= b /\ m + 1 <= n
        \/ Need' = Need /\ a + 1 <= b /\ m - 1 <= n
    BY <1>2, <1>3, Counting
  <2>3. SlotsCovered <=> (Sleepers # {} => Need <= a + m)
    BY DEF SlotsCovered
  <2>4. SlotsCovered' <=> (Sleepers' # {} => Need' <= b + n)
    BY DEF SlotsCovered
  <2> HIDE DEF a, b, m, n, Sleepers
  <2> QED
    BY <1>1, <1>3, <2>1, <2>2, <2>3, <2>4 DEF WakeInv
<1> USE DEF WakeInv, QueueTypes, TypeOK, NotFullSleepers, AwakePushes, PopNotes, Poppers
<1>7. ASSUME NEW c \in Clients, (\E r \in Requests : Call(c, r[1], r[2])) \/ Return(c) \/ SpuriousWake(c)
      PROVE  SlotsCovered'
  <2>1. Need' = Need
    BY <1>7 DEF Call, Return, SpuriousWake
  <2>2. Sleepers' \subseteq Sleepers /\ Awake \subseteq Awake' /\ Notes \subseteq Notes'
    BY <1>7 DEF Call, Return, SpuriousWake
  <2> QED
    BY <1>1, <1>3, <2>1, <2>2
<1>8. ASSUME NEW c \in Clients, pc[c] = "enter", Fail(c), op[c] # "push" \/ m_closed
      PROVE  SlotsCovered'
  <2>1. CASE op[c] # "push"
    BY <1>1, <1>3, <1>8, <2>1 DEF Fail, Leave
  <2>2. CASE m_closed
    BY <1>8, <2>2 DEF Fail, Leave, NobodySleepsClosed, SlotsCovered
  <2> QED
    BY <1>8, <2>1, <2>2
<1>9. ASSUME NEW c \in Clients, pc[c] = "enter", Wait(c), op[c] # "push" \/ Need <= 0
      PROVE  SlotsCovered'
  <2>1. CASE op[c] # "push"
    BY <1>1, <1>3, <1>9, <2>1 DEF Wait
  <2>2. CASE Need <= 0
    <3>1. Need' <= 0
      BY <1>9, <2>2 DEF Wait
    <3>2. Cardinality(Awake') \in Nat /\ Cardinality(Notes') \in Nat
      BY <1>2, Counting
    <3> QED
      BY <1>1, <3>1, <3>2 DEF SlotsCovered
  <2> QED
    BY <1>9, <2>1, <2>2
<1>10. CASE Close
  BY <1>10 DEF Close, SlotsCovered
<1>11. CASE UNCHANGED vars
  BY <1>1, <1>3, <1>11 DEF vars
<1>12. ASSUME NEW c \in Clients, pc[c] = "enter", op[c] \in Poppers, m_deque # << >>, Take(c)
       PROVE  SlotsCovered'
  <2>1. Len(m_deque') = Len(m_deque) - 1
    BY <1>12 DEF Take
  <2>2. Sleepers' \subseteq Sleepers
    BY <1>12 DEF Take, Leave
  <2>3. Awake \subseteq Awake' /\ c \notin Notes /\ Notes \cup {c} \subseteq Notes'
    BY <1>12 DEF Take, Leave
  <2>4. Need' = Need + 1
    BY <1>1, <2>1
  <2> QED
    BY <1>3, <2>2, <2>3, <2>4
<1>13. ASSUME NEW c \in Clients, pc[c] = "enter", op[c] \in {"push", "tryPush"}, Put(c)
       PROVE  SlotsCovered'
  <2>1. Len(m_deque') = Len(m_deque) + 1
    BY <1>13 DEF Put
  <2>2. Sleepers' \subseteq Sleepers
    BY <1>13 DEF Put, Leave
  <2>3. Awake \ {c} \subseteq Awake' /\ Notes \subseteq Notes'
    BY <1>13 DEF Put, Leave
  <2>4. Need' = Need - 1
    BY <1>1, <2>1
  <2> QED
    BY <1>3, <2>2, <2>3, <2>4
<1>14. ASSUME NEW c \in Clients, Notify(c) PROVE SlotsCovered'
  <2>1. Need' = Need /\ UNCHANGED op
    BY <1>14 DEF Notify
  <2>2. CASE op[c] \notin Poppers
    <3>1. Sleepers' \subseteq Sleepers /\ Awake \subseteq Awake' /\ Notes \subseteq Notes'
      BY <1>14, <2>1, <2>2 DEF Notify, NotEmptySleepers
    <3> QED
      BY <1>1, <1>3, <2>1, <3>1
  <2>3. CASE op[c] \in Poppers /\ NotFullSleepers = {}
    BY <1>14, <2>3 DEF Notify, SlotsCovered
  <2>4. CASE op[c] \in Poppers /\ NotFullSleepers # {}
    <3>1. PICK d \in NotFullSleepers : pc' = [pc EXCEPT ![c] = "done", ![d] = "enter"]
      BY <1>14, <2>4 DEF Notify
    <3>2. d \notin Awake /\ Awake \cup {d} \subseteq Awake' /\ Notes \ {c} \subseteq Notes' /\ Sleepers' \subseteq Sleepers
      BY <1>14, <2>1, <3>1 DEF Notify
    <3> QED
      BY <1>3, <2>1, <3>2
  <2> QED
    BY <2>2, <2>3, <2>4
<1>15. ASSUME NEW c \in Clients, Pop(c) \/ TryPop(c) PROVE SlotsCovered'
  BY <1>1, <1>8, <1>9, <1>12, <1>15 DEF Pop, TryPop
<1>16. ASSUME NEW c \in Clients, Push(c) \/ TryPush(c) PROVE SlotsCovered'
  BY <1>1, <1>8, <1>9, <1>13, <1>16 DEF Push, TryPush
<1> QED
  BY <1>7, <1>10, <1>11, <1>14, <1>15, <1>16 DEF Next, Step

(* No wake-up is lost: while a thread sleeps in pop() each queued value has  *)
(* a popper awake or a notification on its way, while one sleeps in push()   *)
(* each free slot has, and nobody sleeps in a closed queue.  notify_one()    *)
(* may come after the unlock, to a thread that is already awake, or be       *)
(* stolen by a tryPop(): for any number of threads it is enough.             *)
THEOREM NoWakeupIsLost == Spec => []NoLostWakeup
<1>1. Init => WakeInv
  <2> SUFFICES ASSUME Init PROVE WakeInv
    OBVIOUS
  <2> QED
    BY InitTypes DEF Init, WakeInv, ValuesCovered, SlotsCovered, NobodySleepsClosed, NotEmptySleepers, NotFullSleepers
<1>2. WakeInv /\ [Next]_vars => WakeInv'
  BY TypeKeeps, ValuesKeep, SlotsKeep, ClosedKeeps DEF WakeInv
<1>3. WakeInv => NoLostWakeup
  BY DEF WakeInv, NoLostWakeup, ValuesCovered, SlotsCovered, NobodySleepsClosed, AwakePops, AwakePushes, PushNotes, PopNotes
<1> QED
  BY <1>1, <1>2, <1>3, PTL DEF Spec

-----------------------------------------------------------------------------
(* JobSharedMemory. *)


(* The types that both arguments need. *)
ShmTypes ==
    /\ totalSize \in Nat /\ writePos \in Int /\ readPos \in Int /\ rlen \in Int
    /\ sem \in -1 .. SemMax
    /\ m_requested_size \in Sizes /\ wlen \in Nat /\ wdone \in Nat
    /\ wpc \in {"off", "truncate", "magic", "create", "sem", "idle", "copy", "post"}
    /\ rpc \in {"off", "header", "sem", "idle", "wait", "copy"}

(* The semaphore is there for whoever has attached. *)
SemThere ==
    /\ wpc \in {"idle", "copy", "post"} => sem # -1
    /\ rpc \in {"idle", "wait", "copy"} => sem # -1

PostInv == ShmTypes /\ SemThere /\ NoLostPost

(* The invariant holds before anyone attaches. *)
LEMMA InitWake == ShmInit => PostInv
<1> SUFFICES ASSUME ShmInit PROVE PostInv
  OBVIOUS
<1>1. ShmTypes
  BY ShmAssumption DEF ShmAssumption, ShmInit, ShmTypes
<1>2. SemThere /\ NoLostPost
  BY DEF ShmInit, SemThere, NoLostPost
<1> QED
  BY <1>1, <1>2 DEF PostInv

(* The writer's steps: a store of writePos is followed by a post, or by the writer's death. *)
LEMMA WriterWake ==
    ASSUME PostInv,
           Attaching \/ Writing \/ (\E n \in Lengths : WriteBegin(n)) \/ WriterDetach \/ WriterDies
    PROVE  PostInv'
<1> USE ShmAssumption DEF ShmAssumption, PostInv, ShmTypes, SemThere, NoLostPost, AvailableToRead, WStep,
        header, reader, writer
<1>1. CASE WriterOpen
  BY <1>1 DEF WriterOpen
<1>2. CASE WriterTruncate
  BY <1>2 DEF WriterTruncate
<1>3. CASE WriterMagic
  <2>1. UNCHANGED <<m_requested_size, wlen, wdone, rpc, rlen, sem, unposted>> /\ wpc' \in {"sem", "create"}
        /\ wpc = "magic"
    BY <1>3 DEF WriterMagic
  <2>2. UNCHANGED <<totalSize, writePos, readPos>> \/ (totalSize' = 0 /\ writePos' = 0 /\ readPos' = 0)
    BY <1>3 DEF WriterMagic
  <2> QED
    BY <2>1, <2>2
<1>4. CASE WriterCreate
  BY <1>4 DEF WriterCreate
<1>5. CASE WriterSem
  BY <1>5 DEF WriterSem
<1>6. CASE WriteByte
  BY <1>6 DEF WriteByte
<1>7. CASE WritePublish
  BY <1>7 DEF WritePublish
<1>8. CASE WritePost
  <2>1. sem' > 0 /\ sem' \in -1 .. SemMax
    BY <1>8 DEF WritePost
  <2>2. UNCHANGED <<totalSize, writePos, readPos, m_requested_size, wlen, wdone, rpc, rlen>>
        /\ wpc' = "idle"
    BY <1>8 DEF WritePost
  <2> QED
    BY <2>1, <2>2
<1>9. CASE \E n \in Lengths : WriteBegin(n)
  BY <1>9 DEF WriteBegin
<1>10. CASE WriterDetach
  BY <1>10 DEF WriterDetach
<1>11. CASE WriterDies
  BY <1>11 DEF WriterDies
<1> QED
  BY <1>1, <1>2, <1>3, <1>4, <1>5, <1>6, <1>7, <1>8, <1>9, <1>10, <1>11 DEF Attaching, Writing

(* The reader's steps: it sleeps only after it saw an empty ring. *)
LEMMA ReaderWake ==
    ASSUME PostInv, Reading \/ ReaderLeaves
    PROVE  PostInv'
<1> USE DEF PostInv, ShmTypes, SemThere, NoLostPost, AvailableToRead, RStep, ReaderFails, header,
        writer, reader
<1>1. CASE ReaderOpen \/ ReaderHeader
  BY <1>1 DEF ReaderOpen, ReaderHeader
<1>2. CASE ReaderSem
  BY <1>2 DEF ReaderSem
<1>3. CASE ReadByte
  BY <1>3 DEF ReadByte
<1>4. CASE ReadStore
  BY <1>4 DEF ReadStore
<1>5. ASSUME NEW n \in Lengths \ {0}, ReadBegin(n) PROVE PostInv'
  BY <1>5, ShmAssumption DEF ShmAssumption, ReadBegin
<1>6. ASSUME NEW n \in Lengths \ {0}, ReadWait(n) PROVE PostInv'
  BY <1>6, ShmAssumption DEF ShmAssumption, ReadWait
<1>7. CASE ReaderLeaves
  BY <1>7 DEF ReaderLeaves
<1> QED
  BY <1>1, <1>2, <1>3, <1>4, <1>5, <1>6, <1>7 DEF Reading

(* PostInv along every behaviour. *)
LEMMA PostInvariant == ShmSpec => []PostInv
<1>1. PostInv /\ [ShmNext]_shmVars => PostInv'
  <2> SUFFICES ASSUME PostInv, [ShmNext]_shmVars PROVE PostInv'
    OBVIOUS
  <2>1. CASE UNCHANGED shmVars
    BY <2>1 DEF shmVars, header, writer, reader, PostInv, ShmTypes, SemThere, NoLostPost, AvailableToRead
  <2> QED
    BY <2>1, WriterWake, ReaderWake DEF ShmNext
<1> QED
  BY <1>1, InitWake, PTL DEF ShmSpec

(* A reader never sleeps over unread bytes without a post that wakes it, or one to come;  *)
(* only a writer's death between its store of writePos and its post takes it away.  For   *)
(* any sizes, semaphore limit, deaths and detaches.                                       *)
THEOREM SleeperIsWoken == ShmSpec => []NoLostPost
<1>1. PostInv => NoLostPost
  BY DEF PostInv
<1> QED
  BY <1>1, PostInvariant, PTL

-----------------------------------------------------------------------------
(* Two positions less than a lap apart fall into different slots. *)
LEMMA SlotsDiffer ==
    ASSUME NEW N \in Nat \ {0}, NEW a \in Nat, NEW b \in Nat, a < b, b < a + N
    PROVE  a % N # b % N /\ a % N \in 0 .. N - 1 /\ b % N \in 0 .. N - 1
<1> DEFINE q == a \div N
           r == b \div N
<1>1. /\ q \in Int /\ a = N * q + (a % N) /\ a % N \in 0 .. N - 1
      /\ r \in Int /\ b = N * r + (b % N) /\ b % N \in 0 .. N - 1
  OBVIOUS
<1> HIDE DEF q, r
<1>2. a % N = b % N => b - a = N * (r - q)
  BY <1>1
<1>3. r - q <= 0 => N * (r - q) <= 0
  BY <1>1
<1>4. r - q >= 1 => N * (r - q) >= N
  BY <1>1
<1> QED
  BY <1>1, <1>2, <1>3, <1>4

-----------------------------------------------------------------------------
(* The writers agree on a size. *)
SameSize == \A s, t \in Sizes : s = t
Size == Max(Sizes)

(* The header is written once, after the object has its length; a reader past the header *)
(* found it written.                                                                      *)
Object ==
    /\ totalSize \in {0, Size}
    /\ wpc \in {"magic", "create", "sem", "idle", "copy", "post"} => fileSize = Size
    /\ totalSize # 0 => magic /\ fileSize = Size
    /\ totalSize = 0 => writePos = 0 /\ readPos = 0
    /\ wpc = "create" => magic /\ totalSize = 0
    /\ wpc = "copy" \/ rpc \in {"sem", "idle", "wait", "copy"} => totalSize = Size

(* What a call in progress may still do: the writer has room for what it is copying, and *)
(* the reader copies no more than there is.                                               *)
Calls ==
    /\ readPos \in Nat /\ readPos <= writePos /\ rlen \in Nat
    /\ wdone <= wlen /\ (wpc # "copy" => wlen = 0)
    /\ writePos + wlen - readPos <= totalSize
    /\ rpc = "copy" => rlen <= writePos - readPos /\ Len(got) <= rlen
    /\ rpc # "copy" => got = << >>

(* Every byte from readPos to the writer's hand is in its slot, and what the reader has   *)
(* copied is the stream.                                                                  *)
Stored ==
    /\ ring \in [0 .. Size - 1 -> Int] /\ got \in Seq(Int)
    /\ \A p \in readPos .. writePos + wdone - 1 : ring[p % totalSize] = p
    /\ \A i \in 1 .. Len(got) : got[i] = readPos + i - 1

RingInv == ShmTypes /\ Object /\ Calls /\ Stored

(* The one size is the greatest. *)
LEMMA OneSize ==
    ASSUME SameSize
    PROVE  Size \in Nat \ {0} /\ \A s \in Sizes : s = Size
<1>1. PICK s \in Sizes : s \in Nat \ {0}
  BY ShmAssumption DEF ShmAssumption
<1>2. \A t \in Sizes : t = s
  BY SameSize DEF SameSize
<1>3. \E x \in Sizes : \A y \in Sizes : y <= x
  BY <1>1, <1>2
<1>4. Size \in Sizes
  BY <1>3 DEF Size, Max
<1> QED
  BY <1>1, <1>2, <1>4

(* Before the first attach there is no ring. *)
LEMMA InitRing ==
    ASSUME SameSize, ShmInit
    PROVE  RingInv
<1>1. ShmTypes
  BY InitWake DEF PostInv
<1>2. Object
  BY DEF ShmInit, Object
<1>3. Calls
  BY DEF ShmInit, Calls
<1>4. Stored
  <2>1. ring \in [0 .. Size - 1 -> Int] /\ got \in Seq(Int) /\ Len(got) = 0
    BY DEF ShmInit, Size, NoByte
  <2>2. readPos .. writePos + wdone - 1 = {}
    BY DEF ShmInit
  <2> QED
    BY <2>1, <2>2 DEF Stored
<1> QED
  BY <1>1, <1>2, <1>3, <1>4 DEF RingInv

(* attach(), detach() and death of the writer: none of them touches what is stored. *)
LEMMA AttachRing ==
    ASSUME SameSize, RingInv, ShmTypes', Attaching \/ WriterDetach \/ WriterDies
    PROVE  RingInv'
<1>0. Size \in Nat \ {0} /\ m_requested_size = Size
  BY OneSize DEF RingInv, ShmTypes
<1> USE DEF RingInv, ShmTypes, Object, Calls, Stored, WStep, header, reader, writer
<1>1. CASE WriterOpen
  BY <1>0, <1>1 DEF WriterOpen
<1>2. CASE WriterTruncate
  <2>1. ring' = ring
    BY <1>0, <1>2 DEF WriterTruncate
  <2> QED
    BY <1>0, <1>2, <2>1 DEF WriterTruncate
<1>3. CASE WriterMagic
  BY <1>0, <1>3 DEF WriterMagic
<1>4. CASE WriterCreate
  BY <1>0, <1>4 DEF WriterCreate
<1>5. CASE WriterSem
  BY <1>0, <1>5 DEF WriterSem
<1>6. CASE WriterDetach
  BY <1>0, <1>6 DEF WriterDetach
<1>7. CASE WriterDies
  <2>1. /\ UNCHANGED <<fileSize, header, ring, reader>> /\ wpc' = "off" /\ wlen' = 0 /\ wdone' = 0
    BY <1>7 DEF WriterDies
  <2>2. Object' /\ Calls'
    BY <1>0, <2>1
  <2>3. \A p \in readPos .. writePos + 0 - 1 : p \in readPos .. writePos + wdone - 1
    OBVIOUS
  <2>4. Stored'
    BY <2>1, <2>3
  <2> QED
    BY <2>2, <2>4
<1> QED
  BY <1>1, <1>2, <1>3, <1>4, <1>5, <1>6, <1>7 DEF Attaching

(* write(): the byte goes to a slot that holds none of the bytes still to be read. *)
LEMMA WriteRing ==
    ASSUME SameSize, RingInv, ShmTypes', Writing \/ \E n \in Lengths : WriteBegin(n)
    PROVE  RingInv'
<1>0. Size \in Nat \ {0}
  BY OneSize
<1> USE DEF RingInv, ShmTypes, Object, Calls, WStep, header, reader, writer
<1>1. ASSUME NEW n \in Lengths, WriteBegin(n) PROVE RingInv'
  <2>1. /\ UNCHANGED <<fileSize, header, ring, reader>> /\ wpc' = "copy" /\ wlen' = n /\ wdone' = 0
        /\ wpc = "idle" /\ n \in Nat /\ totalSize > 0 /\ n <= totalSize - (writePos - readPos)
    BY <1>1, ShmAssumption DEF ShmAssumption, WriteBegin, AvailableToWrite
  <2>2. Object' /\ Calls'
    BY <1>0, <2>1
  <2>3. \A p \in readPos .. writePos + 0 - 1 : p \in readPos .. writePos + wdone - 1
    OBVIOUS
  <2>4. Stored'
    BY <2>1, <2>3 DEF Stored
  <2> QED
    BY <2>2, <2>4
<1>2. CASE WriteByte
  <2> DEFINE at == writePos + wdone
  <2>1. /\ UNCHANGED <<fileSize, header, wpc, wlen, reader>> /\ wpc = "copy" /\ wdone < wlen
        /\ wdone' = wdone + 1 /\ ring' = [ring EXCEPT ![at % totalSize] = at]
    BY <1>2 DEF WriteByte, Slot
  <2>2. totalSize = Size /\ at \in Nat /\ readPos \in Nat
    BY <2>1
  <2>3. Object' /\ Calls'
    BY <1>0, <2>1
  <2>4. \A p \in readPos .. at - 1 :
          /\ p % totalSize # at % totalSize /\ p % totalSize \in 0 .. Size - 1
          /\ at % totalSize \in 0 .. Size - 1
    <3> SUFFICES ASSUME NEW p \in readPos .. at - 1
                 PROVE  /\ p % Size # at % Size /\ p % Size \in 0 .. Size - 1
                        /\ at % Size \in 0 .. Size - 1
      BY <2>2
    <3>1. p \in Nat /\ p < at /\ at < p + Size
      BY <2>1, <2>2
    <3> HIDE DEF at
    <3> QED
      BY <1>0, <2>2, <3>1, SlotsDiffer
  <2>5. at % totalSize \in 0 .. Size - 1
    BY <1>0, <2>2
  <2>6. Stored'
    <3>1. ring' \in [0 .. Size - 1 -> Int] /\ ring'[at % totalSize] = at
      BY <2>1, <2>2, <2>5 DEF Stored
    <3>2. \A p \in readPos .. at - 1 : ring'[p % totalSize] = p
      BY <2>1, <2>4 DEF Stored
    <3>3. \A p \in readPos .. at : p = at \/ p \in readPos .. at - 1
      BY <2>2
    <3>4. writePos' + wdone' - 1 = at
      BY <2>1
    <3> HIDE DEF at
    <3> QED
      BY <2>1, <3>1, <3>2, <3>3, <3>4 DEF Stored
  <2> QED
    BY <2>3, <2>6
<1>3. CASE WritePublish
  <2>1. /\ UNCHANGED <<fileSize, magic, totalSize, readPos, ring, reader>> /\ wpc = "copy"
        /\ wdone = wlen /\ wpc' = "post" /\ writePos' = writePos + wlen /\ wlen' = 0 /\ wdone' = 0
    BY <1>3 DEF WritePublish
  <2>2. Object' /\ Calls'
    BY <1>0, <2>1
  <2>3. writePos' + wdone' - 1 = writePos + wdone - 1
    BY <2>1
  <2>4. Stored'
    BY <2>1, <2>3 DEF Stored
  <2> QED
    BY <2>2, <2>4
<1>4. CASE WritePost
  BY <1>0, <1>4 DEF WritePost, Stored
<1> QED
  BY <1>1, <1>2, <1>3, <1>4 DEF Writing

(* read(): a byte between readPos and writePos is in its slot until readPos passes it. *)
LEMMA ReadRing ==
    ASSUME SameSize, RingInv, ShmTypes', Reading \/ ReaderLeaves
    PROVE  RingInv'
<1>0. Size \in Nat \ {0}
  BY OneSize
<1> USE DEF RingInv, ShmTypes, Object, Calls, RStep, ReaderFails, header, reader, writer
<1>1. CASE ReaderOpen \/ ReaderHeader \/ ReaderSem
  <2>1. /\ UNCHANGED <<fileSize, header, ring, writer, rlen, got>> /\ rpc # "copy" /\ rpc' # "copy"
        /\ rpc' \in {"sem", "idle"} => totalSize = Size
    BY <1>0, <1>1 DEF ReaderOpen, ReaderHeader, ReaderSem, ValidHeader
  <2>2. rpc' \in {"off", "header", "sem", "idle"}
    BY <1>1 DEF ReaderOpen, ReaderHeader, ReaderSem
  <2>3. Object' /\ Calls'
    BY <1>0, <2>1, <2>2
  <2>4. Stored'
    BY <2>1 DEF Stored
  <2> QED
    BY <2>3, <2>4
<1>2. ASSUME NEW n \in Lengths \ {0}, ReadBegin(n) \/ ReadWait(n) PROVE RingInv'
  <2>1. /\ UNCHANGED <<fileSize, header, ring, writer>> /\ got' = << >> /\ rpc \in {"idle", "wait"}
        /\ rpc' \in {"wait", "copy"} /\ n \in Nat
        /\ rlen' = IF writePos - readPos < n THEN writePos - readPos ELSE n
    BY <1>2, ShmAssumption DEF ShmAssumption, ReadBegin, ReadWait, AvailableToRead
  <2>2. Object' /\ Calls'
    BY <1>0, <2>1
  <2>3. Stored'
    BY <2>1 DEF Stored
  <2> QED
    BY <2>2, <2>3
<1>3. CASE ReadByte
  <2> DEFINE at == readPos + Len(got)
  <2>1. /\ UNCHANGED <<fileSize, header, ring, writer, rpc, rlen>> /\ rpc = "copy"
        /\ Len(got) < rlen /\ got' = Append(got, ring[at % totalSize])
    BY <1>3 DEF ReadByte, Slot
  <2>0. got \in Seq(Int) /\ Len(got) \in Nat
    BY DEF Stored
  <2>2. Len(got) \in Nat /\ totalSize = Size /\ at \in Nat
    BY <2>0, <2>1
  <2>3. ring[at % totalSize] = at
    <3>1. at \in readPos .. writePos + wdone - 1
      BY <2>1, <2>2
    <3> QED
      BY <3>1 DEF Stored
  <2>4. /\ got' \in Seq(Int) /\ Len(got') = Len(got) + 1 /\ got'[Len(got) + 1] = at
        /\ \A i \in 1 .. Len(got) : got'[i] = got[i]
    <3>1. got' = Append(got, at) /\ got \in Seq(Int) /\ at \in Int
      BY <2>1, <2>2, <2>3 DEF Stored
    <3> HIDE DEF at
    <3> QED
      BY <3>1, AppendProperties
  <2>5. Object' /\ Calls'
    BY <1>0, <2>1, <2>2, <2>4
  <2>6. \A i \in 1 .. Len(got') : got'[i] = readPos + i - 1
    <3>1. \A i \in 1 .. Len(got) + 1 : i \in 1 .. Len(got) \/ i = Len(got) + 1
      BY <2>2
    <3>2. at = readPos + (Len(got) + 1) - 1
      BY <2>2
    <3> QED
      BY <2>2, <2>4, <3>1, <3>2 DEF Stored
  <2>7. Stored'
    BY <2>1, <2>4, <2>6 DEF Stored
  <2> QED
    BY <2>5, <2>7
<1>4. CASE ReadStore
  <2>1. /\ UNCHANGED <<fileSize, magic, totalSize, writePos, ring, writer>> /\ rpc = "copy"
        /\ rpc' = "idle" /\ readPos' = readPos + rlen /\ rlen' = 0 /\ got' = << >>
    BY <1>4 DEF ReadStore
  <2>2. Object' /\ Calls'
    BY <1>0, <2>1
  <2>3. \A p \in readPos' .. writePos + wdone - 1 : p \in readPos .. writePos + wdone - 1
    BY <2>1
  <2>4. Stored'
    BY <2>1, <2>3 DEF Stored
  <2> QED
    BY <2>2, <2>4
<1>5. CASE ReaderLeaves
  BY <1>0, <1>5 DEF ReaderLeaves, Stored
<1> QED
  BY <1>1, <1>2, <1>3, <1>4, <1>5 DEF Reading

(* RingInv along every behaviour of writers that agree on the size. *)
LEMMA RingInvariant == SameSize => (ShmSpec => []RingInv)
<1> SUFFICES ASSUME SameSize PROVE ShmSpec => []RingInv
  OBVIOUS
<1>1. ShmInit => RingInv
  BY InitRing
<1>2. PostInv => ShmTypes
  BY DEF PostInv
<1>3. RingInv /\ ShmTypes' /\ [ShmNext]_shmVars => RingInv'
  <2> SUFFICES ASSUME RingInv, ShmTypes', [ShmNext]_shmVars PROVE RingInv'
    OBVIOUS
  <2>1. CASE UNCHANGED shmVars
    BY <2>1 DEF shmVars, header, writer, reader, RingInv, Object, Calls, Stored
  <2> QED
    BY <2>1, AttachRing, WriteRing, ReadRing DEF ShmNext
<1> QED
  BY <1>1, <1>2, <1>3, PostInvariant, PTL DEF ShmSpec

(* With writers that agree on the size, what a reader has copied out is the stream from   *)
(* readPos on, for every capacity and wherever either process died: no byte is lost,      *)
(* repeated, torn or overwritten while it is being read.                                  *)
THEOREM ReadsWhatWasWritten == SameSize => (ShmSpec => []ReadsStream)
<1> SUFFICES ASSUME SameSize PROVE ShmSpec => []ReadsStream
  OBVIOUS
<1>1. RingInv => ReadsStream
  BY DEF RingInv, Stored, ReadsStream
<1> QED
  BY <1>1, RingInvariant, PTL

(* With writers that agree on the size, every unread byte is in its slot of the ring, and *)
(* there are never more of them than slots.                                               *)
THEOREM UnreadIsKept == SameSize => (ShmSpec => []UnreadKept)
<1> SUFFICES ASSUME SameSize PROVE ShmSpec => []UnreadKept
  OBVIOUS
<1>1. RingInv => UnreadKept
  <2> SUFFICES ASSUME RingInv PROVE UnreadKept
    OBVIOUS
  <2>1. writePos - readPos \in 0 .. totalSize
    BY DEF RingInv, ShmTypes, Calls
  <2>2. \A p \in readPos .. writePos - 1 : p \in readPos .. writePos + wdone - 1
    BY DEF RingInv, ShmTypes, Calls
  <2> QED
    BY <2>1, <2>2 DEF RingInv, Stored, UnreadKept, AvailableToRead, Slot
<1> QED
  BY <1>1, RingInvariant, PTL

(* With writers that agree on the size, a reader attaches only to a finished header, and  *)
(* the ring it describes is within the object, also after deaths during attach().         *)
THEOREM ReaderAttachesSoundly == SameSize => (ShmSpec => []AttachedSound)
<1> SUFFICES ASSUME SameSize PROVE ShmSpec => []AttachedSound
  OBVIOUS
<1>1. RingInv => AttachedSound
  BY OneSize DEF RingInv, ShmTypes, Object, AttachedSound, ValidHeader
<1> QED
  BY <1>1, RingInvariant, PTL

=============================================================================
