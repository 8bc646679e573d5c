------------------------- MODULE JobThreadActorProofs -------------------------
(***************************************************************************)
(* For any number of messages, threads and mailbox slots: onMessage() is   *)
(* never entered by two threads, messages are handled in the order of      *)
(* push(), and isAlive() does not deny accepted work.  The flag alone does *)
(* not show it: the right to drain the mailbox passes from a post() to the *)
(* pool, to a batch, and back, and the invariant says where it may be.     *)
(***************************************************************************)
EXTENDS JobThreadActor, SequenceTheorems, FiniteSetTheorems, TLAPS

Busy == {t \in Threads : pc[t] \in {"loop", "handle", "clear"}}
Submitting == {x \in Msgs : post[x] = "submit"}

(* What the argument needs of the types. *)
Types ==
    /\ m_isScheduled \in BOOLEAN /\ poolUp \in BOOLEAN /\ batches \in Nat
    /\ post \in [Msgs -> {"new", "pushed", "submit", "true", "false"}]
    /\ pc \in [Threads -> {"idle", "loop", "handle", "clear", "recheck", "claim"}]

(* At most one holder of the right, and none while the flag is down. *)
OneHolder ==
    /\ \A t, u \in Busy : t = u
    /\ \A x, y \in Submitting : x = y
    /\ \A t \in Busy : m_isScheduled /\ batches = 0 /\ Submitting = {}
    /\ \A x \in Submitting : m_isScheduled /\ batches = 0
    /\ batches # 0 => m_isScheduled /\ batches = 1

IInv == Types /\ OneHolder

-----------------------------------------------------------------------------
(* The invariant holds of a new actor. *)
LEMMA InitIInv == Init => IInv
<1> SUFFICES ASSUME Init PROVE IInv
  OBVIOUS
<1>1. Types
  BY DEF Init, Types
<1>2. Busy = {} /\ Submitting = {} /\ batches = 0
  BY DEF Init, Busy, Submitting
<1> QED
  BY <1>1, <1>2 DEF IInv, OneHolder

(* post() hands the right from the flag to the pool. *)
LEMMA PostKeeps ==
    ASSUME IInv, NEW x \in Msgs, Post(x)
    PROVE  IInv'
<1> USE DEF IInv, Types, Busy, Submitting
<1>1. CASE PostPush(x)
  BY <1>1 DEF PostPush, Posted, OneHolder, poolVars, runVars
<1>2. CASE PostRefused(x)
  BY <1>2 DEF PostRefused, Posted, OneHolder, poolVars, runVars
<1>3. CASE Schedule(x)
  <2>1. Types'
    BY <1>3 DEF Schedule, Posted, poolVars, runVars
  <2>2. CASE m_isScheduled
    BY <1>3, <2>1, <2>2 DEF Schedule, Posted, OneHolder, poolVars, runVars
  <2>3. CASE ~m_isScheduled
    <3>1. Busy = {} /\ Submitting = {} /\ batches = 0
      BY <2>3 DEF OneHolder
    <3>2. Busy' = {} /\ Submitting' = {x} /\ batches' = 0 /\ m_isScheduled' = TRUE
      BY <1>3, <2>3, <3>1 DEF Schedule, Posted, poolVars, runVars
    <3> QED
      BY <2>1, <3>2 DEF OneHolder
  <2> QED
    BY <2>2, <2>3
<1>4. CASE PostSubmit(x)
  <2>1. Types'
    BY <1>4 DEF PostSubmit, SubmitBatch, Posted, runVars
  <2>2. Submitting = {x} /\ Busy = {} /\ batches = 0 /\ m_isScheduled
    BY <1>4 DEF PostSubmit, OneHolder
  <2>3. Submitting' = {} /\ Busy' = {} /\ batches' \in {0, 1} /\ m_isScheduled' = m_isScheduled
    BY <1>4, <2>2 DEF PostSubmit, SubmitBatch, Posted, runVars
  <2> QED
    BY <2>1, <2>2, <2>3 DEF OneHolder
<1> QED
  BY <1>1, <1>2, <1>3, <1>4 DEF Post

(* A batch takes the right from the pool, and gives it up with the flag. *)
LEMMA BatchKeeps ==
    ASSUME IInv, NEW t \in Threads, Start(t) \/ Batch(t)
    PROVE  IInv'
<1> USE DEF IInv, Types, Submitting
<1>1. CASE Start(t)
  <2>1. Types' /\ Submitting' = Submitting /\ m_isScheduled' = m_isScheduled
    BY <1>1 DEF Start, Go
  <2>2. batches = 1 /\ Busy = {} /\ Submitting = {} /\ m_isScheduled
    BY <1>1 DEF Start, OneHolder, Busy
  <2>3. Busy' = {t} /\ batches' = 0
    BY <1>1, <2>2 DEF Start, Go, Busy
  <2> QED
    BY <2>1, <2>2, <2>3 DEF OneHolder
<1>2. CASE TryPop(t) \/ TryPopEmpty(t) \/ OnMessage(t)
  <2>1. /\ Types' /\ Submitting' = Submitting /\ m_isScheduled' = m_isScheduled
        /\ batches' = batches /\ t \in Busy /\ Busy' \subseteq Busy
    BY <1>2 DEF TryPop, TryPopEmpty, OnMessage, Go, mailVars, poolVars, Busy
  <2> QED
    BY <2>1 DEF OneHolder
<1>3. CASE ClearFlag(t)
  <2>1. Types' /\ Submitting' = Submitting /\ batches' = batches
    BY <1>3 DEF ClearFlag, Go, poolVars
  <2>2. Busy = {t} /\ Submitting = {} /\ batches = 0
    BY <1>3 DEF ClearFlag, OneHolder, Busy
  <2>3. Busy' = {}
    BY <1>3, <2>2 DEF ClearFlag, Go, Busy
  <2> QED
    BY <2>1, <2>2, <2>3 DEF OneHolder
<1>4. CASE Recheck(t)
  <2>1. /\ Types' /\ Submitting' = Submitting /\ m_isScheduled' = m_isScheduled
        /\ batches' = batches /\ Busy' = Busy
    BY <1>4 DEF Recheck, Go, poolVars, Busy
  <2> QED
    BY <2>1 DEF OneHolder
<1>5. CASE Reclaim(t)
  <2>1. Types' /\ Submitting' = Submitting /\ batches' = batches /\ m_isScheduled' = TRUE
    BY <1>5 DEF Reclaim, Go, poolVars
  <2>2. CASE m_isScheduled
    <3>1. Busy' = Busy
      BY <1>5, <2>2 DEF Reclaim, Go, Busy
    <3> QED
      BY <2>1, <2>2, <3>1 DEF OneHolder
  <2>3. CASE ~m_isScheduled
    <3>1. Busy = {} /\ Submitting = {} /\ batches = 0
      BY <2>3 DEF OneHolder
    <3>2. Busy' = {t}
      BY <1>5, <2>3, <3>1 DEF Reclaim, Go, Busy
    <3> QED
      BY <2>1, <3>1, <3>2 DEF OneHolder
  <2> QED
    BY <2>2, <2>3
<1>6. CASE Resubmit(t)
  <2>1. Types' /\ Submitting' = Submitting /\ m_isScheduled' = m_isScheduled
    BY <1>6 DEF Resubmit, SubmitBatch, Go
  <2>2. Busy = {t} /\ Submitting = {} /\ batches = 0 /\ m_isScheduled
    BY <1>6 DEF Resubmit, OneHolder, Busy
  <2>3. Busy' = {} /\ batches' \in {0, 1}
    BY <1>6, <2>2 DEF Resubmit, SubmitBatch, Go, Busy
  <2> QED
    BY <2>1, <2>2, <2>3 DEF OneHolder
<1> QED
  BY <1>1, <1>2, <1>3, <1>4, <1>5, <1>6 DEF Batch

(* Every step of post(), of a batch, of stop(), isAlive() and of the pool keeps it. *)
LEMMA StepKeeps == IInv /\ [Next]_vars => IInv'
<1> SUFFICES ASSUME IInv, [Next]_vars PROVE IInv'
  OBVIOUS
<1> USE DEF IInv, Types, OneHolder, Busy, Submitting
<1>1. CASE \E x \in Msgs : Post(x)
  BY <1>1, PostKeeps
<1>2. CASE \E t \in Threads : Start(t) \/ Batch(t)
  BY <1>2, BatchKeeps
<1>3. CASE Stop
  BY <1>3 DEF Stop, poolVars, runVars
<1>4. CASE IsAlive
  BY <1>4 DEF IsAlive, poolVars, runVars
<1>5. CASE PoolShutdown
  BY <1>5 DEF PoolShutdown, runVars
<1>6. CASE UNCHANGED vars
  BY <1>6 DEF vars, poolVars, runVars
<1> QED
  BY <1>1, <1>2, <1>3, <1>4, <1>5, <1>6 DEF Next

(* The actor's calls of onMessage() never overlap: processBatch() is entered with the right *)
(* that the exchange on m_isScheduled hands out once.                                       *)
THEOREM HandlersDoNotOverlap == Spec => []OneAtATime
<1>1. IInv => OneAtATime
  BY DEF IInv, OneHolder, Busy, OneAtATime
<1> QED
  BY InitIInv, StepKeeps, <1>1, PTL DEF Spec

-----------------------------------------------------------------------------
(* A batch that is inside onMessage() has a message, and room in its count. *)
Carries == \A t \in Threads : pc[t] = "handle" => m[t] \in Msgs /\ count[t] < BatchSize

TInv == TypeOK /\ Carries

(* The variables stay in their types; push() never overfills the mailbox. *)
LEMMA TypeKeeps == TInv /\ [Next]_vars => TInv'
<1> SUFFICES ASSUME TInv, [Next]_vars PROVE TInv'
  OBVIOUS
<1> USE ActorAssumption DEF ActorAssumption, TInv, TypeOK, Carries, mailVars, poolVars, runVars, askVars
<1>1. ASSUME NEW x \in Msgs, Post(x) PROVE TInv'
  <2> USE DEF Posted
  <2>1. CASE PostPush(x)
    BY <2>1 DEF PostPush
  <2>2. CASE PostRefused(x)
    BY <2>2 DEF PostRefused
  <2>3. CASE Schedule(x)
    BY <2>3 DEF Schedule
  <2>4. CASE PostSubmit(x)
    BY <2>4 DEF PostSubmit, SubmitBatch
  <2> QED
    BY <1>1, <2>1, <2>2, <2>3, <2>4 DEF Post
<1>2. ASSUME NEW t \in Threads, Start(t) \/ Batch(t) PROVE TInv'
  <2> USE DEF Go
  <2>1. CASE Start(t)
    BY <2>1 DEF Start
  <2>2. CASE TryPop(t)
    <3>1. Head(m_inbox) \in Msgs /\ Tail(m_inbox) \in Seq(Msgs) /\ Len(Tail(m_inbox)) <= Cap
      BY <2>2, HeadTailProperties DEF TryPop
    <3> QED
      BY <2>2, <3>1 DEF TryPop
  <2>3. CASE TryPopEmpty(t)
    BY <2>3 DEF TryPopEmpty
  <2>4. CASE OnMessage(t)
    <3>1. m[t] \in Msgs /\ count[t] < BatchSize /\ handled' = Append(handled, m[t])
      BY <2>4 DEF OnMessage
    <3>2. count' \in [Threads -> 0 .. BatchSize]
      <4>1. count[t] + 1 \in 0 .. BatchSize
        BY <3>1
      <4>2. count' = count \/ count' = [count EXCEPT ![t] = count[t] + 1]
        BY <2>4 DEF OnMessage
      <4> QED
        BY <4>1, <4>2
    <3>3. handled' \in Seq(Msgs)
      BY <3>1
    <3> QED
      BY <2>4, <3>2, <3>3 DEF OnMessage
  <2>5. CASE ClearFlag(t)
    BY <2>5 DEF ClearFlag
  <2>6. CASE Recheck(t)
    BY <2>6 DEF Recheck
  <2>7. CASE Reclaim(t)
    BY <2>7 DEF Reclaim
  <2>8. CASE Resubmit(t)
    BY <2>8 DEF Resubmit, SubmitBatch
  <2> QED
    BY <1>2, <2>1, <2>2, <2>3, <2>4, <2>5, <2>6, <2>7, <2>8 DEF Batch
<1>3. CASE Stop
  BY <1>3 DEF Stop
<1>4. CASE IsAlive
  BY <1>4 DEF IsAlive, Answer
<1>5. CASE PoolShutdown
  BY <1>5 DEF PoolShutdown
<1>6. CASE UNCHANGED vars
  BY <1>6 DEF vars
<1> QED
  BY <1>1, <1>2, <1>3, <1>4, <1>5, <1>6 DEF Next

(* The message a thread handles, or none. *)
Handlers == {t \in Threads : pc[t] = "handle"}

(* InOrder, with at most one thread inside onMessage(). *)
Ordered ==
    /\ \A t \in Handlers : (handled \o <<m[t]>>) \o m_inbox = posted
    /\ Handlers = {} => handled \o m_inbox = posted

(* Every message that push() accepted waits, is being handled or was handled. *)
Kept ==
    \A x \in Msgs : post[x] \in {"pushed", "submit", "true"} =>
        x \in ToSet(m_inbox) \/ x \in ToSet(handled) \/ \E t \in Handlers : m[t] = x

(* Between the two reads of isAlive(), what was asked about has left the mailbox. *)
Asked ==
    /\ asker = "flag" => \A x \in asked : x \in ToSet(handled) \/ \E t \in Handlers : m[t] = x
    /\ AliveAnswer

(* What Append and Tail do to the elements of a sequence. *)
LEMMA ToSetAppend ==
    ASSUME NEW s \in Seq(Msgs), NEW x \in Msgs
    PROVE  ToSet(Append(s, x)) = ToSet(s) \cup {x}
<1>1. /\ Append(s, x) \in Seq(Msgs) /\ Len(Append(s, x)) = Len(s) + 1 /\ Len(s) \in Nat
      /\ \A i \in 1 .. Len(s) : Append(s, x)[i] = s[i]
      /\ Append(s, x)[Len(s) + 1] = x
  BY AppendProperties, LenProperties
<1>2. DOMAIN s = 1 .. Len(s) /\ DOMAIN Append(s, x) = 1 .. Len(s) + 1
  BY <1>1, LenProperties
<1> QED
  BY <1>1, <1>2 DEF ToSet

LEMMA ToSetTail ==
    ASSUME NEW s \in Seq(Msgs), s # << >>
    PROVE  ToSet(s) = {Head(s)} \cup ToSet(Tail(s))
<1>1. /\ Tail(s) \in Seq(Msgs) /\ Len(Tail(s)) = Len(s) - 1 /\ Len(s) \in Nat \ {0}
      /\ \A i \in 1 .. Len(s) - 1 : Tail(s)[i] = s[i + 1]
      /\ Head(s) = s[1]
  BY HeadTailProperties, EmptySeq
<1>2. DOMAIN s = 1 .. Len(s) /\ DOMAIN Tail(s) = 1 .. Len(s) - 1
  BY <1>1, LenProperties
<1>3. \A i \in 1 .. Len(s) : i = 1 \/ (i - 1 \in 1 .. Len(s) - 1 /\ Tail(s)[i - 1] = s[i])
  BY <1>1
<1>4. ToSet(s) \subseteq {Head(s)} \cup ToSet(Tail(s))
  <2> SUFFICES ASSUME NEW i \in 1 .. Len(s) PROVE s[i] \in {Head(s)} \cup ToSet(Tail(s))
    BY <1>2 DEF ToSet
  <2>1. CASE i = 1
    BY <1>1, <2>1
  <2>2. CASE i - 1 \in 1 .. Len(s) - 1 /\ Tail(s)[i - 1] = s[i]
    BY <1>2, <2>2 DEF ToSet
  <2> QED
    BY <1>3, <2>1, <2>2
<1>5. {Head(s)} \cup ToSet(Tail(s)) \subseteq ToSet(s)
  BY <1>1, <1>2 DEF ToSet
<1> QED
  BY <1>4, <1>5

(* A sequence is its head and its tail. *)
LEMMA HeadThenTail ==
    ASSUME NEW s \in Seq(Msgs), s # << >>
    PROVE  s = <<Head(s)>> \o Tail(s)
<1>1. Len(s) \in Nat \ {0} /\ Head(s) \in Msgs /\ Tail(s) \in Seq(Msgs) /\ Len(Tail(s)) = Len(s) - 1
  BY HeadTailProperties, EmptySeq
<1>2. <<Head(s)>> \in Seq(Msgs) /\ Len(<<Head(s)>>) = 1 /\ <<Head(s)>>[1] = s[1]
  BY <1>1
<1>3. /\ <<Head(s)>> \o Tail(s) \in Seq(Msgs) /\ Len(<<Head(s)>> \o Tail(s)) = Len(s)
      /\ \A i \in 1 .. Len(s) : (<<Head(s)>> \o Tail(s))[i] =
                                  IF i <= 1 THEN <<Head(s)>>[i] ELSE Tail(s)[i - 1]
  BY <1>1, <1>2, ConcatProperties
<1>4. \A i \in 1 .. Len(s) - 1 : Tail(s)[i] = s[i + 1]
  BY <1>1, HeadTailProperties
<1>5. \A i \in 1 .. Len(s) : (<<Head(s)>> \o Tail(s))[i] = s[i]
  BY <1>1, <1>2, <1>3, <1>4
<1> QED
  BY <1>3, <1>5, SeqEqual

(* SetToSeq() of at most one element, as InOrder uses it. *)
LEMMA SetToSeqSmall ==
    /\ SetToSeq({}) = << >>
    /\ \A x : SetToSeq({x}) = <<x>>
<1>1. SetToSeq({}) = << >>
  <2>1. 1 .. Cardinality({}) = {}
    BY FS_EmptySet
  <2>2. \A f : f \in [{} -> {}] => f = << >>
    OBVIOUS
  <2>3. << >> \in [{} -> {}] /\ IsInjective(<< >>)
    BY DEF IsInjective
  <2> QED
    BY <2>1, <2>2, <2>3 DEF SetToSeq
<1>2. ASSUME NEW x PROVE SetToSeq({x}) = <<x>>
  <2>0. Cardinality({x}) = 1
    BY FS_Singleton
  <2>1. 1 .. Cardinality({x}) = {1}
    BY <2>0
  <2>2. \A f : f \in [{1} -> {x}] => f = <<x>>
    OBVIOUS
  <2>3. <<x>> \in [{1} -> {x}] /\ IsInjective(<<x>>)
    BY DEF IsInjective
  <2> QED
    BY <2>1, <2>2, <2>3 DEF SetToSeq
<1> QED
  BY <1>1, <1>2

(* The steps of post() append to the mailbox and to the history together. *)
LEMMA PostOrder ==
    ASSUME TInv, Ordered, Kept, Asked, NEW x \in Msgs, Post(x)
    PROVE  Ordered' /\ Kept' /\ Asked'
<1> USE DEF Posted, poolVars, runVars, askVars, Handlers
<1>0. /\ m_inbox \in Seq(Msgs) /\ handled \in Seq(Msgs) /\ posted \in Seq(Msgs)
      /\ post \in [Msgs -> {"new", "pushed", "submit", "true", "false"}]
      /\ \A t \in Handlers : m[t] \in Msgs
  BY DEF TInv, TypeOK, Carries
<1>1. UNCHANGED <<pc, m, handled, asker, asked, said>> /\ Handlers' = Handlers
  BY DEF Post, PostPush, PostRefused, Schedule, PostSubmit
<1>2. Asked'
  BY <1>1 DEF Asked, AliveAnswer
<1>3. CASE PostPush(x)
  <2>1. /\ m_inbox' = Append(m_inbox, x) /\ posted' = Append(posted, x)
        /\ post' = [post EXCEPT ![x] = "pushed"]
    BY <1>3 DEF PostPush
  <2>2. m_inbox' = m_inbox \o <<x>> /\ posted' = posted \o <<x>> /\ <<x>> \in Seq(Msgs)
    BY <1>0, <2>1, AppendIsConcat
  <2>3. ASSUME NEW s \in Seq(Msgs), s \o m_inbox = posted PROVE s \o m_inbox' = posted'
    BY <1>0, <2>2, <2>3, ConcatAssociative
  <2>4. Ordered'
    <3>1. ASSUME NEW t \in Handlers PROVE (handled \o <<m[t]>>) \o m_inbox' = posted'
      <4>1. handled \o <<m[t]>> \in Seq(Msgs)
        BY <1>0, ConcatProperties
      <4> QED
        BY <2>3, <4>1 DEF Ordered
    <3>2. Handlers = {} => handled \o m_inbox' = posted'
      BY <1>0, <2>3 DEF Ordered
    <3> QED
      BY <1>1, <3>1, <3>2 DEF Ordered
  <2>5. Kept'
    <3>1. ToSet(m_inbox') = ToSet(m_inbox) \cup {x}
      BY <1>0, <2>1, ToSetAppend
    <3> QED
      BY <1>0, <1>1, <2>1, <3>1 DEF Kept
  <2> QED
    BY <1>2, <2>4, <2>5
<1>4. CASE PostRefused(x) \/ Schedule(x) \/ PostSubmit(x)
  <2>1. /\ UNCHANGED <<m_inbox, posted>>
        /\ post' = [post EXCEPT ![x] = "false"]
           \/ (post[x] \in {"pushed", "submit"} /\ \A y \in Msgs : y # x => post'[y] = post[y])
    BY <1>0, <1>4 DEF PostRefused, Schedule, PostSubmit, mailVars
  <2>2. Ordered'
    BY <1>1, <2>1 DEF Ordered
  <2>3. Kept'
    BY <1>0, <1>1, <2>1 DEF Kept
  <2> QED
    BY <1>2, <2>2, <2>3
<1> QED
  BY <1>3, <1>4 DEF Post

(* A step of a batch that moves no message: the threads in onMessage() stay there. *)
LEMMA QuietOrder ==
    ASSUME Ordered, Kept, Asked, UNCHANGED <<m_inbox, posted, handled, m, post>>,
           Handlers' = Handlers, UNCHANGED askVars
    PROVE  Ordered' /\ Kept' /\ Asked'
BY DEF Ordered, Kept, Asked, AliveAnswer, Handlers, askVars

(* A batch moves a message from the mailbox to its thread, and from there to the history. *)
LEMMA BatchOrder ==
    ASSUME TInv, IInv, Ordered, Kept, Asked, NEW t \in Threads, Start(t) \/ Batch(t)
    PROVE  Ordered' /\ Kept' /\ Asked'
<1> USE DEF Go, Handlers
<1>0. /\ m_inbox \in Seq(Msgs) /\ handled \in Seq(Msgs) /\ posted \in Seq(Msgs)
      /\ pc \in [Threads -> {"idle", "loop", "handle", "clear", "recheck", "claim"}]
      /\ m \in [Threads -> Msgs \cup {"none"}]
      /\ \A u \in Handlers : m[u] \in Msgs
  BY DEF TInv, TypeOK, Carries
<1>1. CASE Start(t) \/ TryPopEmpty(t) \/ ClearFlag(t) \/ Recheck(t) \/ Reclaim(t) \/ Resubmit(t)
  <2>1. UNCHANGED <<m_inbox, posted, handled, m, post, askVars>> /\ Handlers' = Handlers
    BY <1>0, <1>1 DEF Start, TryPopEmpty, ClearFlag, Recheck, Reclaim, Resubmit, SubmitBatch,
       mailVars
  <2> QED
    BY <2>1, QuietOrder
<1>2. CASE TryPop(t)
  <2>1. /\ UNCHANGED <<posted, handled, post, askVars>> /\ m_inbox # << >>
        /\ m_inbox' = Tail(m_inbox) /\ m' = [m EXCEPT ![t] = Head(m_inbox)]
        /\ pc' = [pc EXCEPT ![t] = "handle"] /\ pc[t] = "loop"
    BY <1>2 DEF TryPop
  <2>2. Handlers = {} /\ Handlers' = {t} /\ m'[t] = Head(m_inbox)
    BY <1>0, <2>1 DEF IInv, OneHolder, Busy
  <2>3. Head(m_inbox) \in Msgs /\ Tail(m_inbox) \in Seq(Msgs)
    BY <1>0, <2>1, HeadTailProperties
  <2>4. Ordered'
    <3>1. m_inbox = <<Head(m_inbox)>> \o Tail(m_inbox)
      BY <1>0, <2>1, HeadThenTail
    <3>2. handled \o (<<Head(m_inbox)>> \o Tail(m_inbox)) = posted
      BY <2>2, <3>1 DEF Ordered
    <3>3. (handled \o <<Head(m_inbox)>>) \o Tail(m_inbox) = posted
      <4>1. <<Head(m_inbox)>> \in Seq(Msgs)
        BY <2>3
      <4>2. (handled \o <<Head(m_inbox)>>) \o Tail(m_inbox)
              = handled \o (<<Head(m_inbox)>> \o Tail(m_inbox))
        BY <1>0, <2>3, <4>1, ConcatAssociative
      <4> QED
        BY <3>2, <4>2
    <3> QED
      BY <2>1, <2>2, <3>3 DEF Ordered
  <2>5. ToSet(m_inbox) = {Head(m_inbox)} \cup ToSet(m_inbox')
    BY <1>0, <2>1, ToSetTail
  <2>6. Kept'
    BY <2>1, <2>2, <2>5 DEF Kept
  <2>7. Asked'
    BY <2>1, <2>2 DEF Asked, AliveAnswer, askVars
  <2> QED
    BY <2>4, <2>6, <2>7
<1>3. CASE OnMessage(t)
  <2>1. /\ UNCHANGED <<posted, m_inbox, post, askVars>>
        /\ handled' = Append(handled, m[t]) /\ pc[t] = "handle"
    BY <1>3 DEF OnMessage, mailVars
  <2>7. pc' = [pc EXCEPT ![t] = "idle"] \/ pc' = [pc EXCEPT ![t] = "loop"]
    BY <1>3 DEF OnMessage
  <2>8. \A u \in Threads : pc[u] = "handle" => u = t
    BY <2>1 DEF IInv, OneHolder, Busy
  <2>2. Handlers = {t} /\ Handlers' = {} /\ m[t] \in Msgs
    BY <1>0, <2>1, <2>7, <2>8
  <2>3. Ordered'
    <3>1. handled' = handled \o <<m[t]>>
      BY <1>0, <2>1, <2>2, AppendIsConcat
    <3> QED
      BY <2>1, <2>2, <3>1 DEF Ordered
  <2>4. ToSet(handled') = ToSet(handled) \cup {m[t]}
    BY <1>0, <2>1, <2>2, ToSetAppend
  <2>5. Kept'
    BY <2>1, <2>2, <2>4 DEF Kept
  <2>6. Asked'
    BY <2>1, <2>2, <2>4 DEF Asked, AliveAnswer, askVars
  <2> QED
    BY <2>3, <2>5, <2>6
<1> QED
  BY <1>1, <1>2, <1>3 DEF Batch

(* isAlive() sees an empty mailbox, and then a flag that is down: nobody is in onMessage(). *)
LEMMA IsAliveOrder ==
    ASSUME TInv, IInv, Ordered, Kept, Asked, IsAlive
    PROVE  Ordered' /\ Kept' /\ Asked'
<1> USE DEF Answer, Handlers
<1>1. UNCHANGED <<m_inbox, posted, handled, m, post>> /\ Handlers' = Handlers
  BY DEF IsAlive, mailVars, runVars
<1>2. Ordered' /\ Kept'
  BY <1>1 DEF Ordered, Kept
<1>3. CASE asker = "idle" /\ m_inbox # << >>
  <2>1. said' = "true" /\ asker' = "idle"
    BY <1>3 DEF IsAlive
  <2> QED
    BY <1>2, <2>1 DEF Asked, AliveAnswer
<1>4. CASE asker = "idle" /\ m_inbox = << >>
  <2>1. asked' = {x \in Msgs : post[x] = "true"} /\ said' = "none" /\ ToSet(m_inbox) = {}
    BY <1>4 DEF IsAlive, ToSet
  <2> QED
    BY <1>1, <1>2, <2>1 DEF Kept, Asked, AliveAnswer
<1>5. CASE asker = "flag"
  <2>1. asked' = asked /\ asker' = "idle" /\ said' = (IF m_isScheduled THEN "true" ELSE "false")
    BY <1>5 DEF IsAlive
  <2>2. ~m_isScheduled => Handlers = {}
    BY DEF IInv, OneHolder, Busy
  <2> QED
    BY <1>1, <1>2, <1>5, <2>1, <2>2 DEF Asked, AliveAnswer
<1> QED
  BY <1>2, <1>3, <1>4, <1>5 DEF TInv, TypeOK

(* Every step keeps the order of the messages, loses none, and keeps isAlive() honest. *)
LEMMA OrderKeeps ==
    ASSUME TInv, IInv, Ordered, Kept, Asked, [Next]_vars
    PROVE  Ordered' /\ Kept' /\ Asked'
<1>1. CASE \E x \in Msgs : Post(x)
  BY <1>1, PostOrder
<1>2. CASE \E t \in Threads : Start(t) \/ Batch(t)
  BY <1>2, BatchOrder
<1>3. CASE Stop \/ PoolShutdown \/ UNCHANGED vars
  BY <1>3, QuietOrder DEF Stop, PoolShutdown, vars, mailVars, runVars, Handlers
<1>4. CASE IsAlive
  BY <1>4, IsAliveOrder
<1> QED
  BY <1>1, <1>2, <1>3, <1>4 DEF Next

(* The whole invariant. *)
LEMMA OrderInvariant == Spec => [](TInv /\ IInv /\ Ordered /\ Kept /\ Asked)
<1>1. Init => TInv /\ Ordered /\ Kept /\ Asked
  <2> SUFFICES ASSUME Init PROVE TInv /\ Ordered /\ Kept /\ Asked
    OBVIOUS
  <2>1. TInv
    <3>1. m_inbox \in Seq(Msgs) /\ posted \in Seq(Msgs) /\ handled \in Seq(Msgs) /\ Len(m_inbox) = 0
      BY DEF Init
    <3>2. /\ count \in [Threads -> 0 .. BatchSize] /\ m \in [Threads -> Msgs \cup {"none"}]
          /\ Len(m_inbox) <= Cap
      BY <3>1, ActorAssumption DEF ActorAssumption, Init
    <3>3. /\ post \in [Msgs -> {"new", "pushed", "submit", "true", "false"}]
          /\ pc \in [Threads -> {"idle", "loop", "handle", "clear", "recheck", "claim"}]
          /\ \A t \in Threads : pc[t] = "idle"
      BY DEF Init
    <3>4. closed \in BOOLEAN /\ m_isScheduled \in BOOLEAN /\ poolUp \in BOOLEAN /\ batches \in Nat
      BY DEF Init
    <3>5. asker \in {"idle", "flag"} /\ asked \subseteq Msgs /\ said \in {"none", "true", "false"}
      BY DEF Init
    <3> QED
      BY <3>1, <3>2, <3>3, <3>4, <3>5 DEF TInv, TypeOK, Carries
  <2>2. Ordered
    BY DEF Init, Ordered, Handlers
  <2>3. Kept
    BY DEF Init, Kept
  <2>4. asker = "idle" /\ said = "none"
    BY DEF Init
  <2>5. Asked
    BY <2>4 DEF Asked, AliveAnswer
  <2> QED
    BY <2>1, <2>2, <2>3, <2>5
<1> QED
  BY <1>1, InitIInv, StepKeeps, TypeKeeps, OrderKeeps, PTL DEF Spec

(* Messages are handled in the order in which push() accepted them, and none is lost or     *)
(* handled twice: the one drain at a time of HandlersDoNotOverlap is what makes the order   *)
(* of onMessage() calls the order of the try_pop() calls.                                   *)
THEOREM HandledInOrder == Spec => []InOrder
<1>1. TInv /\ IInv /\ Ordered => InOrder
  <2> SUFFICES ASSUME TInv, IInv, Ordered PROVE handled \o Handling \o m_inbox = posted
    BY DEF InOrder
  <2>0. handled \in Seq(Msgs)
    BY DEF TInv, TypeOK
  <2>1. CASE Handlers = {}
    <3>1. {m[t] : t \in {u \in Threads : pc[u] = "handle"}} = {}
      BY <2>1 DEF Handlers
    <3>2. Handling = << >>
      BY <3>1, SetToSeqSmall DEF Handling
    <3> QED
      BY <2>0, <2>1, <3>2, ConcatEmptySeq DEF Ordered
  <2>2. ASSUME NEW t \in Handlers PROVE handled \o Handling \o m_inbox = posted
    <3>1. Handlers = {t}
      BY DEF IInv, OneHolder, Busy, Handlers
    <3>2. {m[u] : u \in {v \in Threads : pc[v] = "handle"}} = {m[t]}
      BY <3>1 DEF Handlers
    <3>3. Handling = <<m[t]>>
      BY <3>2, SetToSeqSmall DEF Handling
    <3> QED
      BY <2>2, <3>3 DEF Ordered
  <2> QED
    BY <2>1, <2>2
<1> QED
  BY <1>1, OrderInvariant, PTL

(* isAlive() answers false only when every message whose post() had returned before the     *)
(* call has been handled.  It reads the mailbox and then the flag: a message that had left  *)
(* the mailbox at the first read is in a batch, and a batch inside onMessage() holds the    *)
(* flag up until the second.                                                                *)
THEOREM AliveIsHonest == Spec => []AliveAnswer
<1>1. Asked => AliveAnswer
  BY DEF Asked
<1> QED
  BY <1>1, OrderInvariant, PTL

===============================================================================
