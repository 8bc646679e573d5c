---------------------------- MODULE JobThreadActor ----------------------------
(***************************************************************************)
(* job::threads::JobThreadActor<Msg>: a mailbox drained in batches on a    *)
(* ThreadPool.  m_isScheduled stands for "a batch is submitted or running";*)
(* whoever turns it from false to true submits a batch, and the batch that *)
(* finds the mailbox empty turns it back, looks once more, and goes on if  *)
(* it wins the flag again.  No lock covers the mailbox and the flag        *)
(* together.                                                               *)
(*                                                                         *)
(* The mailbox is a JobBoundedMPMCQueue, used here through the atomic      *)
(* operations of module BoundedQueue, which MPMCQueue implements.  The     *)
(* pool is a number of waiting batches and the threads that take them.     *)
(***************************************************************************)
EXTENDS Integers, Sequences, FiniteSets, SequencesExt

CONSTANTS
    Msgs,           \* messages, each the argument of one call of post()
    Throwing,       \* those for which onMessage() throws
    Threads,        \* pool threads
    Cap,            \* mailboxCap
    BatchSize,      \* kActorBatchSize
    PoolMayStop     \* may the pool be shut down under the actor?

ASSUME ActorAssumption ==
    /\ Throwing \subseteq Msgs /\ IsFiniteSet(Threads)
    /\ Cap \in Nat \ {0} /\ BatchSize \in Nat \ {0} /\ PoolMayStop \in BOOLEAN

VARIABLES
    m_inbox, closed,
    m_isScheduled,
    poolUp, batches,    \* does the pool accept work; the batches that wait in it
    post,               \* per message: where its call of post() is
    pc, count, m,       \* per thread: where processBatch() is, its locals
    asker, asked, said, \* isAlive(): where the caller is, what had been posted, the answer
    posted, handled     \* the messages in the order of push(), of onMessage()

mailVars == <<m_inbox, closed, posted>>
poolVars == <<poolUp, batches>>
runVars  == <<pc, count, m, handled>>
askVars  == <<asker, asked, said>>
vars == <<mailVars, m_isScheduled, poolVars, post, runVars, askVars>>

TypeOK ==
    /\ m_inbox \in Seq(Msgs) /\ Len(m_inbox) <= Cap /\ closed \in BOOLEAN
    /\ m_isScheduled \in BOOLEAN
    /\ poolUp \in BOOLEAN /\ batches \in Nat
    /\ post \in [Msgs -> {"new", "pushed", "submit", "true", "false"}]
    /\ pc \in [Threads -> {"idle", "loop", "handle", "clear", "recheck", "claim"}]
    /\ count \in [Threads -> 0..BatchSize] /\ m \in [Threads -> Msgs \cup {"none"}]
    /\ asker \in {"idle", "flag"} /\ asked \subseteq Msgs /\ said \in {"none", "true", "false"}
    /\ posted \in Seq(Msgs) /\ handled \in Seq(Msgs)

Init ==
    /\ m_inbox = << >> /\ closed = FALSE
    /\ m_isScheduled = FALSE
    /\ poolUp = TRUE /\ batches = 0
    /\ post = [x \in Msgs |-> "new"]
    /\ pc = [t \in Threads |-> "idle"] /\ count = [t \in Threads |-> 0] /\ m = [t \in Threads |-> "none"]
    /\ asker = "idle" /\ asked = {} /\ said = "none"
    /\ posted = << >> /\ handled = << >>

-----------------------------------------------------------------------------
(* post(): push() blocks while the mailbox is full, and fails once it is closed. *)
Posted(x, at) == post' = [post EXCEPT ![x] = at]

PostPush(x) ==
    /\ post[x] = "new" /\ ~closed /\ Len(m_inbox) < Cap
    /\ m_inbox' = Append(m_inbox, x) /\ posted' = Append(posted, x)
    /\ Posted(x, "pushed")
    /\ UNCHANGED <<closed, m_isScheduled, poolVars, runVars, askVars>>

PostRefused(x) ==
    /\ post[x] = "new" /\ closed
    /\ Posted(x, "false")
    /\ UNCHANGED <<mailVars, m_isScheduled, poolVars, runVars, askVars>>

(* Mutant: schedule() submits whatever the flag was. *)
Schedule_Always(x) ==
    /\ post[x] = "pushed"
    /\ m_isScheduled' = TRUE
    /\ Posted(x, "submit")
    /\ UNCHANGED <<mailVars, poolVars, runVars, askVars>>

Schedule(x) ==
    /\ post[x] = "pushed"
    /\ m_isScheduled' = TRUE
    /\ Posted(x, IF m_isScheduled THEN "true" ELSE "submit")
    /\ UNCHANGED <<mailVars, poolVars, runVars, askVars>>

(* ThreadPool::submit(): a pool that is shut down drops the batch. *)
SubmitBatch == batches' = (IF poolUp THEN batches + 1 ELSE batches) /\ UNCHANGED poolUp

PostSubmit(x) ==
    /\ post[x] = "submit"
    /\ SubmitBatch
    /\ Posted(x, "true")
    /\ UNCHANGED <<mailVars, m_isScheduled, runVars, askVars>>

-----------------------------------------------------------------------------
(* processBatch() on thread t. *)
Go(t, at) == pc' = [pc EXCEPT ![t] = at]

Start(t) ==
    /\ pc[t] = "idle" /\ batches > 0
    /\ batches' = batches - 1
    /\ Go(t, "loop") /\ count' = [count EXCEPT ![t] = 0]
    /\ UNCHANGED <<mailVars, m_isScheduled, poolUp, post, m, handled, askVars>>

(* Mutant: the newest message is taken. *)
TryPop_Newest(t) ==
    /\ pc[t] = "loop" /\ count[t] < BatchSize /\ m_inbox # << >>
    /\ m' = [m EXCEPT ![t] = Last(m_inbox)] /\ m_inbox' = Front(m_inbox)
    /\ Go(t, "handle")
    /\ UNCHANGED <<closed, posted, m_isScheduled, poolVars, post, count, handled, askVars>>

TryPop(t) ==
    /\ pc[t] = "loop" /\ count[t] < BatchSize /\ m_inbox # << >>
    /\ m' = [m EXCEPT ![t] = Head(m_inbox)] /\ m_inbox' = Tail(m_inbox)
    /\ Go(t, "handle")
    /\ UNCHANGED <<closed, posted, m_isScheduled, poolVars, post, count, handled, askVars>>

TryPopEmpty(t) ==
    /\ pc[t] = "loop" /\ count[t] < BatchSize /\ m_inbox = << >>
    /\ Go(t, "clear")
    /\ UNCHANGED <<mailVars, m_isScheduled, poolVars, post, count, m, handled, askVars>>

(* onMessage(): an exception leaves processBatch() and ends in the pool's future. *)
OnMessage(t) ==
    /\ pc[t] = "handle"
    /\ handled' = Append(handled, m[t]) /\ m' = [m EXCEPT ![t] = "none"]
    /\ IF m[t] \in Throwing THEN Go(t, "idle") /\ UNCHANGED count
                            ELSE Go(t, "loop") /\ count' = [count EXCEPT ![t] = @ + 1]
    /\ UNCHANGED <<mailVars, m_isScheduled, poolVars, post, askVars>>

(* Mutant: the batch ends without a second look at the mailbox. *)
ClearFlag_NoRecheck(t) ==
    /\ pc[t] = "clear"
    /\ m_isScheduled' = FALSE
    /\ Go(t, "idle")
    /\ UNCHANGED <<mailVars, poolVars, post, count, m, handled, askVars>>

ClearFlag(t) ==
    /\ pc[t] = "clear"
    /\ m_isScheduled' = FALSE
    /\ Go(t, "recheck")
    /\ UNCHANGED <<mailVars, poolVars, post, count, m, handled, askVars>>

Recheck(t) ==
    /\ pc[t] = "recheck"
    /\ Go(t, IF m_inbox = << >> THEN "idle" ELSE "claim")
    /\ UNCHANGED <<mailVars, m_isScheduled, poolVars, post, count, m, handled, askVars>>

Reclaim(t) ==
    /\ pc[t] = "claim"
    /\ m_isScheduled' = TRUE
    /\ Go(t, IF m_isScheduled THEN "idle" ELSE "loop") /\ count' = [count EXCEPT ![t] = 0]
    /\ UNCHANGED <<mailVars, poolVars, post, m, handled, askVars>>

(* The batch is full: the rest of the mailbox is another task's. *)
Resubmit(t) ==
    /\ pc[t] = "loop" /\ count[t] = BatchSize
    /\ SubmitBatch
    /\ Go(t, "idle")
    /\ UNCHANGED <<mailVars, m_isScheduled, post, count, m, handled, askVars>>

-----------------------------------------------------------------------------
Stop ==
    /\ ~closed
    /\ closed' = TRUE
    /\ UNCHANGED <<m_inbox, posted, m_isScheduled, poolVars, post, runVars, askVars>>

Answer(a) == said' = a /\ asker' = "idle"

(* Mutant: the flag is read before the mailbox. *)
IsAlive_FlagFirst ==
    /\ \/ /\ asker = "idle" /\ asked' = {x \in Msgs : post[x] = "true"}
          /\ IF m_isScheduled THEN Answer("true") ELSE asker' = "flag" /\ said' = "none"
       \/ /\ asker = "flag" /\ UNCHANGED asked
          /\ Answer(IF m_inbox = << >> THEN "false" ELSE "true")
    /\ UNCHANGED <<mailVars, m_isScheduled, poolVars, post, runVars>>

(* isAlive(): the mailbox, then the flag. *)
IsAlive ==
    /\ \/ /\ asker = "idle" /\ asked' = {x \in Msgs : post[x] = "true"}
          /\ IF m_inbox # << >> THEN Answer("true") ELSE asker' = "flag" /\ said' = "none"
       \/ /\ asker = "flag" /\ UNCHANGED asked
          /\ Answer(IF m_isScheduled THEN "true" ELSE "false")
    /\ UNCHANGED <<mailVars, m_isScheduled, poolVars, post, runVars>>

(* ThreadPool::shutdown() drops what waits and lets what runs end. *)
PoolShutdown ==
    /\ PoolMayStop /\ poolUp
    /\ poolUp' = FALSE /\ batches' = 0
    /\ UNCHANGED <<mailVars, m_isScheduled, post, runVars, askVars>>

-----------------------------------------------------------------------------
Post(x) == PostPush(x) \/ PostRefused(x) \/ Schedule(x) \/ PostSubmit(x)
Batch(t) == TryPop(t) \/ TryPopEmpty(t) \/ OnMessage(t) \/ ClearFlag(t) \/ Recheck(t)
            \/ Reclaim(t) \/ Resubmit(t)

Next ==
    \/ \E x \in Msgs : Post(x)
    \/ \E t \in Threads : Start(t) \/ Batch(t)
    \/ Stop \/ IsAlive \/ PoolShutdown

Spec == Init /\ [][Next]_vars

(* A started post() goes on, the pool takes batches while some wait, and a batch goes on.   *)
FairSpec ==
    /\ Spec
    /\ \A x \in Msgs : WF_vars(Schedule(x) \/ PostSubmit(x))
    /\ WF_vars(\E t \in Threads : Start(t)) /\ \A t \in Threads : WF_vars(Batch(t))

-----------------------------------------------------------------------------
(* Properties *)

(* The actor's promise to onMessage(): calls never overlap, on however many threads.        *)
OneAtATime == \A t, u \in Threads : pc[t] = "handle" /\ pc[u] = "handle" => t = u

(* The right to drain the mailbox: a batch in the pool, one running that has not lowered    *)
(* the flag, or a post() that is about to submit one.                                       *)
Tokens ==
    batches + Cardinality({t \in Threads : pc[t] \in {"loop", "handle", "clear"}})
            + Cardinality({x \in Msgs : post[x] = "submit"})

(* There is at most one such right, and none while the flag is down.                        *)
OneToken == Tokens <= (IF m_isScheduled THEN 1 ELSE 0)

(* Messages are handled in the order in which push() accepted them: what was handled, what   *)
(* is being handled and what waits make up what was posted.                                 *)
Handling == SetToSeq({m[t] : t \in {u \in Threads : pc[u] = "handle"}})
InOrder == handled \o Handling \o m_inbox = posted

(* isAlive() answers false only when every message whose post() had returned before the     *)
(* call has been handled.                                                                   *)
AliveAnswer == said = "false" => asked \subseteq ToSet(handled)

(* Every accepted message is handled, unless the pool is shut down under the actor.         *)
AcceptedHandled == \A x \in Msgs : post[x] = "pushed" ~> (x \in ToSet(handled) \/ ~poolUp)

===============================================================================
