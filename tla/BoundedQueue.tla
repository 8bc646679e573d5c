---------------------------- MODULE BoundedQueue ----------------------------
(***************************************************************************)
(* What JobBoundedMPMCQueue promises: a linearizable FIFO buffer of at     *)
(* most Cap values.  An operation that was called takes effect in one      *)
(* atomic step, when it can, and then returns.  Once the queue is closed   *)
(* pushes fail, pops drain what is left and then fail.  No single thread   *)
(* is promised service, but while an operation of a kind can take effect,  *)
(* some operation of that kind does.                                       *)
(***************************************************************************)
EXTENDS Naturals, Sequences

CONSTANTS Clients, Values, NoValue, Cap

VARIABLES
    deque,      \* the values, oldest first
    closed,
    st,         \* per client: "idle", "pending" or "done"
    op, arg,    \* per client: the operation it called, the value it pushes
    res         \* per client: <<value>> when the operation succeeded, << >> when it failed

vars == <<deque, closed, st, op, arg, res>>

Requests == ({"pop", "tryPop"} \X {NoValue}) \cup ({"push", "tryPush"} \X Values)

Init ==
    /\ deque = << >> /\ closed = FALSE
    /\ st = [c \in Clients |-> "idle"]
    /\ op = [c \in Clients |-> "none"]
    /\ arg = [c \in Clients |-> NoValue]
    /\ res = [c \in Clients |-> << >>]

Call(c, o, v) ==
    /\ st[c] = "idle"
    /\ st' = [st EXCEPT ![c] = "pending"]
    /\ op' = [op EXCEPT ![c] = o] /\ arg' = [arg EXCEPT ![c] = v]
    /\ UNCHANGED <<deque, closed, res>>

Finish(c, r) ==
    /\ st[c] = "pending"
    /\ st' = [st EXCEPT ![c] = "done"] /\ res' = [res EXCEPT ![c] = r]
    /\ UNCHANGED <<op, arg, closed>>

Pushed(c) ==
    /\ op[c] \in {"push", "tryPush"} /\ ~closed /\ Len(deque) < Cap
    /\ deque' = Append(deque, arg[c])
    /\ Finish(c, <<arg[c]>>)

Popped(c) ==
    /\ op[c] \in {"pop", "tryPop"} /\ deque # << >>
    /\ deque' = Tail(deque)
    /\ Finish(c, <<Head(deque)>>)

Failed(c) ==
    /\ \/ op[c] = "pop" /\ closed /\ deque = << >>
       \/ op[c] = "tryPop" /\ deque = << >>
       \/ op[c] = "push" /\ closed
       \/ op[c] = "tryPush" /\ (closed \/ Len(deque) >= Cap)
    /\ Finish(c, << >>) /\ UNCHANGED deque

Return(c) ==
    /\ st[c] = "done"
    /\ st' = [st EXCEPT ![c] = "idle"]
    /\ op' = [op EXCEPT ![c] = "none"] /\ arg' = [arg EXCEPT ![c] = NoValue]
    /\ res' = [res EXCEPT ![c] = << >>]
    /\ UNCHANGED <<deque, closed>>

Close ==
    /\ closed' = TRUE
    /\ UNCHANGED <<deque, st, op, arg, res>>

Next ==
    \/ \E c \in Clients : \E r \in Requests : Call(c, r[1], r[2])
    \/ \E c \in Clients : Pushed(c) \/ Popped(c) \/ Failed(c) \/ Return(c)
    \/ Close

Fairness ==
    /\ WF_vars(\E c \in Clients : Pushed(c))
    /\ WF_vars(\E c \in Clients : Popped(c))
    /\ \A c \in Clients : WF_vars(Failed(c)) /\ WF_vars(Return(c))

Spec == Init /\ [][Next]_vars
FairSpec == Spec /\ Fairness

=============================================================================
