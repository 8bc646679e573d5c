---------------------------- MODULE JobThreadGraph ----------------------------
(***************************************************************************)
(* job::threads::JobThreadGraph: Kahn's algorithm on a thread pool.  run() *)
(* checks the graph for cycles, counts every node's unfinished             *)
(* prerequisites in depsLeft and submits the roots; the closure of a node  *)
(* runs its task, lowers depsLeft of the node's dependents and submits     *)
(* those that reach zero.  Each run has its own promise and counter, but   *)
(* depsLeft and m_failed belong to the graph and are shared by all runs.   *)
(*                                                                         *)
(* One client thread builds the graph and calls run() again and again.  An *)
(* edge carries a number, since addEdge() lets the same pair in twice.     *)
(* m_mutex is held for whole critical sections, each one action here.      *)
(***************************************************************************)
EXTENDS Integers, FiniteSets, FiniteSetsExt

CONSTANTS
    Nodes,          \* names a client may use
    MaxEdges,       \* bound: edges in the graph
    MaxCopies,      \* bound: times the same edge is added
    MaxRuns,        \* bound: calls of run()
    RerunNodes,     \* bound: nodes, and edges, of a graph that is run more than once
    RunWhenQuiet    \* does the client wait for the closures of a failed run
                    \* before it changes or runs the graph again?

ASSUME GraphAssumption ==
    /\ IsFiniteSet(Nodes) /\ MaxEdges \in Nat /\ MaxCopies \in Nat /\ MaxRuns \in Nat
    /\ RerunNodes \in Nat
    /\ RunWhenQuiet \in BOOLEAN

Runs == 1..MaxRuns
Jobs == Runs \X Nodes

VARIABLES
    hasPool,            \* was the graph given a pool?
    nodes, edges,       \* m_nodes and the nodes' depsList
    depsLeft, m_failed,
    client,             \* where the client is
    run,                \* the number of runs begun
    promise, cnt, tasks,\* per run
    pending,            \* per job: its closures that wait in the pool
    pc, ready,          \* per job: where its closure is, what it found ready
    succeeded, threw,   \* per job: how its task ended
    ran,                \* per job: how often its task ran
    plan                \* per run: the graph that run() found

graphVars == <<hasPool, nodes, edges>>
runVars   == <<client, run, tasks, plan>>
jobVars   == <<pending, pc, ready>>
taskVars  == <<succeeded, threw, ran>>
vars == <<graphVars, depsLeft, m_failed, runVars, promise, cnt, jobVars, taskVars>>

EdgeSet == Nodes \X Nodes \X (1..MaxCopies)
PC == {"idle", "test", "run", "fail", "break", "finish", "lower", "submit", "count", "last"}

TypeOK ==
    /\ hasPool \in BOOLEAN
    /\ nodes \subseteq Nodes /\ edges \subseteq EdgeSet
    /\ \A e \in edges : {e[1], e[2]} \subseteq nodes
    /\ depsLeft \in [Nodes -> Int] /\ m_failed \in BOOLEAN
    /\ client \in {"free", "plan", "roots"} /\ run \in 0..MaxRuns
    /\ promise \in [Runs -> {"none", "unset", "true", "false"}]
    /\ cnt \in [Runs -> Nat] /\ tasks \in [Runs -> Nat]
    /\ pending \in [Jobs -> Nat] /\ pc \in [Jobs -> PC] /\ ready \in [Jobs -> SUBSET Nodes]
    /\ plan \in [Runs -> [nodes : SUBSET Nodes, edges : SUBSET EdgeSet]]
    /\ succeeded \in [Jobs -> BOOLEAN] /\ threw \in [Jobs -> BOOLEAN] /\ ran \in [Jobs -> Nat]

Init ==
    /\ hasPool \in BOOLEAN
    /\ nodes = {} /\ edges = {}
    /\ depsLeft = [n \in Nodes |-> 0] /\ m_failed = FALSE
    /\ client = "free" /\ run = 0
    /\ promise = [r \in Runs |-> "none"]
    /\ cnt = [r \in Runs |-> 0] /\ tasks = [r \in Runs |-> 0]
    /\ pending = [j \in Jobs |-> 0] /\ pc = [j \in Jobs |-> "idle"] /\ ready = [j \in Jobs |-> {}]
    /\ plan = [r \in Runs |-> [nodes |-> {}, edges |-> {}]]
    /\ succeeded = [j \in Jobs |-> FALSE] /\ threw = [j \in Jobs |-> FALSE] /\ ran = [j \in Jobs |-> 0]

-----------------------------------------------------------------------------
From(e) == e[1]
To(e)   == e[2]
Into(n) == {e \in edges : To(e) = n}
Prerequisites(n) == {From(e) : e \in Into(n)}

(* hasCycleLocked(): dfs() colours u visiting, looks at u's entries, colours u done.  The   *)
(* result carries the colours and whether an edge into a node being visited was met.        *)
Colour == {"unvisited", "visiting", "done"}

(* Mutant: an edge into a finished node counts as well. *)
BackEdge_Done(c, v) == c[v] # "unvisited"

BackEdge(c, v) == c[v] = "visiting"

(* One entry of u's list; what dfs() returns for a node not visited yet is down[<<v, c>>]. *)
Look(down, e, r) ==
    IF r.cycle \/ BackEdge(r.c, To(e)) THEN [r EXCEPT !.cycle = TRUE]
    ELSE IF r.c[To(e)] = "unvisited" THEN down[<<To(e), r.c>>] ELSE r

Looked(down, u, colours) ==
    FoldSet(LAMBDA e, r : Look(down, e, r),
            [cycle |-> FALSE, c |-> [colours EXCEPT ![u] = "visiting"]],
            {e \in edges : From(e) = u})

(* dfs() with as many calls left below it.  Each one colours another node, so the last is   *)
(* never missed when there are as many as nodes.                                            *)
Dfs[calls \in 0..Cardinality(Nodes)] ==
    [x \in Nodes \X [Nodes -> Colour] |->
        IF calls = 0 THEN [cycle |-> FALSE, c |-> x[2]]
        ELSE [Looked(Dfs[calls - 1], x[1], x[2]) EXCEPT !.c[x[1]] = "done"]]

Try(u, r) == IF r.cycle \/ r.c[u] # "unvisited" THEN r ELSE Dfs[Cardinality(Nodes)][<<u, r.c>>]

HasCycle == FoldSet(Try, [cycle |-> FALSE, c |-> [n \in Nodes |-> "unvisited"]], nodes).cycle

-----------------------------------------------------------------------------
(* The client.  It touches the graph between runs: when the future of the last one is ready. *)
Quiet == \A j \in Jobs : pending[j] = 0 /\ pc[j] = "idle"
Between ==
    /\ client = "free"
    /\ run > 0 => promise[run] \in {"true", "false"}
    /\ RunWhenQuiet => Quiet
    /\ run > 0 => Cardinality(plan[run].nodes) <= RerunNodes /\ Cardinality(edges) <= RerunNodes

Frame == UNCHANGED <<hasPool, m_failed, runVars, promise, cnt, jobVars, taskVars>>

AddNode(n) ==
    /\ Between /\ n \notin nodes /\ (run > 0 => Cardinality(nodes) < RerunNodes)
    /\ nodes' = nodes \cup {n}
    /\ depsLeft' = [depsLeft EXCEPT ![n] = 0]
    /\ UNCHANGED edges /\ Frame

AddEdge(m, n) ==
    /\ Between /\ {m, n} \subseteq nodes
    /\ Cardinality(edges) < IF run > 0 THEN RerunNodes ELSE MaxEdges
    /\ LET k == 1 + Cardinality({e \in edges : From(e) = m /\ To(e) = n}) IN
       /\ k <= MaxCopies
       /\ edges' = edges \cup {<<m, n, k>>}
    /\ depsLeft' = [depsLeft EXCEPT ![n] = @ + 1]
    /\ UNCHANGED nodes /\ Frame

(* Mutant: an edge that was added twice counts once. *)
CountDeps_Distinct ==
    depsLeft' = [n \in Nodes |-> IF n \in nodes THEN Cardinality(Prerequisites(n)) ELSE depsLeft[n]]

CountDeps == depsLeft' = [n \in Nodes |-> IF n \in nodes THEN Cardinality(Into(n)) ELSE depsLeft[n]]

Reset ==
    /\ Between
    /\ m_failed' = FALSE
    /\ CountDeps
    /\ UNCHANGED <<graphVars, runVars, promise, cnt, jobVars, taskVars>>

Clear ==
    /\ Between /\ nodes # {}
    /\ nodes' = {} /\ edges' = {}
    /\ UNCHANGED depsLeft /\ Frame

-----------------------------------------------------------------------------
(* run(): the flag is cleared before m_mutex is taken, and m_mutex is released between     *)
(* the plan and the submission of the roots.                                               *)
RunCall ==
    /\ Between /\ run < MaxRuns
    /\ run' = run + 1
    /\ IF hasPool THEN /\ m_failed' = FALSE
                       /\ client' = "plan"
                       /\ promise' = [promise EXCEPT ![run + 1] = "unset"]
                  ELSE /\ promise' = [promise EXCEPT ![run + 1] = "false"]
                       /\ UNCHANGED <<m_failed, client>>
    /\ UNCHANGED <<graphVars, depsLeft, tasks, plan, cnt, jobVars, taskVars>>

Found == plan' = [plan EXCEPT ![run] = [nodes |-> nodes, edges |-> edges]]

RunEmpty ==
    /\ client = "plan" /\ nodes = {}
    /\ promise' = [promise EXCEPT ![run] = "true"]
    /\ client' = "free" /\ Found
    /\ UNCHANGED <<graphVars, depsLeft, m_failed, run, tasks, cnt, jobVars, taskVars>>

RunCycle ==
    /\ client = "plan" /\ nodes # {} /\ HasCycle
    /\ promise' = [promise EXCEPT ![run] = "false"]
    /\ client' = "free" /\ Found
    /\ UNCHANGED <<graphVars, depsLeft, m_failed, run, tasks, cnt, jobVars, taskVars>>

RunPlan ==
    /\ client = "plan" /\ nodes # {} /\ ~HasCycle
    /\ tasks' = [tasks EXCEPT ![run] = Cardinality(nodes)]
    /\ CountDeps
    /\ client' = "roots" /\ Found
    /\ UNCHANGED <<graphVars, m_failed, run, promise, cnt, jobVars, taskVars>>

RunRoots ==
    /\ client = "roots"
    /\ LET roots == {n \in nodes : depsLeft[n] = 0} IN
       /\ pending' = [j \in Jobs |-> IF j[1] = run /\ j[2] \in roots THEN pending[j] + 1 ELSE pending[j]]
       /\ promise' = IF roots = {} THEN [promise EXCEPT ![run] = "false"] ELSE promise
    /\ client' = "free"
    /\ UNCHANGED <<graphVars, depsLeft, m_failed, run, tasks, plan, cnt, pc, ready, taskVars>>

-----------------------------------------------------------------------------
(* The closure of node n in run r, j = <<r, n>>. *)
Go(j, l) == pc' = [pc EXCEPT ![j] = l]
At(j, l) == pc[j] = l
JobFrame == UNCHANGED <<graphVars, runVars>>

(* A worker takes the closure; m_nodes.at() throws if the node is gone. *)
JobLookup(j) ==
    /\ At(j, "idle") /\ pending[j] > 0
    /\ pending' = [pending EXCEPT ![j] = @ - 1]
    /\ Go(j, IF j[2] \in nodes THEN "test" ELSE "fail")
    /\ UNCHANGED <<depsLeft, m_failed, promise, cnt, ready, taskVars>> /\ JobFrame

JobTest(j) ==
    /\ At(j, "test")
    /\ Go(j, IF m_failed THEN "finish" ELSE "run")
    /\ UNCHANGED <<depsLeft, m_failed, promise, cnt, pending, ready, taskVars>> /\ JobFrame

JobRun(j) ==
    /\ At(j, "run")
    /\ ran' = [ran EXCEPT ![j] = @ + 1]
    /\ \/ Go(j, "finish") /\ succeeded' = [succeeded EXCEPT ![j] = TRUE] /\ UNCHANGED threw
       \/ Go(j, "fail") /\ threw' = [threw EXCEPT ![j] = TRUE] /\ UNCHANGED succeeded
    /\ UNCHANGED <<depsLeft, m_failed, promise, cnt, pending, ready>> /\ JobFrame

JobFail(j) ==
    /\ At(j, "fail")
    /\ m_failed' = TRUE
    /\ Go(j, "break")
    /\ UNCHANGED <<depsLeft, promise, cnt, pending, ready, taskVars>> /\ JobFrame

(* A promise keeps its first value: set_value() throws the second time, and is caught. *)
SetOnce(r, v) == promise' = [promise EXCEPT ![r] = IF @ = "unset" THEN v ELSE @]

JobBreak(j) ==
    /\ At(j, "break")
    /\ SetOnce(j[1], "false")
    /\ Go(j, "count")
    /\ UNCHANGED <<depsLeft, m_failed, cnt, pending, ready, taskVars>> /\ JobFrame

(* onTaskFinished() *)
JobFinish(j) ==
    /\ At(j, "finish")
    /\ Go(j, IF m_failed THEN "count" ELSE "lower")
    /\ UNCHANGED <<depsLeft, m_failed, promise, cnt, pending, ready, taskVars>> /\ JobFrame

(* One fetch_sub per edge; a dependent is ready when one of them takes its count to zero. *)
Lowered(n) == [d \in Nodes |-> depsLeft[d] - Cardinality({e \in Into(d) : From(e) = n})]

JobLower(j) ==
    /\ At(j, "lower")
    /\ depsLeft' = Lowered(j[2])
    /\ ready' = [ready EXCEPT ![j] = {d \in Nodes : depsLeft[d] > 0 /\ depsLeft'[d] <= 0}]
    /\ Go(j, "submit")
    /\ UNCHANGED <<m_failed, promise, cnt, pending, taskVars>> /\ JobFrame

(* Mutant: depsLeft is read again, after the mutex was released. *)
JobSubmit_Reread(j) ==
    /\ At(j, "submit")
    /\ LET now == {d \in Nodes : depsLeft[d] = 0 /\ j[2] \in Prerequisites(d)} IN
       pending' = [i \in Jobs |-> IF i[1] = j[1] /\ i[2] \in now THEN pending[i] + 1 ELSE pending[i]]
    /\ ready' = [ready EXCEPT ![j] = {}]
    /\ Go(j, "count")
    /\ UNCHANGED <<depsLeft, m_failed, promise, cnt, taskVars>> /\ JobFrame

JobSubmit(j) ==
    /\ At(j, "submit")
    /\ pending' = [i \in Jobs |-> IF i[1] = j[1] /\ i[2] \in ready[j] THEN pending[i] + 1 ELSE pending[i]]
    /\ ready' = [ready EXCEPT ![j] = {}]
    /\ Go(j, "count")
    /\ UNCHANGED <<depsLeft, m_failed, promise, cnt, taskVars>> /\ JobFrame

(* Mutant: the value before the increment is compared. *)
JobCount_OldValue(j) ==
    /\ At(j, "count")
    /\ cnt' = [cnt EXCEPT ![j[1]] = @ + 1]
    /\ Go(j, IF cnt[j[1]] = tasks[j[1]] THEN "last" ELSE "idle")
    /\ UNCHANGED <<depsLeft, m_failed, promise, pending, ready, taskVars>> /\ JobFrame

JobCount(j) ==
    /\ At(j, "count")
    /\ cnt' = [cnt EXCEPT ![j[1]] = @ + 1]
    /\ Go(j, IF cnt[j[1]] + 1 = tasks[j[1]] THEN "last" ELSE "idle")
    /\ UNCHANGED <<depsLeft, m_failed, promise, pending, ready, taskVars>> /\ JobFrame

JobLast(j) ==
    /\ At(j, "last")
    /\ IF m_failed THEN UNCHANGED promise ELSE SetOnce(j[1], "true")
    /\ Go(j, "idle")
    /\ UNCHANGED <<depsLeft, m_failed, cnt, pending, ready, taskVars>> /\ JobFrame

Job(j) ==
    \/ JobLookup(j) \/ JobTest(j) \/ JobRun(j) \/ JobFail(j) \/ JobBreak(j) \/ JobFinish(j)
    \/ JobLower(j) \/ JobSubmit(j) \/ JobCount(j) \/ JobLast(j)

-----------------------------------------------------------------------------
Run == RunEmpty \/ RunCycle \/ RunPlan \/ RunRoots

Next ==
    \/ \E n \in Nodes : AddNode(n) \/ \E m \in Nodes : AddEdge(m, n)
    \/ Reset \/ Clear \/ RunCall \/ Run
    \/ \E j \in Jobs : Job(j)

Spec == Init /\ [][Next]_vars

(* The pool runs every closure it accepted, closures end, and run() goes on to its return. *)
FairSpec == Spec /\ WF_vars(Run) /\ \A j \in Jobs : WF_vars(Job(j))

-----------------------------------------------------------------------------
(* Properties *)

(* A task runs when everything the run's graph puts before it has succeeded in that run,   *)
(* so neither a task that threw nor one that was skipped lets its dependents through.       *)
DependencyOrder ==
    \A j \in Jobs : pc[j] = "run" =>
        \A e \in plan[j[1]].edges : To(e) = j[2] => succeeded[<<j[1], From(e)>>]

(* While a run is going on and nothing has failed, depsLeft counts, edge by edge, the       *)
(* prerequisites that have not yet reported to the node.                                    *)
Reported(j) == succeeded[j] /\ pc[j] \notin {"finish", "lower"}
KahnCounts ==
    run > 0 /\ promise[run] = "unset" /\ client # "plan" /\ ~m_failed =>
        \A n \in nodes : depsLeft[n] = Cardinality({e \in Into(n) : ~Reported(<<run, From(e)>>)})

(* No task runs twice in one run, whichever of its prerequisites finish together.          *)
OncePerRun == \A j \in Jobs : ran[j] <= 1

(* ... says true: every node's task ran and succeeded, and no closure is left.    *)
TrueMeansAll ==
    \A r \in Runs : promise[r] = "true" =>
        \A n \in plan[r].nodes :
            succeeded[<<r, n>>] /\ pending[<<r, n>>] = 0 /\ pc[<<r, n>>] = "idle"

(* ... says false: there was no pool, no order of the nodes respects the edges,   *)
(* or a task of that run threw.                                                             *)
FalseMeansFailed ==
    \A r \in Runs : promise[r] = "false" =>
        \/ ~hasPool
        \/ ~\E rank \in [plan[r].nodes -> 1..Cardinality(Nodes)] :
              \A e \in plan[r].edges : rank[From(e)] < rank[To(e)]
        \/ \E n \in Nodes : threw[<<r, n>>]

(* The future tells the truth, whichever of its three writers set it: run(), the closure   *)
(* of a task that threw, or the closure that counted last.                                 *)
FutureTells == TrueMeansAll /\ FalseMeansFailed

(* The future of every run becomes ready.                                                   *)
RunResolves == \A r \in Runs : promise[r] = "unset" ~> promise[r] \in {"true", "false"}

-----------------------------------------------------------------------------
(* What the test "partial failure blocks only dependents" requires: when the closures of a  *)
(* run are gone, a task that did not run has a prerequisite that did not succeed.           *)
OnlyDependentsBlocked ==
    Quiet /\ client = "free" => \A r \in Runs : tasks[r] > 0 =>
        \A n \in plan[r].nodes : ran[<<r, n>>] = 0 =>
            \E e \in plan[r].edges : To(e) = n /\ ~succeeded[<<r, From(e)>>]

===============================================================================
